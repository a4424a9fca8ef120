---------------------------- MODULE HandoverProofs ----------------------------
(***************************************************************************)
(* How bot and attendants share a conversation: for any contacts, turns,   *)
(* workers, attendants, commands and decisions of the agent, Conversation  *)
(* implements Handover, notifies attendants once for each time they get a  *)
(* conversation, and lets few answers into a silenced one.                 *)
(***************************************************************************)
EXTENDS ConversationProofs, FiniteSetTheorems

Statuses == {"none", "bot_active"} \cup Silent

(* A worker at "notifying" still has to tell some attendants, never the    *)
(* contact itself.                                                         *)
NotifyInv ==
  \A w \in Workers : /\ worker[w].admins \subseteq Admins
                     /\ At(w, "notifying") => Phone(w) \notin worker[w].admins
ShareInv ==
  /\ status \in [Phones -> Statuses]
  /\ notices \in [Phones -> Nat] /\ releases \in [Phones -> Nat]
  /\ NotifyInv
-----------------------------------------------------------------------------
(* What a step is for those who share a conversation.                      *)
SameDue == \A p \in Phones : Due(p)' = Due(p)
Opens(p) == status[p] = "none" /\ status' = [status EXCEPT ![p] = "bot_active"]
MayOpen == status' = status \/ \E p \in Phones : Opens(p)
OtherDue(p) == \A q \in Phones \ {p} : Due(q)' = Due(q)
Told(w, p) == {w} \X (Admins \ {p})

Quiet == SameDue /\ MayOpen /\ UNCHANGED <<notices, releases>>
HandsOver(w, p) ==
  /\ status[p] = "bot_active" /\ status' = [status EXCEPT ![p] = "human_pending"]
  /\ Told(w, p) \cap Due(p) = {}
  /\ Due(p)' = Due(p) \cup Told(w, p) /\ OtherDue(p)
  /\ UNCHANGED <<notices, releases>>
Notifies(p, x) ==
  /\ x \in Due(p) /\ Due(p)' = Due(p) \ {x} /\ OtherDue(p)
  /\ notices' = [notices EXCEPT ![p] = notices[p] + 1]
  /\ MayOpen /\ UNCHANGED releases
Loses(p, X) ==
  /\ X \subseteq Due(p) /\ Due(p)' = Due(p) \ X /\ OtherDue(p)
  /\ UNCHANGED <<status, notices, releases>>
Commands(command) == Execute(command) /\ SameDue /\ UNCHANGED notices

Shares ==
  \/ Quiet
  \/ \E w \in Workers, p \in Phones : HandsOver(w, p)
  \/ \E p \in Phones : \E x \in Workers \X Admins : Notifies(p, x)
  \/ \E p \in Phones : \E X \in SUBSET (Workers \X Admins) : Loses(p, X)
  \/ \E command \in [action : Actions, target : Phones] : Commands(command)
-----------------------------------------------------------------------------
(* A worker that moves on outside of its notifications.                    *)
Moves(w, r) == worker' = [worker EXCEPT ![w] = r]

LEMMA DueKept ==
  ASSUME WorkerInv, NEW w \in Workers, NEW r, Moves(w, r),
         worker[w].pc # "notifying", r.pc # "notifying"
  PROVE  SameDue
<1>1. \A v \in Workers : worker'[v] = IF v = w THEN r ELSE worker[v]
  BY DEF Moves, WorkerInv
<1> SUFFICES ASSUME NEW p \in Phones, NEW x \in Workers \X Admins
             PROVE  x \in Due(p)' <=> x \in Due(p)
  BY DEF SameDue, Due
<1> QED BY <1>1 DEF Due, At, Phone

LEMMA OpenedIs ==
  ASSUME status \in [Phones -> Statuses], NEW p \in Phones,
         status' = [status EXCEPT ![p] = Opened(p)]
  PROVE  MayOpen
BY DEF Opened, MayOpen, Opens

(* The steps of a worker outside of handoff and notification.              *)
Plain(w) ==
  \/ (\E t \in Turns : Claim(w, t)) \/ Finish(w)
  \/ SkipIgnored(w) \/ TakeCustomer(w) \/ HoldEarlier(w) \/ RecordManual(w)
  \/ RefuseCommand(w) \/ AcknowledgeCommand(w)
  \/ EndReading(w) \/ StoreAndGate(w) \/ FailMedia(w)
  \/ (\E decision \in Decisions : Decide(w, decision))
  \/ (\E k \in Answers : SkipAnswer(w, k) \/ SendAnswer(w, k) \/ FailAnswer(w, k)
                          \/ LogAnswer(w, k))

LEMMA PlainMoves ==
  ASSUME WorkerInv, NEW w \in Workers, Plain(w) \/ RunCommand(w)
  PROVE  /\ worker[w].pc # "notifying"
         /\ \E r : /\ Moves(w, r) /\ r.pc # "notifying"
                   /\ r.admins = {} \/ r.admins = worker[w].admins
<1> DEFINE Good(r) == /\ Moves(w, r) /\ r.pc # "notifying"
                      /\ r.admins = {} \/ r.admins = worker[w].admins
<1>0. DOMAIN worker = Workers /\ DOMAIN worker[w] = LoopFields BY DEF WorkerInv
<1>1. ASSUME NEW t \in Turns, Claim(w, t)
      PROVE  worker[w].pc # "notifying" /\ \E r : Good(r)
  <2> DEFINE r == [pc |-> "reading", turn |-> t, pos |-> 1, batch |-> <<>>,
                   handoff |-> "no", photos |-> <<>>, admins |-> {}]
  <2>1. Good(r) BY <1>1 DEF Claim, Moves
  <2> QED BY <1>1, <2>1 DEF Claim, At
<1>2. ASSUME worker' = [worker EXCEPT ![w] = Idle] PROVE \E r : Good(r)
  <2>1. Good(Idle) BY <1>2 DEF Idle, Moves
  <2> QED BY <2>1
<1>3. ASSUME NEW pc, pc # "notifying", Go(w, pc) PROVE \E r : Good(r)
  <2> DEFINE r == [worker[w] EXCEPT !.pc = pc]
  <2>1. Good(r) BY <1>0, <1>3 DEF Go, Moves, LoopFields
  <2> QED BY <2>1
<1>4. ASSUME NEW batch, NextMessage(w, batch), At(w, "reading") PROVE \E r : Good(r)
  <2> DEFINE r == [worker[w] EXCEPT !.pos = worker[w].pos + 1, !.batch = batch]
  <2>1. Good(r) BY <1>0, <1>4 DEF NextMessage, Moves, At, LoopFields
  <2> QED BY <2>1
<1>5. ASSUME HoldEarlier(w) PROVE worker[w].pc # "notifying" /\ \E r : Good(r)
  <2> DEFINE r == [worker[w] EXCEPT !.batch = Tail(worker[w].batch)]
  <2>1. worker[w].pc = "reading" BY <1>5 DEF HoldEarlier, Reading, At
  <2>2. Good(r) BY <1>0, <1>5, <2>1 DEF HoldEarlier, Moves, LoopFields
  <2> QED BY <2>1, <2>2
<1>6. ASSUME AcknowledgeCommand(w) PROVE worker[w].pc # "notifying" /\ \E r : Good(r)
  <2> DEFINE r == [worker[w] EXCEPT !.pc = "reading", !.pos = worker[w].pos + 1]
  <2>1. CASE worker' = [worker EXCEPT ![w].pc = "reading", ![w].pos = @ + 1]
    <3>1. Good(r) BY <1>0, <2>1 DEF Moves, LoopFields
    <3> QED BY <1>6, <3>1 DEF AcknowledgeCommand, At
  <2>2. CASE Retry(w)
    BY <1>2, <1>6, <2>2 DEF AcknowledgeCommand, Retry, At
  <2> QED BY <1>6, <2>1, <2>2 DEF AcknowledgeCommand
<1>7. ASSUME FailMedia(w) PROVE worker[w].pc # "notifying" /\ \E r : Good(r)
  <2> DEFINE r == [worker[w] EXCEPT !.pc = "apologising", !.handoff = "yes"]
  <2>1. Good(r) BY <1>0, <1>7 DEF FailMedia, Moves, LoopFields
  <2> QED BY <1>7, <2>1 DEF FailMedia, At
<1>8. ASSUME NEW decision \in Decisions, Decide(w, decision)
      PROVE  worker[w].pc # "notifying" /\ \E r : Good(r)
  <2> DEFINE r == [worker[w] EXCEPT !.pc = "answering", !.handoff = decision.handoff,
                                    !.photos = decision.photos]
  <2>1. Good(r) BY <1>0, <1>8 DEF Decide, Moves, LoopFields
  <2> QED BY <1>8, <2>1 DEF Decide, At
<1>a. ASSUME NEW photos, AfterAnswer(w, photos) PROVE \E r : Good(r)
  <2>1. PICK pc \in AfterPcs :
          worker' = [worker EXCEPT ![w].pc = pc, ![w].photos = photos]
    BY <1>a DEF AfterAnswer, AfterPcs
  <2> DEFINE r == [worker[w] EXCEPT !.pc = pc, !.photos = photos]
  <2>2. Good(r) BY <1>0, <2>1 DEF Moves, LoopFields, AfterPcs
  <2> QED BY <2>2
<1>9. ASSUME NEW k \in Answers, SkipAnswer(w, k) \/ SendAnswer(w, k) \/ FailAnswer(w, k)
      PROVE  worker[w].pc # "notifying" /\ \E r : Good(r)
  <2>1. worker[w].pc # "notifying"
    BY <1>9 DEF SkipAnswer, SendAnswer, FailAnswer, Sending, SendPcs
  <2>2. LogPc(k) # "notifying" BY LoggingPc DEF LoggingPcs
  <2> HIDE DEF Good
  <2> QED BY <1>2, <1>3, <1>9, <1>a, <2>1, <2>2 DEF SkipAnswer, SendAnswer, FailAnswer, Retry
<1>10. ASSUME NEW k \in Answers, LogAnswer(w, k)
       PROVE  worker[w].pc # "notifying" /\ \E r : Good(r)
  <2>1. worker[w].pc # "notifying"
    BY <1>10, LoggingPc DEF LogAnswer, Logging, At, LoggingPcs
  <2> HIDE DEF Good
  <2> QED BY <1>10, <1>a, <2>1 DEF LogAnswer
<1>11. ASSUME Finish(w) PROVE worker[w].pc # "notifying" /\ \E r : Good(r)
  BY <1>2, <1>11 DEF Finish, At
<1>12. ASSUME SkipIgnored(w) \/ TakeCustomer(w) \/ RecordManual(w) \/ RefuseCommand(w)
       PROVE  worker[w].pc # "notifying" /\ \E r : Good(r)
  <2>1. At(w, "reading") /\ \E batch : NextMessage(w, batch)
    BY <1>12 DEF SkipIgnored, TakeCustomer, RecordManual, RefuseCommand, Reading
  <2> HIDE DEF Good
  <2> QED BY <1>4, <2>1 DEF At
<1>13. ASSUME EndReading(w) \/ StoreAndGate(w) \/ RunCommand(w)
       PROVE  worker[w].pc # "notifying" /\ \E r : Good(r)
  <2>1. At(w, "reading") /\ (Go(w, "done") \/ Go(w, "preparing") \/ Go(w, "acknowledging"))
    BY <1>13 DEF EndReading, StoreAndGate, RunCommand, Reading
  <2> HIDE DEF Good
  <2> QED BY <1>3, <2>1 DEF At
<1> HIDE DEF Good
<1>14. worker[w].pc # "notifying" /\ \E r : Good(r)
  BY <1>1, <1>5, <1>6, <1>7, <1>8, <1>9, <1>10, <1>11, <1>12, <1>13 DEF Plain
<1> QED BY <1>14 DEF Good

LEMMA PlainQuiet ==
  ASSUME WorkerInv, ShareInv, NEW w \in Workers, Plain(w)
  PROVE  Quiet
<1>1. SameDue BY PlainMoves, DueKept
<1>2. UNCHANGED <<notices, releases>>
  BY DEF Plain, Claim, Finish, SkipIgnored, TakeCustomer, HoldEarlier, RecordManual,
         RefuseCommand, AcknowledgeCommand, EndReading, StoreAndGate, FailMedia, Decide,
         SkipAnswer, SendAnswer, FailAnswer, LogAnswer, conversation, records
<1>3. MayOpen
  <2>1. \/ status' = status
        \/ HoldEarlier(w) /\ status' = [status EXCEPT ![Phone(w)] = Opened(Phone(w))]
        \/ RecordManual(w) /\ status' = [status EXCEPT ![Phone(w)] = Opened(Phone(w))]
        \/ AcknowledgeCommand(w) /\ status' = [status EXCEPT ![Phone(w)] = Opened(Phone(w))]
        \/ StoreAndGate(w) /\ status' = [status EXCEPT ![Phone(w)] = Opened(Phone(w))]
    BY DEF Plain, Claim, Finish, SkipIgnored, TakeCustomer, HoldEarlier, RecordManual,
           RefuseCommand, AcknowledgeCommand, EndReading, StoreAndGate, FailMedia, Decide,
           SkipAnswer, SendAnswer, FailAnswer, LogAnswer, conversation
  <2>2. ASSUME HoldEarlier(w) \/ RecordManual(w) \/ AcknowledgeCommand(w) \/ StoreAndGate(w)
        PROVE  Phone(w) \in Phones
    <3>1. worker[w].pc # "idle"
      BY <2>2 DEF HoldEarlier, RecordManual, AcknowledgeCommand, StoreAndGate, Reading, At
    <3>2. worker[w].turn \in Turns BY <3>1 DEF WorkerInv, Busy
    <3> QED BY <3>2, PayloadOf DEF Phone
  <2>3. status \in [Phones -> Statuses] BY DEF ShareInv
  <2> QED BY <2>1, <2>2, <2>3, OpenedIs DEF MayOpen
<1> QED BY <1>1, <1>2, <1>3 DEF Quiet

LEMMA BusyPhone ==
  ASSUME WorkerInv, NEW w \in Workers, worker[w].pc # "idle"
  PROVE  Phone(w) \in Phones
<1>1. worker[w].turn \in Turns BY DEF WorkerInv, Busy
<1> QED BY <1>1, PayloadOf DEF Phone

(* The notifications of one worker among those of a contact.               *)
LEMMA DueOf ==
  ASSUME NEW p \in Phones, NEW v \in Workers, NEW a \in Admins
  PROVE  <<v, a>> \in Due(p) <=> /\ worker[v].pc = "notifying" /\ Phone(v) = p
                                 /\ a \in worker[v].admins
BY DEF Due, At

LEMMA DueNext ==
  ASSUME NEW p \in Phones, NEW v \in Workers, NEW a \in Admins
  PROVE  <<v, a>> \in Due(p)' <=> /\ worker'[v].pc = "notifying"
                                  /\ PhoneOf[worker'[v].turn] = p
                                  /\ a \in worker'[v].admins
BY DEF Due, At, Phone

LEMMA DueEqual ==
  ASSUME NEW p \in Phones,
         \A v \in Workers, a \in Admins : <<v, a>> \in Due(p)' <=> <<v, a>> \in Due(p)
  PROVE  Due(p)' = Due(p)
<1>1. Due(p) \subseteq Workers \X Admins /\ Due(p)' \subseteq Workers \X Admins BY DEF Due
<1> QED BY <1>1

LEMMA HandOverShares ==
  ASSUME WorkerInv, ShareInv, NEW w \in Workers, ClaimHandoff(w)
  PROVE  Quiet \/ \E p \in Phones : HandsOver(w, p)
<1>1. worker[w].pc = "handing over" /\ UNCHANGED <<notices, releases>>
  BY DEF ClaimHandoff, At, records
<1>2. PICK p \in Phones : p = Phone(w) BY <1>1, BusyPhone
<1>3. CASE status[p] # "bot_active"
  <2>1. Go(w, "done") /\ status' = status BY <1>2, <1>3 DEF ClaimHandoff
  <2>2. Moves(w, [worker[w] EXCEPT !.pc = "done"])
        /\ [worker[w] EXCEPT !.pc = "done"].pc # "notifying"
    BY <2>1 DEF Go, Moves, WorkerInv, LoopFields
  <2>3. SameDue BY <1>1, <2>2, DueKept
  <2> QED BY <1>1, <2>1, <2>3 DEF Quiet, MayOpen
<1>4. CASE status[p] = "bot_active"
  <2>1. status' = [status EXCEPT ![p] = "human_pending"]
        /\ worker' = [worker EXCEPT ![w].pc = "notifying", ![w].admins = Admins \ {p}]
    BY <1>2, <1>4 DEF ClaimHandoff
  <2>2. /\ worker'[w].pc = "notifying" /\ worker'[w].admins = Admins \ {p}
        /\ worker'[w].turn = worker[w].turn
        /\ \A v \in Workers \ {w} : worker'[v] = worker[v]
    BY <2>1 DEF WorkerInv, LoopFields
  <2>3. ASSUME NEW q \in Phones, NEW v \in Workers, NEW a \in Admins
        PROVE  <<v, a>> \in Due(q)' <=> \/ <<v, a>> \in Due(q)
                                        \/ v = w /\ q = p /\ a # p
    <3>1. CASE v = w
      <4>1. <<v, a>> \notin Due(q) BY <1>1, <3>1, DueOf
      <4>2. PhoneOf[worker'[v].turn] = p BY <1>2, <2>2, <3>1 DEF Phone
      <4>3. <<v, a>> \in Due(q)' <=> q = p /\ a # p BY <2>2, <3>1, <4>2, DueNext
      <4> QED BY <3>1, <4>1, <4>3
    <3>2. CASE v # w BY <2>2, <3>2, DueOf, DueNext DEF Phone
    <3> QED BY <3>1, <3>2
  <2>4. \A q \in Phones : Due(q) \subseteq Workers \X Admins
                          /\ Due(q)' \subseteq Workers \X Admins
    BY DEF Due
  <2>5. Due(p)' = Due(p) \cup Told(w, p) BY <2>3, <2>4 DEF Told
  <2>6. OtherDue(p)
    <3>1. ASSUME NEW q \in Phones \ {p} PROVE Due(q)' = Due(q)
      BY <2>3, <3>1, DueEqual
    <3> QED BY <3>1 DEF OtherDue
  <2>7. Told(w, p) \cap Due(p) = {}
    <3>1. \A a \in Admins : <<w, a>> \notin Due(p) BY <1>1, DueOf
    <3> QED BY <3>1 DEF Told
  <2> QED BY <1>1, <1>4, <2>1, <2>5, <2>6, <2>7 DEF HandsOver
<1> QED BY <1>3, <1>4

LEMMA NotifyShares ==
  ASSUME WorkerInv, ShareInv, NEW w \in Workers, NEW a \in Admins, NotifyAdmin(w, a)
  PROVE  \E p \in Phones : Notifies(p, <<w, a>>) \/ Loses(p, {<<w, a>>})
<1>1. worker[w].pc = "notifying" /\ a \in worker[w].admins /\ UNCHANGED releases
  BY DEF NotifyAdmin, At
<1>2. PICK p \in Phones : p = Phone(w) BY <1>1, BusyPhone
<1>3. worker' = [worker EXCEPT ![w].admins = worker[w].admins \ {a}] BY DEF NotifyAdmin
<1>4. /\ worker'[w].pc = "notifying" /\ worker'[w].admins = worker[w].admins \ {a}
      /\ worker'[w].turn = worker[w].turn
      /\ \A v \in Workers \ {w} : worker'[v] = worker[v]
  BY <1>1, <1>3 DEF WorkerInv, LoopFields
<1>5. ASSUME NEW q \in Phones, NEW v \in Workers, NEW b \in Admins
      PROVE  <<v, b>> \in Due(q)' <=> <<v, b>> \in Due(q) /\ ~(v = w /\ b = a)
  BY <1>1, <1>4, DueOf, DueNext DEF Phone
<1>6. \A q \in Phones : Due(q) \subseteq Workers \X Admins
                        /\ Due(q)' \subseteq Workers \X Admins
  BY DEF Due
<1>7. Due(p)' = Due(p) \ {<<w, a>>} BY <1>5, <1>6
<1>8. <<w, a>> \in Due(p) BY <1>1, <1>2, DueOf
<1>9. OtherDue(p)
  <2>1. ASSUME NEW q \in Phones \ {p} PROVE Due(q)' = Due(q)
    <3>1. <<w, a>> \notin Due(q) BY <1>2, <2>1, DueOf
    <3>2. ASSUME NEW v \in Workers, NEW b \in Admins
          PROVE  <<v, b>> \in Due(q)' <=> <<v, b>> \in Due(q)
      BY <1>5, <3>1
    <3> QED BY <3>2, DueEqual
  <2> QED BY <2>1 DEF OtherDue
<1>10. CASE UNCHANGED <<notices, status>>
  BY <1>1, <1>7, <1>8, <1>9, <1>10 DEF Loses
<1>11. CASE notices' = [notices EXCEPT ![Phone(w)] = @ + 1]
            /\ status' = [status EXCEPT ![a] = Opened(a)]
  <2>1. a \in Phones BY AdminAssumption
  <2>2. MayOpen BY <1>11, <2>1, OpenedIs DEF ShareInv
  <2>3. notices' = [notices EXCEPT ![p] = notices[p] + 1] BY <1>2, <1>11
  <2> QED BY <1>1, <1>7, <1>8, <1>9, <2>2, <2>3 DEF Notifies
<1> QED BY <1>10, <1>11 DEF NotifyAdmin

(* A worker stops notifying, at the end or by a crash.                     *)
LEMMA StopShares ==
  ASSUME WorkerInv, ShareInv, NEW w \in Workers, NEW r, Moves(w, r),
         r.pc # "notifying", UNCHANGED <<status, notices, releases>>
  PROVE  Quiet \/ \E p \in Phones : \E X \in SUBSET (Workers \X Admins) : Loses(p, X)
<1>1. CASE worker[w].pc # "notifying"
  <2>1. Quiet BY <1>1, DueKept DEF Quiet, MayOpen
  <2> QED BY <2>1
<1>2. CASE worker[w].pc = "notifying"
  <2>1. PICK p \in Phones : p = Phone(w) BY <1>2, BusyPhone
  <2>2. /\ worker'[w].pc # "notifying"
        /\ \A v \in Workers \ {w} : worker'[v] = worker[v]
    BY DEF Moves, WorkerInv
  <2> DEFINE X == {w} \X worker[w].admins
  <2>3. ASSUME NEW q \in Phones, NEW v \in Workers, NEW b \in Admins
        PROVE  <<v, b>> \in Due(q)' <=> <<v, b>> \in Due(q) /\ v # w
    BY <2>2, DueOf, DueNext DEF Phone
  <2>4. \A q \in Phones : Due(q) \subseteq Workers \X Admins
                          /\ Due(q)' \subseteq Workers \X Admins
    BY DEF Due
  <2>5. worker[w].admins \subseteq Admins BY DEF ShareInv, NotifyInv
  <2>6. \A b \in Admins : <<w, b>> \in Due(p) <=> b \in worker[w].admins
    BY <1>2, <2>1, DueOf
  <2>7. X \subseteq Due(p) BY <2>5, <2>6
  <2>8. Due(p)' = Due(p) \ X BY <2>3, <2>4, <2>6
  <2>9. OtherDue(p)
    <3>1. ASSUME NEW q \in Phones \ {p} PROVE Due(q)' = Due(q)
      <4>1. \A b \in Admins : <<w, b>> \notin Due(q) BY <2>1, <3>1, DueOf
      <4> QED BY <2>3, <4>1, DueEqual
    <3> QED BY <3>1 DEF OtherDue
  <2>10. X \in SUBSET (Workers \X Admins) BY <2>5
  <2> QED BY <2>7, <2>8, <2>9, <2>10 DEF Loses
<1> QED BY <1>1, <1>2

LEMMA CommandOf ==
  ASSUME WorkerInv, NEW w \in Workers, RunCommand(w)
  PROVE  /\ Command[Current(w)] \in [action : Actions, target : Phones]
         /\ Execute(Command[Current(w)])
<1>1. At(w, "reading") /\ Reading(w) /\ Kind[Current(w)] = "command"
  BY DEF RunCommand, Reading
<1>2. Current(w) \in Messages BY <1>1, ReadingOf
<1> QED BY <1>1, <1>2, AdminAssumption DEF RunCommand

LEMMA SameWorkers ==
  ASSUME worker' = worker
  PROVE  SameDue
BY DEF SameDue, Due, At, Phone

LEMMA PanelCommands ==
  ASSUME NEW action \in Actions, NEW p \in Targets
  PROVE  [action |-> action, target |-> p] \in [action : Actions, target : Phones]
BY AdminAssumption

(* Every step of the conversation is one of Shares.                        *)
LEMMA EachStepShares ==
  ASSUME WorkerInv, ShareInv, [Next]_vars
  PROVE  Shares
<1>1. ASSUME NEW w \in Workers, Plain(w) PROVE Shares BY <1>1, PlainQuiet DEF Shares
<1>2. ASSUME NEW w \in Workers, RunCommand(w) PROVE Shares
  <2>1. SameDue BY <1>2, PlainMoves, DueKept
  <2>2. notices' = notices BY <1>2 DEF RunCommand, records
  <2>3. Commands(Command[Current(w)]) BY <1>2, <2>1, <2>2, CommandOf DEF Commands
  <2> QED BY <1>2, <2>3, CommandOf DEF Shares
<1>3. ASSUME NEW w \in Workers, ClaimHandoff(w) PROVE Shares
  BY <1>3, HandOverShares DEF Shares
<1>4. ASSUME NEW w \in Workers, NEW a \in Admins, NotifyAdmin(w, a) PROVE Shares
  <2>1. PICK p \in Phones : Notifies(p, <<w, a>>) \/ Loses(p, {<<w, a>>})
    BY <1>4, NotifyShares
  <2>2. <<w, a>> \in Workers \X Admins OBVIOUS
  <2> QED BY <2>1, <2>2 DEF Shares
<1>5. ASSUME NEW w \in Workers, EndNotifying(w) \/ Crash(w) PROVE Shares
  <2>1. UNCHANGED <<status, notices, releases>>
    BY <1>5 DEF EndNotifying, Crash, conversation, records
  <2>2. \E r : Moves(w, r) /\ r.pc # "notifying"
    <3>1. CASE EndNotifying(w)
      <4>1. Moves(w, [worker[w] EXCEPT !.pc = "done"])
            /\ [worker[w] EXCEPT !.pc = "done"].pc # "notifying"
        BY <3>1 DEF EndNotifying, Go, Moves, WorkerInv, LoopFields
      <4> QED BY <4>1
    <3>2. CASE Crash(w)
      <4>1. Moves(w, Idle) /\ Idle.pc # "notifying" BY <3>2 DEF Crash, Retry, Moves, Idle
      <4> QED BY <4>1
    <3> QED BY <1>5, <3>1, <3>2
  <2> QED BY <2>1, <2>2, StopShares DEF Shares
<1>6. ASSUME NEW action \in Actions, NEW p \in Targets,
             PanelCommand([action |-> action, target |-> p])
      PROVE  Shares
  <2>1. Commands([action |-> action, target |-> p])
    BY <1>6, SameWorkers DEF PanelCommand, Commands, records
  <2> QED BY <2>1, PanelCommands DEF Shares
<1>7. ASSUME NEW m, SetMode(m) PROVE Shares
  <2>1. Quiet BY <1>7, SameWorkers DEF SetMode, Quiet, MayOpen, records
  <2> QED BY <2>1 DEF Shares
<1>8. CASE UNCHANGED vars
  <2>1. Quiet BY <1>8, SameWorkers DEF vars, Quiet, MayOpen
  <2> QED BY <2>1 DEF Shares
<1>9. ASSUME NEW w \in Workers, WorkerStep(w) PROVE Shares
  BY <1>1, <1>2, <1>3, <1>4, <1>5, <1>9 DEF WorkerStep, Plain
<1> QED BY <1>5, <1>6, <1>7, <1>8, <1>9 DEF Next

(* Notifications stay with attendants other than the contact.              *)
LEMMA NotifyMoves ==
  ASSUME WorkerInv, NotifyInv, NEW w \in Workers, NEW r, Moves(w, r), r.pc # "notifying",
         r.admins \subseteq Admins
  PROVE  NotifyInv'
<1>1. worker'[w] = r /\ \A v \in Workers \ {w} : worker'[v] = worker[v]
  BY DEF Moves, WorkerInv
<1> QED BY <1>1 DEF NotifyInv, At, Phone

LEMMA NotifyNext ==
  ASSUME WorkerInv, NotifyInv, [Next]_vars
  PROVE  NotifyInv'
<1>1. ASSUME NEW w \in Workers, Plain(w) \/ RunCommand(w) PROVE NotifyInv'
  <2>1. PICK r : Moves(w, r) /\ r.pc # "notifying"
                 /\ (r.admins = {} \/ r.admins = worker[w].admins)
    BY <1>1, PlainMoves
  <2>2. r.admins \subseteq Admins BY <2>1 DEF NotifyInv
  <2> QED BY <2>1, <2>2, NotifyMoves
<1>2. ASSUME NEW w \in Workers, Crash(w) PROVE NotifyInv'
  <2>1. Moves(w, Idle) /\ Idle.pc # "notifying" /\ Idle.admins \subseteq Admins
    BY <1>2 DEF Crash, Retry, Moves, Idle
  <2> QED BY <2>1, NotifyMoves
<1>3. ASSUME NEW w \in Workers, Go(w, "done") PROVE NotifyInv'
  <2>1. Moves(w, [worker[w] EXCEPT !.pc = "done"])
        /\ [worker[w] EXCEPT !.pc = "done"].pc # "notifying"
        /\ [worker[w] EXCEPT !.pc = "done"].admins \subseteq Admins
    BY <1>3 DEF Go, Moves, WorkerInv, LoopFields, NotifyInv
  <2> QED BY <2>1, NotifyMoves
<1>4. ASSUME NEW w \in Workers,
             worker' = [worker EXCEPT ![w].pc = "notifying", ![w].admins = Admins \ {Phone(w)}]
      PROVE  NotifyInv'
  <2>1. worker'[w].turn = worker[w].turn /\ worker'[w].admins = Admins \ {Phone(w)}
        /\ \A v \in Workers \ {w} : worker'[v] = worker[v]
    BY <1>4 DEF WorkerInv, LoopFields
  <2> QED BY <2>1 DEF NotifyInv, At, Phone
<1>5. ASSUME NEW w \in Workers, NEW a \in Admins, NotifyAdmin(w, a) PROVE NotifyInv'
  <2>1. worker' = [worker EXCEPT ![w].admins = worker[w].admins \ {a}]
    BY <1>5 DEF NotifyAdmin
  <2>2. worker'[w].turn = worker[w].turn /\ worker'[w].pc = worker[w].pc
        /\ worker'[w].admins \subseteq worker[w].admins
        /\ \A v \in Workers \ {w} : worker'[v] = worker[v]
    BY <2>1 DEF WorkerInv, LoopFields
  <2> QED BY <2>2 DEF NotifyInv, At, Phone
<1>6. ASSUME worker' = worker PROVE NotifyInv' BY <1>6 DEF NotifyInv, At, Phone
<1>7. ASSUME NEW w \in Workers, ClaimHandoff(w) \/ EndNotifying(w) PROVE NotifyInv'
  BY <1>3, <1>4, <1>7 DEF ClaimHandoff, EndNotifying
<1>8. ASSUME NEW w \in Workers, WorkerStep(w) PROVE NotifyInv'
  BY <1>1, <1>5, <1>7, <1>8 DEF WorkerStep, Plain
<1> QED BY <1>2, <1>6, <1>8 DEF Next, PanelCommand, SetMode, vars

LEMMA CommandType ==
  ASSUME ShareInv, NEW command \in [action : Actions, target : Phones], Execute(command)
  PROVE  /\ status' \in [Phones -> Statuses] /\ releases' \in [Phones -> Nat]
<1>1. \A p \in Phones : StatusAfter(command, p) \in Statuses
  <2>1. ASSUME command.action # "release_all" PROVE TargetStatus[command.action] \in Statuses
    <3>1. command.action \in {"assume", "resume", "close"} BY <2>1 DEF Actions
    <3> QED BY <3>1 DEF TargetStatus, Statuses, Silent
  <2>2. \A p \in Phones : status[p] \in Statuses /\ Released(status[p]) \in Statuses
    BY DEF ShareInv, Released, Statuses
  <2> QED BY <2>1, <2>2 DEF StatusAfter
<1> QED BY <1>1 DEF Execute, ShareInv

LEMMA ShareNext ==
  ASSUME WorkerInv, ShareInv, [Next]_vars
  PROVE  ShareInv'
<1>1. Shares /\ NotifyInv' BY EachStepShares, NotifyNext DEF ShareInv
<1>2. MayOpen => status' \in [Phones -> Statuses]
  BY DEF MayOpen, Opens, ShareInv, Statuses
<1>3. CASE Quiet BY <1>1, <1>2, <1>3 DEF Quiet, ShareInv
<1>4. ASSUME NEW w \in Workers, NEW p \in Phones, HandsOver(w, p) PROVE ShareInv'
  BY <1>1, <1>4 DEF HandsOver, ShareInv, Statuses, Silent
<1>5. ASSUME NEW p \in Phones, NEW x, Notifies(p, x) PROVE ShareInv'
  BY <1>1, <1>2, <1>5 DEF Notifies, ShareInv
<1>6. ASSUME NEW p \in Phones, NEW X, Loses(p, X) PROVE ShareInv'
  BY <1>1, <1>6 DEF Loses, ShareInv
<1>7. ASSUME NEW command \in [action : Actions, target : Phones], Commands(command)
      PROVE  ShareInv'
  BY <1>1, <1>7, CommandType DEF Commands, ShareInv
<1> QED BY <1>1, <1>3, <1>4, <1>5, <1>6, <1>7 DEF Shares

LEMMA ShareInit == Init => ShareInv
<1>1. ASSUME Init, NEW w \in Workers PROVE worker[w].pc = "idle" /\ worker[w].admins = {}
  BY <1>1 DEF Init, Idle
<1> QED BY <1>1 DEF Init, ShareInv, NotifyInv, Statuses, At
-----------------------------------------------------------------------------
(* The account of notifications: those sent, those still open and those    *)
(* the bot may yet ask for are covered by the releases.                    *)
Others(p) == Cardinality(Admins \ {p})
MayAsk(p) == IF status[p] \in {"none", "bot_active"} THEN Others(p) ELSE 0
AccountInv ==
  \A p \in Phones :
    notices[p] + Cardinality(Due(p)) + MayAsk(p) <= (1 + releases[p]) * Others(p)

LEMMA Counts ==
  ASSUME NEW p \in Phones
  PROVE  /\ Others(p) \in Nat
         /\ IsFiniteSet(Due(p)) /\ Cardinality(Due(p)) \in Nat
         /\ \A w \in Workers : IsFiniteSet(Told(w, p)) /\ Cardinality(Told(w, p)) = Others(p)
<1>1. IsFiniteSet(Workers) /\ IsFiniteSet(Admins) BY FiniteAssumption
<1>2. IsFiniteSet(Admins \ {p}) BY <1>1, FS_RemoveElement
<1>3. IsFiniteSet(Workers \X Admins) BY <1>1, FS_Product
<1>4. Due(p) \in SUBSET (Workers \X Admins) BY DEF Due
<1>5. IsFiniteSet(Due(p)) BY <1>3, <1>4, FS_Subset
<1>6. ASSUME NEW w \in Workers
      PROVE  IsFiniteSet(Told(w, p)) /\ Cardinality(Told(w, p)) = Others(p)
  <2>1. IsFiniteSet({w}) /\ Cardinality({w}) = 1 BY FS_Singleton
  <2>2. Cardinality(Told(w, p)) = 1 * Cardinality(Admins \ {p}) /\ IsFiniteSet(Told(w, p))
    BY <1>2, <2>1, FS_Product DEF Told
  <2>3. Cardinality(Admins \ {p}) \in Nat BY <1>2, FS_CardinalityType
  <2> QED BY <2>2, <2>3 DEF Others
<1> QED BY <1>2, <1>5, <1>6, FS_CardinalityType DEF Others

LEMMA OneMore ==
  ASSUME NEW r \in Nat, NEW n \in Nat
  PROVE  (1 + (r + 1)) * n = (1 + r) * n + n
OBVIOUS

(* What the account of one contact looks at.                               *)
LEMMA AccountOf ==
  ASSUME AccountInv, ShareInv, NEW p \in Phones,
         releases'[p] = releases[p],
         notices'[p] + Cardinality(Due(p)') + MayAsk(p)'
           <= notices[p] + Cardinality(Due(p)) + MayAsk(p),
         notices'[p] \in Nat, Cardinality(Due(p)') \in Nat
  PROVE  notices'[p] + Cardinality(Due(p)') + MayAsk(p)' <= (1 + releases'[p]) * Others(p)
<1>1. /\ notices[p] \in Nat /\ Cardinality(Due(p)) \in Nat /\ Others(p) \in Nat
      /\ releases[p] \in Nat
  BY Counts DEF ShareInv
<1>2. MayAsk(p) \in Nat /\ MayAsk(p)' \in Nat BY <1>1 DEF MayAsk, Others
<1>3. (1 + releases[p]) * Others(p) \in Int BY <1>1
<1> QED BY <1>1, <1>2, <1>3 DEF AccountInv

LEMMA AccountNext ==
  ASSUME WorkerInv, ShareInv, AccountInv, [Next]_vars
  PROVE  AccountInv'
<1> SUFFICES ASSUME NEW p \in Phones
             PROVE  notices'[p] + Cardinality(Due(p)') + MayAsk(p)'
                      <= (1 + releases'[p]) * Others(p)
  BY DEF AccountInv, Others
<1>1. Shares /\ ShareInv' BY EachStepShares, ShareNext
<1>2. /\ notices[p] \in Nat /\ Cardinality(Due(p)) \in Nat /\ Others(p) \in Nat
      /\ releases[p] \in Nat /\ status[p] \in Statuses /\ IsFiniteSet(Due(p))
  BY Counts DEF ShareInv
<1>3. notices'[p] \in Nat BY <1>1 DEF ShareInv
<1>4. MayAsk(p) \in {0, Others(p)} /\ MayAsk(p)' \in {0, Others(p)} BY DEF MayAsk, Others
<1>5. ASSUME MayOpen PROVE MayAsk(p)' = MayAsk(p)
  <2>1. ASSUME NEW q \in Phones, Opens(q) PROVE MayAsk(p)' = MayAsk(p)
    <3>1. status'[p] = IF p = q THEN "bot_active" ELSE status[p]
      BY <2>1 DEF Opens, ShareInv
    <3>2. p = q => status[p] = "none" BY <2>1 DEF Opens
    <3> QED BY <3>1, <3>2 DEF MayAsk, Others
  <2>2. ASSUME status' = status PROVE MayAsk(p)' = MayAsk(p) BY <2>2 DEF MayAsk, Others
  <2> QED BY <1>5, <2>1, <2>2 DEF MayOpen
<1>6. CASE Quiet
  <2>1. notices'[p] = notices[p] /\ Due(p)' = Due(p) /\ MayAsk(p)' = MayAsk(p)
        /\ releases'[p] = releases[p]
    BY <1>5, <1>6 DEF Quiet, SameDue
  <2> QED BY <1>2, <1>4, <2>1, AccountOf
<1>7. ASSUME NEW w \in Workers, NEW q \in Phones, HandsOver(w, q)
      PROVE  notices'[p] + Cardinality(Due(p)') + MayAsk(p)'
               <= (1 + releases'[p]) * Others(p)
  <2>1. notices' = notices /\ releases' = releases BY <1>7 DEF HandsOver
  <2>2. CASE p = q
    <3>1. Due(p)' = Due(p) \cup Told(w, p) /\ Due(p) \cap Told(w, p) = {}
      BY <1>7, <2>2 DEF HandsOver
    <3>2. IsFiniteSet(Told(w, p)) /\ Cardinality(Told(w, p)) = Others(p) BY Counts
    <3>3. Cardinality(Due(p) \cup Told(w, p))
            = Cardinality(Due(p)) + Cardinality(Told(w, p)) - Cardinality({})
      BY <1>2, <3>1, <3>2, FS_Union
    <3>4. Cardinality({}) = 0 BY FS_EmptySet
    <3>5. Cardinality(Due(p)') = Cardinality(Due(p)) + Others(p)
      BY <1>2, <3>1, <3>2, <3>3, <3>4
    <3>6. status[p] = "bot_active" /\ status'[p] = "human_pending"
      BY <1>7, <2>2 DEF HandsOver, ShareInv
    <3>7. MayAsk(p) = Others(p) /\ MayAsk(p)' = 0 BY <3>6 DEF MayAsk
    <3> QED BY <1>2, <2>1, <3>5, <3>7, AccountOf
  <2>3. CASE p # q
    <3>1. Due(p)' = Due(p) BY <1>7, <2>3 DEF HandsOver, OtherDue
    <3>2. status'[p] = status[p] BY <1>7, <2>3 DEF HandsOver, ShareInv
    <3>3. MayAsk(p)' = MayAsk(p) BY <3>2 DEF MayAsk, Others
    <3> QED BY <1>2, <1>4, <2>1, <3>1, <3>3, AccountOf
  <2> QED BY <2>2, <2>3
<1>8. ASSUME NEW q \in Phones, NEW x \in Workers \X Admins, Notifies(q, x)
      PROVE  notices'[p] + Cardinality(Due(p)') + MayAsk(p)'
               <= (1 + releases'[p]) * Others(p)
  <2>1. releases' = releases /\ MayAsk(p)' = MayAsk(p) BY <1>5, <1>8 DEF Notifies
  <2>2. CASE p = q
    <3>1. x \in Due(p) /\ Due(p)' = Due(p) \ {x} BY <1>8, <2>2 DEF Notifies
    <3>2. Cardinality(Due(p) \ {x}) = Cardinality(Due(p)) - 1
          /\ IsFiniteSet(Due(p) \ {x})
      BY <1>2, <3>1, FS_RemoveElement
    <3>3. Cardinality(Due(p) \ {x}) \in Nat BY <3>2, FS_CardinalityType
    <3>4. notices'[p] = notices[p] + 1 BY <1>8, <2>2 DEF Notifies, ShareInv
    <3>5. notices'[p] + Cardinality(Due(p)') + MayAsk(p)'
            <= notices[p] + Cardinality(Due(p)) + MayAsk(p)
      BY <1>2, <1>4, <2>1, <3>1, <3>2, <3>4
    <3>6. Cardinality(Due(p)') \in Nat /\ releases'[p] = releases[p] BY <2>1, <3>1, <3>3
    <3> QED BY <1>3, <3>5, <3>6, AccountOf
  <2>3. CASE p # q
    <3>1. Due(p)' = Due(p) BY <1>8, <2>3 DEF Notifies, OtherDue
    <3>2. notices'[p] = notices[p] BY <1>8, <2>3 DEF Notifies, ShareInv
    <3> QED BY <1>2, <1>4, <2>1, <3>1, <3>2, AccountOf
  <2> QED BY <2>2, <2>3
<1>9. ASSUME NEW q \in Phones, NEW X, Loses(q, X)
      PROVE  notices'[p] + Cardinality(Due(p)') + MayAsk(p)'
               <= (1 + releases'[p]) * Others(p)
  <2>1. notices' = notices /\ releases' = releases /\ status' = status
    BY <1>9 DEF Loses
  <2>2. MayAsk(p)' = MayAsk(p) BY <2>1 DEF MayAsk, Others
  <2>3. Due(p)' \in SUBSET Due(p)
    <3>1. CASE p = q BY <1>9, <3>1 DEF Loses
    <3>2. CASE p # q BY <1>9, <3>2 DEF Loses, OtherDue
    <3> QED BY <3>1, <3>2
  <2>4. IsFiniteSet(Due(p)') /\ Cardinality(Due(p)') <= Cardinality(Due(p))
    BY <1>2, <2>3, FS_Subset
  <2>5. Cardinality(Due(p)') \in Nat BY <2>4, FS_CardinalityType
  <2> QED BY <1>2, <1>4, <2>1, <2>2, <2>4, <2>5, AccountOf
<1>10. ASSUME NEW command \in [action : Actions, target : Phones], Commands(command)
       PROVE  notices'[p] + Cardinality(Due(p)') + MayAsk(p)'
                <= (1 + releases'[p]) * Others(p)
  <2>1. notices' = notices /\ Due(p)' = Due(p) BY <1>10 DEF Commands, SameDue
  <2>2. /\ status'[p] = StatusAfter(command, p)
        /\ releases'[p] = IF status[p] \in Silent /\ StatusAfter(command, p) = "bot_active"
                          THEN releases[p] + 1 ELSE releases[p]
    BY <1>10 DEF Commands, Execute
  <2>3. CASE status[p] \in Silent /\ StatusAfter(command, p) = "bot_active"
    <3>1. MayAsk(p) = 0 /\ MayAsk(p)' = Others(p)
      BY <2>2, <2>3 DEF MayAsk, Others, Silent
    <3>2. releases'[p] = releases[p] + 1 BY <2>2, <2>3
    <3>3. notices[p] + Cardinality(Due(p)) <= (1 + releases[p]) * Others(p)
      BY <1>2, <3>1 DEF AccountInv
    <3>4. (1 + releases'[p]) * Others(p) = (1 + releases[p]) * Others(p) + Others(p)
      BY <1>2, <3>2, OneMore
    <3>5. (1 + releases[p]) * Others(p) \in Int BY <1>2
    <3> QED BY <1>2, <2>1, <3>1, <3>3, <3>4, <3>5
  <2>4. CASE ~(status[p] \in Silent /\ StatusAfter(command, p) = "bot_active")
    <3>1. releases'[p] = releases[p] BY <2>2, <2>4
    <3>2. ASSUME status[p] \in Silent PROVE MayAsk(p)' = 0
      <4>1. StatusAfter(command, p) # "none" /\ StatusAfter(command, p) # "bot_active"
        <5>1. command.action \in Actions BY <1>10
        <5>2. CASE command.action = "release_all"
          BY <2>4, <3>2, <5>2 DEF StatusAfter, Released, Silent
        <5>3. CASE command.action # "release_all"
          <6>1. TargetStatus[command.action] # "none"
            BY <5>1, <5>3 DEF TargetStatus, Actions
          <6> QED BY <2>4, <3>2, <5>3, <6>1 DEF StatusAfter, Silent
        <5> QED BY <5>2, <5>3
      <4> QED BY <2>2, <4>1 DEF MayAsk
    <3>3. status[p] \notin Silent => MayAsk(p) = Others(p)
      BY <1>2 DEF MayAsk, Statuses
    <3>4. MayAsk(p)' <= MayAsk(p) BY <1>2, <1>4, <3>2, <3>3
    <3> QED BY <1>2, <1>4, <2>1, <3>1, <3>4, AccountOf
  <2> QED BY <2>3, <2>4
<1> QED BY <1>1, <1>6, <1>7, <1>8, <1>9, <1>10 DEF Shares

(* Each attendant hears once of a handoff, and again only after the        *)
(* conversation was given back (claim_human_handoff).                      *)
THEOREM AttendantsHearOnce == Spec => []NotifiedOncePerHandoff
<1>1. Init => SendInv /\ ShareInv BY InitSend, ShareInit
<1>2. Init => AccountInv
  <2> SUFFICES ASSUME Init, NEW p \in Phones
               PROVE  notices[p] + Cardinality(Due(p)) + MayAsk(p) <= (1 + releases[p]) * Others(p)
    BY DEF AccountInv
  <2>1. notices[p] = 0 /\ releases[p] = 0 /\ status[p] = "none" BY DEF Init
  <2>2. \A w \in Workers : worker[w].pc = "idle" BY DEF Init, Idle
  <2>3. Due(p) = {} BY <2>2 DEF Due, At
  <2>4. Cardinality(Due(p)) = 0 BY <2>3, FS_EmptySet
  <2>5. Others(p) \in Nat BY Counts
  <2> QED BY <2>1, <2>4, <2>5 DEF MayAsk
<1>3. SendInv /\ ShareInv /\ AccountInv /\ [Next]_vars => SendInv' /\ ShareInv' /\ AccountInv'
  BY NextSend, ShareNext, AccountNext DEF SendInv
<1>4. ShareInv /\ AccountInv => NotifiedOncePerHandoff
  <2> SUFFICES ASSUME ShareInv, AccountInv, NEW p \in Phones
               PROVE  notices[p] <= (1 + releases[p]) * Others(p)
    BY DEF NotifiedOncePerHandoff, Others
  <2>1. /\ notices[p] \in Nat /\ releases[p] \in Nat /\ Others(p) \in Nat
        /\ Cardinality(Due(p)) \in Nat
    BY Counts DEF ShareInv
  <2>2. MayAsk(p) \in Nat BY <2>1 DEF MayAsk
  <2>3. (1 + releases[p]) * Others(p) \in Int BY <2>1
  <2> QED BY <2>1, <2>2, <2>3 DEF AccountInv
<1> QED BY <1>1, <1>2, <1>3, <1>4, PTL DEF Spec
-----------------------------------------------------------------------------
(* The refinement of Handover, with the tickets Workers \X Admins.         *)
LEMMA DueMap ==
  ASSUME NEW p \in Phones, OtherDue(p), NEW D, Due(p)' = D
  PROVE  [q \in Phones |-> Due(q)]' = [[q \in Phones |-> Due(q)] EXCEPT ![p] = D]
BY DEF OtherDue

LEMMA MaySharing ==
  ASSUME MayOpen, SameDue, notices' = notices
  PROVE  [Sharing!Next]_(Sharing!vars)
<1>1. [q \in Phones |-> Due(q)]' = [q \in Phones |-> Due(q)] BY DEF SameDue
<1>2. CASE status' = status BY <1>1, <1>2 DEF Sharing!vars
<1>3. ASSUME NEW p \in Phones, Opens(p) PROVE Sharing!Next
  <2>1. Sharing!Open(p) BY <1>1, <1>3 DEF Opens, Sharing!Open
  <2> QED BY <2>1 DEF Sharing!Next
<1> QED BY <1>2, <1>3 DEF MayOpen

LEMMA DecideShares ==
  ASSUME ShareInv, NEW command \in [action : Actions, target : Phones], Commands(command)
  PROVE  Sharing!Next
<1>1. [q \in Phones |-> Due(q)]' = [q \in Phones |-> Due(q)] /\ notices' = notices
  BY DEF Commands, SameDue
<1>2. status' = [p \in Phones |-> StatusAfter(command, p)] BY DEF Commands, Execute
<1>3. command.action \in Actions /\ command.target \in Phones OBVIOUS
<1>4. CASE command.action = "release_all"
  <2>1. Sharing!ReleaseAll
    BY <1>1, <1>2, <1>4 DEF Sharing!ReleaseAll, StatusAfter, Released
  <2> QED BY <2>1 DEF Sharing!Next
<1>5. CASE command.action # "release_all"
  <2>1. PICK s \in {"human_active", "bot_active", "closed"} : s = TargetStatus[command.action]
    BY <1>3, <1>5 DEF Actions, TargetStatus
  <2>2. status' = [status EXCEPT ![command.target] = s]
    BY <1>2, <1>5, <2>1 DEF StatusAfter, ShareInv
  <2>3. Sharing!Decide(command.target, s) BY <1>1, <2>2 DEF Sharing!Decide
  <2> QED BY <1>3, <2>3 DEF Sharing!Next
<1> QED BY <1>4, <1>5

LEMMA StepShares ==
  ASSUME ShareInv, Shares
  PROVE  [Sharing!Next]_(Sharing!vars)
<1> DEFINE due == [q \in Phones |-> Due(q)]
<1>1. CASE Quiet BY <1>1, MaySharing DEF Quiet
<1>2. ASSUME NEW w \in Workers, NEW p \in Phones, HandsOver(w, p) PROVE Sharing!Next
  <2>1. due' = [due EXCEPT ![p] = due[p] \cup Told(w, p)] BY <1>2, DueMap DEF HandsOver
  <2>2. Told(w, p) \cap due[p] = {} BY <1>2 DEF HandsOver
  <2>3. Told(w, p) \in SUBSET (Workers \X Admins) BY DEF Told
  <2>4. Sharing!HandOver(p, Told(w, p))
    BY <1>2, <2>1, <2>2 DEF HandsOver, Sharing!HandOver
  <2> QED BY <2>3, <2>4 DEF Sharing!Next
<1>3. ASSUME NEW p \in Phones, NEW x \in Workers \X Admins, Notifies(p, x) PROVE Sharing!Next
  <2>1. due' = [due EXCEPT ![p] = due[p] \ {x}] BY <1>3, DueMap DEF Notifies
  <2>2. x \in due[p] /\ notices' = [notices EXCEPT ![p] = notices[p] + 1]
    BY <1>3 DEF Notifies
  <2>3. \/ UNCHANGED status
        \/ \E a \in Phones : /\ status[a] = "none"
                             /\ status' = [status EXCEPT ![a] = "bot_active"]
    BY <1>3 DEF Notifies, MayOpen, Opens
  <2>4. Sharing!Notify(p, x) BY <2>1, <2>2, <2>3 DEF Sharing!Notify
  <2> QED BY <2>4 DEF Sharing!Next
<1>4. ASSUME NEW p \in Phones, NEW X \in SUBSET (Workers \X Admins), Loses(p, X)
      PROVE  Sharing!Next
  <2>1. due' = [due EXCEPT ![p] = due[p] \ X] BY <1>4, DueMap DEF Loses
  <2>2. X \subseteq due[p] BY <1>4 DEF Loses
  <2>3. Sharing!Lose(p, X) BY <1>4, <2>1, <2>2 DEF Loses, Sharing!Lose
  <2> QED BY <2>3 DEF Sharing!Next
<1>5. ASSUME NEW command \in [action : Actions, target : Phones], Commands(command)
      PROVE  Sharing!Next
  BY <1>5, DecideShares
<1> QED BY <1>1, <1>2, <1>3, <1>4, <1>5 DEF Shares

(* Bot and attendants share a conversation as Handover says: only the bot  *)
(* asks, only for a conversation it has, with one notification for each    *)
(* attendant, and only attendants give it back or close it.                *)
THEOREM SharesConversations == Spec => ImplementsHandover
<1>1. Init => Sharing!Init
  <2> SUFFICES ASSUME Init PROVE Sharing!Init OBVIOUS
  <2>1. \A w \in Workers : worker[w].pc = "idle" BY DEF Init, Idle
  <2>2. \A p \in Phones : Due(p) = {} BY <2>1 DEF Due, At
  <2> QED BY <2>2 DEF Init, Sharing!Init
<1>2. Init => SendInv /\ ShareInv BY InitSend, ShareInit
<1>3. SendInv /\ ShareInv /\ [Next]_vars => SendInv' /\ ShareInv'
  BY NextSend, ShareNext DEF SendInv
<1>4. SendInv /\ ShareInv /\ [Next]_vars => [Sharing!Next]_(Sharing!vars)
  BY EachStepShares, StepShares DEF SendInv
<1> QED BY <1>1, <1>2, <1>3, <1>4, PTL DEF Spec, ImplementsHandover, Sharing!Spec
-----------------------------------------------------------------------------
(* Answers that cross a silence: each worker that passed the gate before   *)
(* it may still send one text.                                             *)
Crossing == {"preparing", "answering", "apologising"}
Crossers(p) == {w \in Workers : worker[w].pc \in Crossing /\ Phone(w) = p}
CrossInv ==
  /\ crossed \in [Phones -> Nat]
  /\ \A p \in Phones :
       /\ Silenced(p) => crossed[p] + Cardinality(Crossers(p)) <= Cardinality(Workers)
       /\ ~Silenced(p) => crossed[p] = 0

(* A worker comes to its answer through the gate only.                     *)
Enters(w) ==
  worker'[w].pc \in Crossing =>
    /\ worker'[w].turn = worker[w].turn
    /\ worker[w].pc \in Crossing \/ (StoreAndGate(w) /\ ~Silenced(Phone(w)))

LEMMA GateOnly ==
  ASSUME WorkerInv, NEW w \in Workers, WorkerStep(w) \/ Crash(w)
  PROVE  Enters(w) /\ \A v \in Workers \ {w} : worker'[v] = worker[v]
<1>0. DOMAIN worker = Workers /\ DOMAIN worker[w] = LoopFields BY DEF WorkerInv
<1> DEFINE Goal == Enters(w) /\ \A v \in Workers \ {w} : worker'[v] = worker[v]
<1>1. ASSUME worker' = [worker EXCEPT ![w] = Idle] PROVE Goal
  BY <1>0, <1>1 DEF Idle, Enters, Crossing
<1>2. ASSUME NEW pc, Go(w, pc),
             pc \in Crossing => worker[w].pc \in Crossing
                                \/ (StoreAndGate(w) /\ ~Silenced(Phone(w)))
      PROVE  Goal
  <2>1. worker'[w].pc = pc /\ worker'[w].turn = worker[w].turn
        /\ \A v \in Workers \ {w} : worker'[v] = worker[v]
    BY <1>0, <1>2 DEF Go, LoopFields
  <2> QED BY <1>2, <2>1 DEF Enters
<1>3. ASSUME NEW batch, NextMessage(w, batch), At(w, "reading") PROVE Goal
  <2>1. worker'[w].pc = "reading" /\ \A v \in Workers \ {w} : worker'[v] = worker[v]
    BY <1>0, <1>3 DEF NextMessage, At, LoopFields
  <2> QED BY <2>1 DEF Enters, Crossing
<1>4. ASSUME NEW t \in Turns, Claim(w, t) PROVE Goal
  <2>1. worker'[w].pc = "reading" /\ \A v \in Workers \ {w} : worker'[v] = worker[v]
    BY <1>0, <1>4 DEF Claim
  <2> QED BY <2>1 DEF Enters, Crossing
<1>5. ASSUME HoldEarlier(w) PROVE Goal
  <2>1. worker'[w].pc = "reading" /\ \A v \in Workers \ {w} : worker'[v] = worker[v]
    BY <1>0, <1>5 DEF HoldEarlier, Reading, At, LoopFields
  <2> QED BY <2>1 DEF Enters, Crossing
<1>6. ASSUME AcknowledgeCommand(w) PROVE Goal
  <2>1. CASE worker' = [worker EXCEPT ![w].pc = "reading", ![w].pos = @ + 1]
    <3>1. worker'[w].pc = "reading" /\ \A v \in Workers \ {w} : worker'[v] = worker[v]
      BY <1>0, <2>1 DEF LoopFields
    <3> QED BY <3>1 DEF Enters, Crossing
  <2>2. CASE Retry(w) BY <1>1, <2>2 DEF Retry
  <2> QED BY <1>6, <2>1, <2>2 DEF AcknowledgeCommand
<1>7. ASSUME FailMedia(w) \/ \E decision \in Decisions : Decide(w, decision) PROVE Goal
  <2>1. worker[w].pc \in Crossing BY <1>7 DEF FailMedia, Decide, At, Crossing
  <2>2. worker'[w].turn = worker[w].turn /\ \A v \in Workers \ {w} : worker'[v] = worker[v]
    BY ZenonT(40), <1>0, <1>7 DEF FailMedia, Decide, LoopFields
  <2> QED BY <2>1, <2>2 DEF Enters
<1>8. ASSUME NEW k \in Answers, SkipAnswer(w, k) \/ SendAnswer(w, k) \/ FailAnswer(w, k)
                                 \/ LogAnswer(w, k)
      PROVE  Goal
  <2>1. ASSUME NEW photos, AfterAnswer(w, photos) PROVE Goal
    <3>1. worker'[w].pc \notin Crossing /\ \A v \in Workers \ {w} : worker'[v] = worker[v]
      BY <2>1, AfterMoves DEF AfterPcs, Crossing, OnlyWorker
    <3> QED BY <3>1 DEF Enters
  <2>2. LogPc(k) \notin Crossing BY LoggingPc DEF Crossing, LoggingPcs
  <2> HIDE DEF Goal
  <2> QED BY <1>1, <1>2, <1>8, <2>1, <2>2
          DEF SkipAnswer, SendAnswer, FailAnswer, LogAnswer, Retry
<1>9. ASSUME NEW a \in Admins, NotifyAdmin(w, a) PROVE Goal
  <2>1. worker'[w].pc = "notifying" /\ \A v \in Workers \ {w} : worker'[v] = worker[v]
    BY <1>0, <1>9 DEF NotifyAdmin, At, LoopFields
  <2> QED BY <2>1 DEF Enters, Crossing
<1>10. ASSUME ClaimHandoff(w) PROVE Goal
  <2>1. CASE Go(w, "done") BY <1>2, <2>1 DEF Crossing
  <2>2. CASE worker' = [worker EXCEPT ![w].pc = "notifying",
                                      ![w].admins = Admins \ {Phone(w)}]
    <3>1. worker'[w].pc = "notifying" /\ \A v \in Workers \ {w} : worker'[v] = worker[v]
      BY <1>0, <2>2 DEF LoopFields
    <3> QED BY <3>1 DEF Enters, Crossing
  <2> QED BY <1>10, <2>1, <2>2 DEF ClaimHandoff
<1>11. ASSUME StoreAndGate(w) PROVE Goal
  <2>1. CASE Go(w, "done") BY <1>2, <2>1 DEF Crossing
  <2>2. CASE ~Silenced(Phone(w)) /\ Go(w, "preparing") BY <1>2, <1>11, <2>2
  <2> QED BY <1>11, <2>1, <2>2 DEF StoreAndGate
<1>12. ASSUME Crash(w) \/ Finish(w) PROVE Goal BY <1>1, <1>12 DEF Crash, Retry, Finish
<1>13. ASSUME SkipIgnored(w) \/ TakeCustomer(w) \/ RecordManual(w) \/ RefuseCommand(w)
       PROVE  Goal
  <2>1. At(w, "reading") /\ \E batch : NextMessage(w, batch)
    BY <1>13 DEF SkipIgnored, TakeCustomer, RecordManual, RefuseCommand, Reading
  <2> HIDE DEF Goal
  <2> QED BY <1>3, <2>1
<1>14. ASSUME EndReading(w) \/ RunCommand(w) \/ EndNotifying(w) PROVE Goal
  <2>1. Go(w, "done") \/ Go(w, "acknowledging")
    BY <1>14 DEF EndReading, RunCommand, EndNotifying
  <2> HIDE DEF Goal
  <2> QED BY <1>2, <2>1 DEF Crossing
<1> HIDE DEF Goal
<1>a. Goal
  BY <1>4, <1>5, <1>6, <1>7, <1>8, <1>9, <1>10, <1>11, <1>12, <1>13, <1>14 DEF WorkerStep
<1> QED BY <1>a DEF Goal

(* What a step does to the count of one contact.                           *)
SameSilence(p) == Silenced(p)' <=> Silenced(p)
Changes(p) == ~SameSilence(p) /\ crossed'[p] = 0
SilenceStays(p) ==
  /\ SameSilence(p) /\ crossed'[p] = crossed[p]
  /\ Silenced(p) => Crossers(p)' \subseteq Crossers(p)
Crosses(p) ==
  /\ SameSilence(p) /\ Silenced(p) /\ crossed'[p] = crossed[p] + 1
  /\ \E w \in Crossers(p) : Crossers(p)' \subseteq Crossers(p) \ {w}

LEMMA CountKept ==
  ASSUME CrossInv, crossed' \in [Phones -> Nat],
         \A p \in Phones : Changes(p) \/ SilenceStays(p) \/ Crosses(p)
  PROVE  CrossInv'
<1> SUFFICES ASSUME NEW p \in Phones
             PROVE  /\ Silenced(p)' => crossed'[p] + Cardinality(Crossers(p)')
                                         <= Cardinality(Workers)
                    /\ ~Silenced(p)' => crossed'[p] = 0
  BY DEF CrossInv
<1>1. IsFiniteSet(Workers) /\ Cardinality(Workers) \in Nat
  BY FiniteAssumption, FS_CardinalityType
<1>2. Crossers(p) \in SUBSET Workers /\ Crossers(p)' \in SUBSET Workers BY DEF Crossers
<1>3. /\ IsFiniteSet(Crossers(p)) /\ IsFiniteSet(Crossers(p)')
      /\ Cardinality(Crossers(p)) \in Nat /\ Cardinality(Crossers(p)') \in Nat
      /\ Cardinality(Crossers(p)') <= Cardinality(Workers)
  BY <1>1, <1>2, FS_Subset, FS_CardinalityType
<1>4. crossed[p] \in Nat BY DEF CrossInv
<1>5. CASE Changes(p) BY <1>1, <1>3, <1>5 DEF Changes
<1>6. CASE SilenceStays(p)
  <2>1. Silenced(p) => Cardinality(Crossers(p)') <= Cardinality(Crossers(p))
    BY <1>3, <1>6, FS_Subset DEF SilenceStays
  <2> QED BY <1>1, <1>3, <1>4, <1>6, <2>1 DEF SilenceStays, SameSilence, CrossInv
<1>7. CASE Crosses(p)
  <2>1. PICK w \in Crossers(p) : Crossers(p)' \subseteq Crossers(p) \ {w}
    BY <1>7 DEF Crosses
  <2>2. IsFiniteSet(Crossers(p) \ {w})
        /\ Cardinality(Crossers(p) \ {w}) = Cardinality(Crossers(p)) - 1
    BY <1>3, FS_RemoveElement
  <2>3. Cardinality(Crossers(p)') <= Cardinality(Crossers(p) \ {w})
    BY <2>1, <2>2, FS_Subset
  <2> QED BY <1>1, <1>3, <1>4, <1>7, <2>2, <2>3 DEF Crosses, SameSilence, CrossInv
<1> QED BY <1>5, <1>6, <1>7

LEMMA RecountIs ==
  ASSUME Recount, NEW p \in Phones
  PROVE  /\ SameSilence(p) => crossed'[p] = crossed[p]
         /\ ~SameSilence(p) => crossed'[p] = 0
<1>1. crossed'[p] = IF Silenced(p)' = Silenced(p) THEN crossed[p] ELSE 0 BY DEF Recount
<1>2. CASE Silenced(p)
  <2>1. CASE Silenced(p)' BY <1>1, <1>2, <2>1 DEF SameSilence, Silenced
  <2>2. CASE ~Silenced(p)' BY <1>1, <1>2, <2>2 DEF SameSilence, Silenced
  <2> QED BY <2>1, <2>2
<1>3. CASE ~Silenced(p)
  <2>1. CASE Silenced(p)' BY <1>1, <1>3, <2>1 DEF SameSilence, Silenced
  <2>2. CASE ~Silenced(p)' BY <1>1, <1>3, <2>2 DEF SameSilence, Silenced
  <2> QED BY <2>1, <2>2
<1> QED BY <1>2, <1>3

LEMMA RecountType ==
  ASSUME Recount, crossed \in [Phones -> Nat]
  PROVE  crossed' \in [Phones -> Nat]
BY DEF Recount

(* A conversation that opens was not silent and is not.                    *)
LEMMA OpenSilence ==
  ASSUME ShareInv, MayOpen, mode' = mode, NEW p \in Phones
  PROVE  SameSilence(p)
<1>1. status'[p] = status[p] \/ (status[p] = "none" /\ status'[p] = "bot_active")
  BY DEF MayOpen, Opens, ShareInv
<1> QED BY <1>1 DEF SameSilence, Silenced, Silent

LEMMA CrossersOf ==
  ASSUME NEW w \in Workers, Enters(w), \A v \in Workers \ {w} : worker'[v] = worker[v],
         NEW p \in Phones, Silenced(p)
  PROVE  Crossers(p)' \subseteq Crossers(p)
<1> SUFFICES ASSUME NEW v \in Workers, worker'[v].pc \in Crossing,
                    PhoneOf[worker'[v].turn] = p
             PROVE  worker[v].pc \in Crossing /\ Phone(v) = p
  BY DEF Crossers, Phone
<1>1. CASE v # w BY <1>1 DEF Phone
<1>2. CASE v = w BY <1>2 DEF Enters, Phone
<1> QED BY <1>1, <1>2

(* The steps of a worker, by what they do to the status and to the count.  *)
LEMMA CrossKinds ==
  ASSUME WorkerInv, ShareInv, NEW w \in Workers, WorkerStep(w) \/ Crash(w)
  PROVE  \/ MayOpen /\ mode' = mode /\ crossed' = crossed
         \/ Recount
         \/ /\ status' = status /\ mode' = mode
            /\ \E k \in Answers : Deliver(w, k) /\ Sending(w, k) /\ worker'[w].pc \notin Crossing
<1>1. ASSUME Plain(w), ~\E k \in Answers : SendAnswer(w, k) \/ FailAnswer(w, k)
      PROVE  MayOpen /\ mode' = mode /\ crossed' = crossed
  <2>1. MayOpen BY <1>1, PlainQuiet DEF Quiet
  <2> QED
    BY <1>1, <2>1 DEF Plain, Claim, Finish, SkipIgnored, TakeCustomer, HoldEarlier,
           RecordManual, RefuseCommand, AcknowledgeCommand, EndReading, StoreAndGate,
           FailMedia, Decide, SkipAnswer, LogAnswer, conversation, outbox
<1>2. ASSUME NEW k \in Answers, SendAnswer(w, k) \/ FailAnswer(w, k)
      PROVE  \/ MayOpen /\ mode' = mode /\ crossed' = crossed
             \/ /\ status' = status /\ mode' = mode
                /\ Deliver(w, k) /\ Sending(w, k) /\ worker'[w].pc \notin Crossing
  <2>1. status' = status /\ mode' = mode /\ Sending(w, k)
    BY <1>2 DEF SendAnswer, FailAnswer, conversation
  <2>2. CASE SendAnswer(w, k)
    <3>1. worker'[w].pc = LogPc(k)
      BY <2>2 DEF SendAnswer, Go, WorkerInv, LoopFields
    <3>2. LogPc(k) \notin Crossing BY LoggingPc DEF Crossing, LoggingPcs
    <3> QED BY <2>1, <2>2, <3>1, <3>2 DEF SendAnswer
  <2>3. CASE FailAnswer(w, k)
    <3>1. worker'[w].pc = "idle" BY <2>3 DEF FailAnswer, Retry, WorkerInv, Idle
    <3>2. "idle" \notin Crossing BY DEF Crossing
    <3> QED BY <2>1, <2>3, <3>1, <3>2 DEF FailAnswer, outbox, MayOpen
  <2> QED BY <1>2, <2>2, <2>3
<1>3. ASSUME RunCommand(w) \/ ClaimHandoff(w) PROVE Recount
  BY <1>3 DEF RunCommand, Execute, ClaimHandoff
<1>4. ASSUME NEW a \in Admins, NotifyAdmin(w, a)
      PROVE  MayOpen /\ mode' = mode /\ crossed' = crossed
  <2>1. PICK p \in Phones : Notifies(p, <<w, a>>) \/ Loses(p, {<<w, a>>})
    BY <1>4, NotifyShares
  <2>2. MayOpen BY <2>1 DEF Notifies, Loses, MayOpen
  <2> QED BY <1>4, <2>2 DEF NotifyAdmin, outbox
<1>5. ASSUME EndNotifying(w) \/ Crash(w) PROVE MayOpen /\ mode' = mode /\ crossed' = crossed
  BY <1>5 DEF EndNotifying, Crash, conversation, outbox, MayOpen
<1> QED BY <1>1, <1>2, <1>3, <1>4, <1>5 DEF WorkerStep, Plain

LEMMA CrossNext ==
  ASSUME WorkerInv, ShareInv, CrossInv, [Next]_vars
  PROVE  CrossInv'
<1>1. ASSUME worker' = worker, NEW p \in Phones PROVE Crossers(p)' = Crossers(p)
  BY <1>1 DEF Crossers, Phone
<1>2. ASSUME Recount, worker' = worker PROVE CrossInv'
  <2>1. ASSUME NEW p \in Phones PROVE Changes(p) \/ SilenceStays(p)
    BY <1>1, <1>2, RecountIs DEF Changes, SilenceStays
  <2>2. crossed' \in [Phones -> Nat] BY <1>2, RecountType DEF CrossInv
  <2> QED BY <2>1, <2>2, CountKept
<1>3. ASSUME NEW w \in Workers, WorkerStep(w) \/ Crash(w) PROVE CrossInv'
  <2>1. Enters(w) /\ \A v \in Workers \ {w} : worker'[v] = worker[v] BY <1>3, GateOnly
  <2>2. \A p \in Phones : Silenced(p) => Crossers(p)' \subseteq Crossers(p)
    BY <2>1, CrossersOf
  <2>3. CASE MayOpen /\ mode' = mode /\ crossed' = crossed
    <3>1. \A p \in Phones : SilenceStays(p) BY <2>2, <2>3, OpenSilence DEF SilenceStays
    <3> QED BY <2>3, <3>1, CountKept DEF CrossInv
  <2>4. CASE Recount
    <3>1. ASSUME NEW p \in Phones PROVE Changes(p) \/ SilenceStays(p)
      BY <2>2, <2>4, RecountIs DEF Changes, SilenceStays
    <3>2. crossed' \in [Phones -> Nat] BY <2>4, RecountType DEF CrossInv
    <3> QED BY <3>1, <3>2, CountKept
  <2>5. ASSUME status' = status, mode' = mode, NEW k \in Answers, Deliver(w, k),
               Sending(w, k), worker'[w].pc \notin Crossing
        PROVE  CrossInv'
    <3>1. \A p \in Phones : SameSilence(p) BY <2>5, OpenSilence DEF MayOpen
    <3>2. worker[w].pc # "idle" BY <2>5 DEF Sending, SendPcs
    <3>3. PICK q \in Phones : q = Phone(w) BY <3>2, BusyPhone
    <3>4. CASE k = "text" /\ Silenced(q)
      <4>1. crossed' = [crossed EXCEPT ![q] = crossed[q] + 1]
        BY <2>5, <3>3, <3>4 DEF Deliver
      <4>2. w \in Crossers(q)
        BY <2>5, <3>3, <3>4 DEF Crossers, Sending, SendPcs, Crossing
      <4>3. w \notin Crossers(q)' BY <2>5 DEF Crossers
      <4>4. Crossers(q)' \subseteq Crossers(q) \ {w} BY <2>2, <3>4, <4>3
      <4>5. crossed' \in [Phones -> Nat] /\ crossed'[q] = crossed[q] + 1
            /\ \A p \in Phones \ {q} : crossed'[p] = crossed[p]
        BY <4>1 DEF CrossInv
      <4>6. Crosses(q) BY <3>1, <3>4, <4>2, <4>4, <4>5 DEF Crosses
      <4>7. \A p \in Phones \ {q} : SilenceStays(p) BY <2>2, <3>1, <4>5 DEF SilenceStays
      <4> QED BY <4>5, <4>6, <4>7, CountKept
    <3>5. CASE ~(k = "text" /\ Silenced(q))
      <4>1. crossed' = crossed BY <2>5, <3>3, <3>5 DEF Deliver
      <4>2. \A p \in Phones : SilenceStays(p) BY <2>2, <3>1, <4>1 DEF SilenceStays
      <4> QED BY <4>1, <4>2, CountKept DEF CrossInv
    <3> QED BY <3>4, <3>5
  <2> QED BY <1>3, <2>3, <2>4, <2>5, CrossKinds
<1>4. CASE UNCHANGED vars
  <2>1. crossed' = crossed /\ mode' = mode /\ MayOpen /\ worker' = worker
    BY <1>4 DEF vars, MayOpen
  <2>2. \A p \in Phones : SilenceStays(p) BY <1>1, <2>1, OpenSilence DEF SilenceStays
  <2> QED BY <2>1, <2>2, CountKept DEF CrossInv
<1> QED BY <1>2, <1>3, <1>4 DEF Next, PanelCommand, SetMode, Execute

(* Once a conversation is silenced each worker lets one text through at    *)
(* most: the gate of _process_phone_batch is read before the awaits.       *)
THEOREM FewCross == Spec => []OneAnswerCrossesPerWorker
<1>1. Init => SendInv /\ ShareInv BY InitSend, ShareInit
<1>2. Init => CrossInv
  <2> SUFFICES ASSUME Init PROVE CrossInv OBVIOUS
  <2>1. crossed = [p \in Phones |-> 0] /\ mode = "active"
        /\ \A p \in Phones : status[p] = "none"
    BY DEF Init
  <2> QED BY <2>1 DEF CrossInv, Silenced, Silent
<1>3. SendInv /\ ShareInv /\ CrossInv /\ [Next]_vars => SendInv' /\ ShareInv' /\ CrossInv'
  BY NextSend, ShareNext, CrossNext DEF SendInv
<1>4. CrossInv => OneAnswerCrossesPerWorker
  <2> SUFFICES ASSUME CrossInv, NEW p \in Phones, Silenced(p)
               PROVE  crossed[p] <= Cardinality(Workers)
    BY DEF OneAnswerCrossesPerWorker
  <2>1. IsFiniteSet(Workers) /\ Cardinality(Workers) \in Nat
    BY FiniteAssumption, FS_CardinalityType
  <2>2. Crossers(p) \in SUBSET Workers BY DEF Crossers
  <2>3. Cardinality(Crossers(p)) \in Nat BY <2>1, <2>2, FS_Subset, FS_CardinalityType
  <2>4. crossed[p] \in Nat BY DEF CrossInv
  <2> QED BY <2>1, <2>3, <2>4 DEF CrossInv
<1> QED BY <1>1, <1>2, <1>3, <1>4, PTL DEF Spec
=============================================================================
