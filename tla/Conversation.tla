----------------------------- MODULE Conversation -----------------------------
(***************************************************************************)
(* How a worker turns a batch of messages into answers, and how it shares  *)
(* a conversation with the store's attendants.  MessageProcessor           *)
(* (src/app/processor.py), the conversation status, the history and the    *)
(* global control mode (src/app/storage/database.py), the attendants'      *)
(* commands on WhatsApp and in the panel (src/app/admin.py, main.py).      *)
(*                                                                         *)
(* A turn is one batch of the durable queue (MessageQueue): it is claimed  *)
(* at most three times, by one worker at a time, and only once the older   *)
(* turns of its contact were tried.  A step of a worker ends where the     *)
(* code awaits the provider, the media service or the agent, or commits.   *)
(***************************************************************************)
EXTENDS Integers, Sequences, FiniteSets

CONSTANTS
  Phones,     \* contacts, the attendants' own phones included
  Admins,     \* ADMIN_PHONES
  AdminRole,  \* ADMIN_ROLE
  Messages,   \* provider message ids
  Kind,       \* "text", "media", "manual", "command" or "ignored"
  Command,    \* of a command message: its action and target
  Turns,      \* batches, numbered in the order they were opened
  PhoneOf,    \* the contact of a turn
  Payload,    \* the messages of a turn in the order they were stored
  Workers,    \* worker processes
  Photos,     \* what photos show: the digests of their addresses
  Decisions,  \* what the agent may decide: a handoff, photos in their order
  MaxAttempts, \* attempts the queue gives a turn (3 in the code)
  Targets,    \* bound: the contacts that operators decide about in the panel
  Budget      \* bound on the operators' actions in the panel

Actions == {"assume", "resume", "close", "release_all"}

ASSUME PayloadAssumption ==
  /\ Turns \subseteq Nat
  /\ PhoneOf \in [Turns -> Phones]
  /\ "sent" \notin Messages
  /\ Kind \in [Messages -> {"text", "media", "manual", "command", "ignored"}]
  /\ Payload \in [Turns -> Seq(Messages)]
  /\ \A t, u \in Turns : \A i \in 1 .. Len(Payload[t]), j \in 1 .. Len(Payload[u]) :
       Payload[t][i] = Payload[u][j] => t = u /\ i = j
ASSUME AdminAssumption ==
  /\ Admins \subseteq Phones
  /\ AdminRole \in {"owner", "operator"}
  /\ Command \in [{m \in Messages : Kind[m] = "command"} ->
                    [action : Actions, target : Phones]]
  /\ Decisions \subseteq [handoff : {"yes", "no"}, photos : Seq(Photos)]
  /\ "text" \notin Photos
  /\ Budget \in Nat /\ Targets \subseteq Phones
ASSUME AttemptsAssumption == MaxAttempts \in Nat \ {0}
ASSUME FiniteAssumption == IsFiniteSet(Workers) /\ IsFiniteSet(Admins)

VARIABLES
  status,    \* conversations.status, "none" while there is no conversation
  mode,      \* the bot_control setting
  history,   \* the messages rows of a contact that decide something
  turn,      \* the batch rows
  worker,    \* what a worker is doing
  budget,    \* operator actions left
  delivered, \* history: how often the provider delivered an answer
  unlogged,  \* history: ... of which no messages row was written
  answered,  \* history: messages the agent's answer was sent for
  notices,   \* history: notifications sent to attendants about a contact
  held,      \* the turns of message_held audit records
  releases,  \* history: how often attendants gave a contact back to the bot
  crossed    \* history: answers since the conversation was silenced

vars == <<status, mode, history, turn, worker, budget,
          delivered, unlogged, answered, notices, held, releases, crossed>>
conversation == <<status, mode, releases>>
outbox == <<delivered, unlogged, answered, crossed>>
records == <<notices, held>>
-----------------------------------------------------------------------------
Silent  == {"human_pending", "human_active", "closed"}
Silenced(p) == mode # "active" \/ status[p] \in Silent
Answers == {"text"} \cup Photos

Idle == [pc |-> "idle", turn |-> 0, pos |-> 0, batch |-> <<>>,
         handoff |-> "no", photos |-> <<>>, admins |-> {}]

Turn(s, n) == [status |-> s, attempts |-> n]
Inbound(m) == [dir |-> "in", kind |-> Kind[m], id |-> m, source |-> m]
(* A reply of the bot; the provider's id of it is none of Messages.  The   *)
(* kind of a photo's row stands for "image" and its content_digest.        *)
Outbound(k, m) == [dir |-> "out", kind |-> k, id |-> "sent", source |-> m]
ManualRow(m) == [dir |-> "out", kind |-> "text", id |-> m, source |-> "none"]

Rows(p) == {history[p][i] : i \in 1 .. Len(history[p])}

(* has_message_provider_id *)
Recorded(p, m) == \E row \in Rows(p) : row.id = m

(* get_or_create_conversation and add_message create what is missing. *)
Opened(p) == IF status[p] = "none" THEN "bot_active" ELSE status[p]

(* Faulty variants (names starting with Bad) state plausible bugs of the   *)
(* definition after them; the properties must tell them from the code.     *)
BadLegacySend(p, m) ==
  LET h == history[p]
      inbound == {i \in 1 .. Len(h) : h[i].dir = "in"}
      mine == {i \in inbound : h[i].id = m}
  IN \E i \in mine, k \in 1 .. Len(h) :
       /\ \A j \in mine : i <= j
       /\ k > i /\ h[k].dir = "out" /\ h[k].kind = "text"

(* Rows written before answers recorded what they answer: in the first     *)
(* turn of a conversation any text sent after the message and before the   *)
(* next one counts as its answer.                                          *)
LegacySend(p, m) ==
  LET h == history[p]
      inbound == {i \in 1 .. Len(h) : h[i].dir = "in"}
      mine == {i \in inbound : h[i].id = m}
  IN \E i \in mine, k \in 1 .. Len(h) :
       /\ \A j \in inbound : i <= j
       /\ k > i /\ h[k].dir = "out" /\ h[k].kind = "text"
       /\ \A j \in inbound \ mine : k < j

BadPhotosUnseen(p, k, m) ==
  /\ k = "text"
  /\ \/ \E row \in Rows(p) : row.dir = "out" /\ row.kind = k /\ row.source = m
     \/ LegacySend(p, m)

(* outbound_message_exists *)
AlreadySent(p, k, m) ==
  \/ \E row \in Rows(p) : row.dir = "out" /\ row.kind = k /\ row.source = m
  \/ k = "text" /\ LegacySend(p, m)

Init ==
  /\ status = [p \in Phones |-> "none"]
  /\ mode = "active"
  /\ history = [p \in Phones |-> <<>>]
  /\ turn = [t \in Turns |-> Turn("pending", 0)]
  /\ worker = [w \in Workers |-> Idle]
  /\ budget = Budget
  /\ delivered = [k \in Messages \X Answers |-> 0]
  /\ unlogged = [k \in Messages \X Answers |-> 0]
  /\ answered = {}
  /\ notices = [p \in Phones |-> 0]
  /\ held = {}
  /\ releases = [p \in Phones |-> 0]
  /\ crossed = [p \in Phones |-> 0]
-----------------------------------------------------------------------------
(* What the steps of a worker share. *)

At(w, pc) == worker[w].pc = pc
Phone(w)  == PhoneOf[worker[w].turn]
Last(w)   == worker[w].batch[Len(worker[w].batch)]
Go(w, pc) == worker' = [worker EXCEPT ![w].pc = pc]

(* The answer a worker is about to send, the one whose row it writes next. *)
AtHand(w, k) == k \in Photos => k = Head(worker[w].photos)
SendPcs(k) == IF k = "text" THEN {"answering", "apologising"} ELSE {"illustrating"}
LogPc(k) == IF k = "text" THEN "logging text" ELSE "logging photo"
Sending(w, k) == worker[w].pc \in SendPcs(k) /\ AtHand(w, k)
Logging(w, k) == At(w, LogPc(k)) /\ AtHand(w, k)

(* The counter of crossing answers starts anew with every silence. *)
Recount == crossed' = [p \in Phones |->
                         IF Silenced(p)' = Silenced(p) THEN crossed[p] ELSE 0]

(* process_batch raises or its worker dies: the queue offers the turn      *)
(* again until its third attempt.                                          *)
Retry(w) ==
  LET t == worker[w].turn IN
  /\ turn' = [turn EXCEPT ![t].status =
                IF turn[t].attempts < MaxAttempts THEN "pending" ELSE "failed"]
  /\ worker' = [worker EXCEPT ![w] = Idle]

Claim(w, t) ==
  /\ At(w, "idle")
  /\ turn[t].status = "pending"
  /\ \A u \in Turns : u < t /\ PhoneOf[u] = PhoneOf[t] => turn[u].attempts > 0
  /\ turn' = [turn EXCEPT ![t] = Turn("processing", turn[t].attempts + 1)]
  /\ worker' = [worker EXCEPT ![w] =
       [pc |-> "reading", turn |-> t, pos |-> 1, batch |-> <<>>,
        handoff |-> "no", photos |-> <<>>, admins |-> {}]]
  /\ UNCHANGED <<conversation, history, budget, outbox, records>>

Finish(w) ==
  /\ At(w, "done")
  /\ turn' = [turn EXCEPT ![worker[w].turn].status = "done"]
  /\ worker' = [worker EXCEPT ![w] = Idle]
  /\ UNCHANGED <<conversation, history, budget, outbox, records>>

(* A crash between an answer and its row leaves the answer without a row. *)
Crash(w) ==
  /\ ~At(w, "idle")
  /\ Retry(w)
  /\ unlogged' = [key \in Messages \X Answers |->
       IF Logging(w, key[2]) /\ key[1] = Last(w)
       THEN unlogged[key] + 1 ELSE unlogged[key]]
  /\ UNCHANGED <<conversation, history, budget, delivered, answered, crossed,
                 records>>
-----------------------------------------------------------------------------
(* process_batch: the messages of the turn one by one. *)

Reading(w) == At(w, "reading") /\ worker[w].pos <= Len(Payload[worker[w].turn])
Current(w) == Payload[worker[w].turn][worker[w].pos]
NextMessage(w, batch) ==
  worker' = [worker EXCEPT ![w].pos = @ + 1, ![w].batch = batch]

(* Groups, newsletters, status replies, the store's automatic greeting and *)
(* echoes marked by the provider; also a manual message that is recorded   *)
(* already, which the code takes for an echo of the bot.                   *)
SkipIgnored(w) ==
  /\ Reading(w)
  /\ \/ Kind[Current(w)] = "ignored"
     \/ Kind[Current(w)] = "manual" /\ Recorded(Phone(w), Current(w))
  /\ NextMessage(w, worker[w].batch)
  /\ UNCHANGED <<conversation, history, turn, budget, outbox, records>>

TakeCustomer(w) ==
  /\ Reading(w)
  /\ Kind[Current(w)] \in {"text", "media"}
  /\ NextMessage(w, Append(worker[w].batch, Current(w)))
  /\ UNCHANGED <<conversation, history, turn, budget, outbox, records>>

(* _store_inbound_without_response, one message: stored unless it is there *)
(* already, also when its media cannot be read.                            *)
HoldEarlier(w) ==
  LET p == Phone(w)
      m == Head(worker[w].batch) IN
  /\ Reading(w)
  /\ Kind[Current(w)] = "manual" /\ ~Recorded(p, Current(w))
  /\ worker[w].batch # <<>>
  /\ worker' = [worker EXCEPT ![w].batch = Tail(@)]
  /\ IF Recorded(p, m)
     THEN UNCHANGED <<history, status>>
     ELSE /\ history' = [history EXCEPT ![p] = Append(@, Inbound(m))]
          /\ status' = [status EXCEPT ![p] = Opened(p)]
  /\ UNCHANGED <<mode, releases, turn, budget, outbox, records>>

BadRecordManualOnly(w) ==
  /\ Reading(w)
  /\ Kind[Current(w)] = "manual" /\ ~Recorded(Phone(w), Current(w))
  /\ history' = [history EXCEPT ![Phone(w)] = Append(@, ManualRow(Current(w)))]
  /\ status' = [status EXCEPT ![Phone(w)] = Opened(Phone(w))]
  /\ NextMessage(w, worker[w].batch)
  /\ UNCHANGED <<mode, releases, turn, budget, outbox, records>>

BadManualForgotten(w) ==
  /\ Reading(w)
  /\ Kind[Current(w)] = "manual" /\ ~Recorded(Phone(w), Current(w))
  /\ worker[w].batch = <<>>
  /\ NextMessage(w, <<>>)
  /\ UNCHANGED <<conversation, history, turn, budget, outbox, records>>

(* _record_manual_outgoing, once nothing of the contact is left to hold. *)
RecordManual(w) ==
  /\ Reading(w)
  /\ Kind[Current(w)] = "manual" /\ ~Recorded(Phone(w), Current(w))
  /\ worker[w].batch = <<>>
  /\ history' = [history EXCEPT ![Phone(w)] = Append(@, ManualRow(Current(w)))]
  /\ status' = [status EXCEPT ![Phone(w)] = Opened(Phone(w))]
  /\ NextMessage(w, <<>>)
  /\ UNCHANGED <<mode, releases, turn, budget, outbox, records>>
-----------------------------------------------------------------------------
(* _handle_admin_command and AdminCommandService.execute. *)

TargetStatus == [assume |-> "human_active", resume |-> "bot_active",
                 close |-> "closed"]

Released(s) == IF s \in {"human_pending", "human_active"} THEN "bot_active" ELSE s

(* What a command makes of the status of a conversation; an individual one *)
(* creates the conversation it names.                                      *)
StatusAfter(command, p) ==
  IF command.action = "release_all" THEN Released(status[p])
  ELSE IF p = command.target THEN TargetStatus[command.action] ELSE status[p]

Execute(command) ==
  /\ status' = [p \in Phones |-> StatusAfter(command, p)]
  /\ releases' = [p \in Phones |->
       IF status[p] \in Silent /\ StatusAfter(command, p) = "bot_active"
       THEN releases[p] + 1 ELSE releases[p]]
  /\ UNCHANGED mode
  /\ Recount

Permitted(w, command) ==
  /\ Phone(w) \in Admins
  /\ AdminRole = "owner" \/ command.action # "release_all"

RefuseCommand(w) ==
  /\ Reading(w)
  /\ Kind[Current(w)] = "command" /\ ~Permitted(w, Command[Current(w)])
  /\ NextMessage(w, worker[w].batch)
  /\ UNCHANGED <<conversation, history, turn, budget, outbox, records>>

RunCommand(w) ==
  /\ Reading(w)
  /\ Kind[Current(w)] = "command" /\ Permitted(w, Command[Current(w)])
  /\ Execute(Command[Current(w)])
  /\ Go(w, "acknowledging")
  /\ UNCHANGED <<history, turn, budget, delivered, unlogged, answered, records>>

(* The confirmation opens the attendant's own conversation; when it cannot *)
(* be sent the turn is retried, its commands included.                     *)
AcknowledgeCommand(w) ==
  /\ At(w, "acknowledging")
  /\ \/ /\ status' = [status EXCEPT ![Phone(w)] = Opened(Phone(w))]
        /\ worker' = [worker EXCEPT ![w].pc = "reading", ![w].pos = @ + 1]
        /\ UNCHANGED turn
     \/ Retry(w) /\ UNCHANGED status
  /\ UNCHANGED <<mode, releases, history, budget, outbox, records>>
-----------------------------------------------------------------------------
(* _process_phone_batch *)

EndReading(w) ==
  /\ At(w, "reading") /\ ~Reading(w)
  /\ worker[w].batch = <<>>
  /\ Go(w, "done")
  /\ UNCHANGED <<conversation, history, turn, budget, outbox, records>>

Inbounds(batch) == [i \in 1 .. Len(batch) |-> Inbound(batch[i])]

BadStoreAndGate(w) ==
  LET p == Phone(w)
      batch == worker[w].batch IN
  /\ At(w, "reading") /\ ~Reading(w) /\ batch # <<>>
  /\ history' = [history EXCEPT ![p] = @ \o Inbounds(batch)]
  /\ status' = [status EXCEPT ![p] = Opened(p)]
  /\ \/ /\ mode # "active"
        /\ held' = held \cup {worker[w].turn}
        /\ Go(w, "done")
     \/ mode = "active" /\ Go(w, "preparing") /\ UNCHANGED held
  /\ UNCHANGED <<mode, releases, turn, budget, outbox, notices>>

(* The messages are stored, again on every attempt, and the control mode   *)
(* and the status are read once, before the first await.                   *)
StoreAndGate(w) ==
  LET p == Phone(w)
      batch == worker[w].batch IN
  /\ At(w, "reading") /\ ~Reading(w) /\ batch # <<>>
  /\ history' = [history EXCEPT ![p] = @ \o Inbounds(batch)]
  /\ status' = [status EXCEPT ![p] = Opened(p)]
  /\ \/ /\ Silenced(p)
        /\ held' = held \cup {worker[w].turn}
        /\ Go(w, "done")
     \/ ~Silenced(p) /\ Go(w, "preparing") /\ UNCHANGED held
  /\ UNCHANGED <<mode, releases, turn, budget, outbox, notices>>

Media(w) == \E i \in 1 .. Len(worker[w].batch) : Kind[worker[w].batch[i]] = "media"

(* _prepare_input fails for a medium: an apology takes the answer's place. *)
FailMedia(w) ==
  /\ At(w, "preparing")
  /\ Media(w)
  /\ worker' = [worker EXCEPT ![w].pc = "apologising", ![w].handoff = "yes"]
  /\ UNCHANGED <<conversation, history, turn, budget, outbox, records>>

(* agent.respond: any answer, with or without photos and a handoff; an     *)
(* exception of the agent becomes an answer with a handoff.                *)
Decide(w, decision) ==
  /\ At(w, "preparing")
  /\ worker' = [worker EXCEPT ![w].pc = "answering",
                              ![w].handoff = decision.handoff,
                              ![w].photos = decision.photos]
  /\ UNCHANGED <<conversation, history, turn, budget, outbox, records>>

(* The photos are sent one by one after the text, the handoff comes last. *)
AfterAnswer(w, photos) ==
  worker' = [worker EXCEPT ![w].pc = IF photos # <<>> THEN "illustrating"
                                     ELSE IF worker[w].handoff = "yes" THEN "handing over"
                                     ELSE "done",
                           ![w].photos = photos]
Remaining(w, k) == IF k = "text" THEN worker[w].photos ELSE Tail(worker[w].photos)

(* _send_customer, _send_image: nothing is sent that has a row already,    *)
(* nor a photo that cannot be normalised.                                  *)
SkipAnswer(w, k) ==
  /\ Sending(w, k)
  /\ AlreadySent(Phone(w), k, Last(w)) \/ k \in Photos
  /\ AfterAnswer(w, Remaining(w, k))
  /\ UNCHANGED <<conversation, history, turn, budget, outbox, records>>

Deliver(w, k) ==
  /\ delivered' = [delivered EXCEPT ![<<Last(w), k>>] = @ + 1]
  /\ answered' = IF At(w, "answering")
                 THEN answered \cup {worker[w].batch[i] : i \in 1 .. Len(worker[w].batch)}
                 ELSE answered
  /\ crossed' = IF k = "text" /\ Silenced(Phone(w))
                THEN [crossed EXCEPT ![Phone(w)] = @ + 1] ELSE crossed

(* The provider confirms; the row is written in the next step. *)
SendAnswer(w, k) ==
  /\ Sending(w, k)
  /\ ~AlreadySent(Phone(w), k, Last(w))
  /\ Deliver(w, k)
  /\ Go(w, LogPc(k))
  /\ UNCHANGED <<conversation, history, turn, budget, unlogged, records>>

(* The provider refuses, or delivers although the call fails; the error    *)
(* leaves process_batch.                                                   *)
FailAnswer(w, k) ==
  /\ Sending(w, k)
  /\ ~AlreadySent(Phone(w), k, Last(w))
  /\ \/ UNCHANGED outbox
     \/ /\ Deliver(w, k)
        /\ unlogged' = [unlogged EXCEPT ![<<Last(w), k>>] = @ + 1]
  /\ Retry(w)
  /\ UNCHANGED <<conversation, history, budget, records>>

(* add_message of an answer *)
LogAnswer(w, k) ==
  /\ Logging(w, k)
  /\ history' = [history EXCEPT ![Phone(w)] = Append(@, Outbound(k, Last(w)))]
  /\ AfterAnswer(w, Remaining(w, k))
  /\ UNCHANGED <<conversation, turn, budget, outbox, records>>

BadClaimHandoff(w) ==
  LET p == Phone(w) IN
  /\ At(w, "handing over")
  /\ status' = [status EXCEPT ![p] = "human_pending"]
  /\ worker' = [worker EXCEPT ![w].pc = "notifying", ![w].admins = Admins \ {p}]
  /\ UNCHANGED mode
  /\ Recount
  /\ UNCHANGED <<releases, history, turn, budget, delivered, unlogged,
                 answered, records>>

(* claim_human_handoff: only a conversation the bot still has is handed    *)
(* over, and only the claim that did it notifies.                          *)
ClaimHandoff(w) ==
  LET p == Phone(w) IN
  /\ At(w, "handing over")
  /\ \/ /\ status[p] = "bot_active"
        /\ status' = [status EXCEPT ![p] = "human_pending"]
        /\ worker' = [worker EXCEPT ![w].pc = "notifying", ![w].admins = Admins \ {p}]
     \/ /\ status[p] # "bot_active"
        /\ Go(w, "done")
        /\ UNCHANGED status
  /\ UNCHANGED mode
  /\ Recount
  /\ UNCHANGED <<releases, history, turn, budget, delivered, unlogged,
                 answered, records>>

(* _notify_admins, one attendant; a failure is swallowed. *)
NotifyAdmin(w, a) ==
  /\ At(w, "notifying") /\ a \in worker[w].admins
  /\ worker' = [worker EXCEPT ![w].admins = @ \ {a}]
  /\ \/ UNCHANGED <<notices, status>>
     \/ /\ notices' = [notices EXCEPT ![Phone(w)] = @ + 1]
        /\ status' = [status EXCEPT ![a] = Opened(a)]
  /\ UNCHANGED <<mode, releases, history, turn, budget, outbox, held>>

EndNotifying(w) ==
  /\ At(w, "notifying") /\ worker[w].admins = {}
  /\ Go(w, "done")
  /\ UNCHANGED <<conversation, history, turn, budget, outbox, records>>
-----------------------------------------------------------------------------
(* Operators in the panel: the web process, concurrent with the workers. *)

PanelCommand(command) ==
  /\ budget > 0
  /\ AdminRole = "owner" \/ command.action # "release_all"
  /\ Execute(command)
  /\ budget' = budget - 1
  /\ UNCHANGED <<history, turn, worker, delivered, unlogged, answered, records>>

(* set_bot_control_state *)
SetMode(m) ==
  /\ budget > 0
  /\ AdminRole = "owner"
  /\ mode' = m
  /\ UNCHANGED status
  /\ Recount
  /\ budget' = budget - 1
  /\ UNCHANGED <<releases, history, turn, worker, delivered, unlogged,
                 answered, records>>

WorkerStep(w) ==
  \/ (\E t \in Turns : Claim(w, t)) \/ Finish(w)
  \/ SkipIgnored(w) \/ TakeCustomer(w) \/ HoldEarlier(w) \/ RecordManual(w)
  \/ RefuseCommand(w) \/ RunCommand(w) \/ AcknowledgeCommand(w)
  \/ EndReading(w) \/ StoreAndGate(w) \/ FailMedia(w)
  \/ (\E decision \in Decisions : Decide(w, decision))
  \/ (\E k \in Answers : SkipAnswer(w, k) \/ SendAnswer(w, k) \/ FailAnswer(w, k)
                          \/ LogAnswer(w, k))
  \/ ClaimHandoff(w) \/ (\E a \in Admins : NotifyAdmin(w, a)) \/ EndNotifying(w)

Next ==
  \/ \E w \in Workers : WorkerStep(w) \/ Crash(w)
  \/ \E action \in Actions, p \in Targets :
       PanelCommand([action |-> action, target |-> p])
  \/ \E m \in {"active", "paused", "maintenance"} : SetMode(m)

Spec == Init /\ [][Next]_vars
-----------------------------------------------------------------------------
(* Properties. *)

Customer(m) == Kind[m] \in {"text", "media"}
Keys == Messages \X Answers

(* A message is answered once, over all attempts of its turn: every answer *)
(* beyond the first stands for one that was delivered without leaving a    *)
(* row, in a crash or a failed call.                                       *)
AnsweredOnce == \A k \in Keys : delivered[k] <= 1 + unlogged[k]

(* However turns of one contact run side by side and are retried, each     *)
(* attendant hears once of a handoff and again only after an attendant     *)
(* gave the conversation back (the docstring of claim_human_handoff).      *)
NotifiedOncePerHandoff ==
  \A p \in Phones :
    notices[p] <= (1 + releases[p]) * Cardinality(Admins \ {p})

(* Once a conversation is silenced, each worker lets at most the one text  *)
(* through that it was about to send; later turns and retries send none.   *)
OneAnswerCrossesPerWorker ==
  \A p \in Phones : Silenced(p) => crossed[p] <= Cardinality(Workers)

(* A finished turn left no customer message and no manual message of the   *)
(* store out of the history, in whatever attempt it was met.               *)
FinishedTurnsRecorded ==
  \A t \in Turns : turn[t].status = "done" =>
    \A i \in 1 .. Len(Payload[t]) :
      LET m == Payload[t][i] IN
      Customer(m) \/ Kind[m] = "manual" => Recorded(PhoneOf[t], m)

(* The manual messages of a turn after the i-th message. *)
ManualAfter(t, i) == {j \in i + 1 .. Len(Payload[t]) : Kind[Payload[t][j]] = "manual"}

(* In the first attempt of a turn the agent never answers what the store   *)
(* has answered by hand in the same window.                                *)
ManualReplyHoldsFirstAttempt ==
  \A t \in Turns : turn[t].attempts = 1 =>
    \A i \in 1 .. Len(Payload[t]) :
      ManualAfter(t, i) # {} => Payload[t][i] \notin answered

(* No answer is lost to the search for an earlier one: a finished turn     *)
(* that ends in a customer message was held or answered, unless the store  *)
(* wrote to the contact by hand.                                           *)
FinishedTurnsAnswered ==
  \A t \in Turns :
    LET n == Len(Payload[t])
        m == Payload[t][n] IN
    /\ turn[t].status = "done" /\ n > 0 /\ Customer(m)
    /\ t \notin held
    /\ \A row \in Rows(PhoneOf[t]) : row.source # "none"
    => delivered[<<m, "text">>] > 0

(* The open notifications of a contact, by worker and attendant. *)
Due(p) == {x \in Workers \X Admins :
             At(x[1], "notifying") /\ Phone(x[1]) = p /\ x[2] \in worker[x[1]].admins}

Sharing == INSTANCE Handover WITH
  Tickets <- Workers \X Admins, due <- [p \in Phones |-> Due(p)]

(* Bot and attendants share a conversation as Handover says. *)
ImplementsHandover == Sharing!Spec
=============================================================================
