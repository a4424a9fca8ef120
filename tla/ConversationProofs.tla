-------------------------- MODULE ConversationProofs --------------------------
(***************************************************************************)
(* What holds over all attempts of a turn, for any contacts, turns,        *)
(* workers, attempts and decisions of the agent: a message is answered     *)
(* once; a finished turn is in the history and had its answer; what the    *)
(* store has answered by hand is not answered again in a first attempt.    *)
(***************************************************************************)
EXTENDS Conversation, TLAPS, SequenceTheorems

LoopFields == {"pc", "turn", "pos", "batch", "handoff", "photos", "admins"}
HistoryRow == [dir : {"in", "out"},
               kind : {"text", "media", "manual", "command", "ignored"} \cup Photos,
               id : Messages \cup {"sent"}, source : Messages \cup {"none"}]

(* The messages of a turn.                                                 *)
In(t) == {Payload[t][i] : i \in 1 .. Len(Payload[t])}

LoggingPcs == {"logging text", "logging photo"}
Answering == LoggingPcs \cup {"preparing", "answering", "apologising", "illustrating"}

(* Workers at work have turns of their own, and batches of their turns.    *)
Busy(w) ==
  /\ worker[w].turn \in Turns
  /\ turn[worker[w].turn].status = "processing"
  /\ worker[w].pos \in Nat \ {0}
  /\ worker[w].batch \in Seq(In(worker[w].turn))
  /\ worker[w].pc \in Answering => worker[w].batch # <<>>
WorkerInv ==
  /\ DOMAIN worker = Workers /\ DOMAIN turn = Turns
  /\ \A w \in Workers : DOMAIN worker[w] = LoopFields
  /\ \A t \in Turns : DOMAIN turn[t] = {"status", "attempts"}
  /\ \A w \in Workers : worker[w].pc # "idle" => Busy(w)
  /\ \A v, w \in Workers :
       worker[v].pc # "idle" /\ worker[w].pc # "idle" /\ v # w
         => worker[v].turn # worker[w].turn

HistoryInv == DOMAIN history = Phones /\ \A p \in Phones : history[p] \in Seq(HistoryRow)

(* An answer has its row, or its worker is about to write it.              *)
Logged(m, k) ==
  \E t \in Turns : m \in In(t) /\ \E row \in Rows(PhoneOf[t]) :
    row.dir = "out" /\ row.kind = k /\ row.source = m
InLog(m, k) == \E w \in Workers : Logging(w, k) /\ Last(w) = m
AnswerInv ==
  /\ delivered \in [Keys -> Nat] /\ unlogged \in [Keys -> Nat]
  /\ \A m \in Messages, k \in Answers :
       /\ delivered[<<m, k>>] <= 1 + unlogged[<<m, k>>]
       /\ delivered[<<m, k>>] <= unlogged[<<m, k>>] \/ Logged(m, k) \/ InLog(m, k)

SendInv == WorkerInv /\ HistoryInv /\ AnswerInv
-----------------------------------------------------------------------------
LEMMA PayloadOf ==
  ASSUME NEW t \in Turns
  PROVE  /\ Payload[t] \in Seq(Messages) /\ PhoneOf[t] \in Phones
         /\ In(t) \subseteq Messages
         /\ \A u \in Turns : \A m : m \in In(t) /\ m \in In(u) => t = u
<1>1. Payload[t] \in Seq(Messages) /\ PhoneOf[t] \in Phones BY PayloadAssumption
<1>2. In(t) \subseteq Messages BY <1>1 DEF In
<1>3. \A u \in Turns : \A m : m \in In(t) /\ m \in In(u) => t = u
  BY PayloadAssumption DEF In
<1> QED BY <1>1, <1>2, <1>3

LEMMA LastOf ==
  ASSUME WorkerInv, NEW w \in Workers, worker[w].pc \in Answering
  PROVE  /\ worker[w].turn \in Turns /\ Last(w) \in In(worker[w].turn)
         /\ Last(w) \in Messages /\ Phone(w) = PhoneOf[worker[w].turn]
         /\ Phone(w) \in Phones
<1>1. worker[w].pc # "idle" BY DEF Answering, LoggingPcs
<1>2. Busy(w) BY <1>1 DEF WorkerInv
<1>3. worker[w].turn \in Turns /\ worker[w].batch \in Seq(In(worker[w].turn))
      /\ worker[w].batch # <<>>
  BY <1>2 DEF Busy
<1>4. Last(w) \in In(worker[w].turn) BY <1>3 DEF Last
<1> QED BY <1>3, <1>4, PayloadOf DEF Phone

(* Rows are only added.                                                    *)
RowsGrow == \A p \in Phones : Rows(p) \subseteq Rows(p)'

LEMMA RowsAdded ==
  ASSUME HistoryInv, NEW p \in Phones, NEW rows \in Seq(HistoryRow),
         history' = [history EXCEPT ![p] = history[p] \o rows]
  PROVE  /\ HistoryInv' /\ RowsGrow
         /\ \A i \in 1 .. Len(rows) : rows[i] \in Rows(p)'
<1>1. history[p] \in Seq(HistoryRow) BY DEF HistoryInv
<1>2. history[p] \o rows \in Seq(HistoryRow) BY <1>1
<1>3. HistoryInv' BY <1>2 DEF HistoryInv
<1>4. history'[p] = history[p] \o rows
      /\ \A q \in Phones \ {p} : history'[q] = history[q]
  BY DEF HistoryInv
<1>5. Len(history'[p]) = Len(history[p]) + Len(rows)
      /\ (\A i \in 1 .. Len(history[p]) : history'[p][i] = history[p][i])
      /\ \A i \in 1 .. Len(rows) : history'[p][Len(history[p]) + i] = rows[i]
  BY <1>1, <1>4
<1>6. Rows(p) \subseteq Rows(p)'
  <2> SUFFICES ASSUME NEW i \in 1 .. Len(history[p]) PROVE history[p][i] \in Rows(p)'
    BY DEF Rows
  <2>1. i \in 1 .. Len(history'[p]) BY <1>1, <1>5
  <2>2. history'[p][i] = history[p][i] BY <1>5
  <2> QED BY <2>1, <2>2 DEF Rows
<1>7. RowsGrow BY <1>4, <1>6 DEF RowsGrow, Rows
<1>8. ASSUME NEW i \in 1 .. Len(rows) PROVE rows[i] \in Rows(p)'
  <2>1. Len(history[p]) + i \in 1 .. Len(history'[p]) BY <1>1, <1>5
  <2>2. history'[p][Len(history[p]) + i] = rows[i] BY <1>5
  <2> QED BY <2>1, <2>2 DEF Rows
<1> QED BY <1>3, <1>7, <1>8

LEMMA RowAdded ==
  ASSUME HistoryInv, NEW p \in Phones, NEW row \in HistoryRow,
         history' = [history EXCEPT ![p] = Append(history[p], row)]
  PROVE  HistoryInv' /\ RowsGrow /\ row \in Rows(p)'
<1>1. history[p] \in Seq(HistoryRow) BY DEF HistoryInv
<1>2. Append(history[p], row) = history[p] \o <<row>> BY <1>1
<1>3. <<row>> \in Seq(HistoryRow) /\ Len(<<row>>) = 1 /\ <<row>>[1] = row OBVIOUS
<1>4. history' = [history EXCEPT ![p] = history[p] \o <<row>>] BY <1>2
<1>5. HistoryInv' /\ RowsGrow /\ \A i \in 1 .. Len(<<row>>) : <<row>>[i] \in Rows(p)'
  BY <1>3, <1>4, RowsAdded
<1> QED BY <1>3, <1>5
-----------------------------------------------------------------------------
(* What a step does to its worker: it goes on with its turn, or is idle.   *)
OnlyWorker(w) ==
  /\ DOMAIN worker' = Workers
  /\ \A v \in Workers \ {w} : worker'[v] = worker[v]
  /\ DOMAIN worker'[w] = LoopFields

Continues(w) ==
  /\ OnlyWorker(w)
  /\ worker'[w].turn = worker[w].turn /\ worker'[w].pc # "idle"
  /\ worker'[w].pos \in Nat \ {0}
  /\ worker'[w].batch \in Seq(In(worker[w].turn))
  /\ worker'[w].pc \in Answering => worker'[w].batch # <<>>
  /\ turn' = turn

Returns(w) ==
  /\ OnlyWorker(w) /\ worker'[w].pc = "idle"
  /\ \E s : turn' = [turn EXCEPT ![worker[w].turn].status = s]

LEMMA ContinuesInv ==
  ASSUME WorkerInv, NEW w \in Workers, worker[w].pc # "idle", Continues(w)
  PROVE  WorkerInv'
<1>1. Busy(w) BY DEF WorkerInv
<1>2. Busy(w)' BY <1>1 DEF Busy, Continues
<1>3. \A v \in Workers \ {w} : worker[v].pc # "idle" => Busy(v)'
  BY DEF WorkerInv, Busy, Continues, OnlyWorker
<1> QED BY <1>2, <1>3 DEF WorkerInv, Continues, OnlyWorker

LEMMA ReturnsInv ==
  ASSUME WorkerInv, NEW w \in Workers, worker[w].pc # "idle", Returns(w)
  PROVE  WorkerInv'
<1>1. Busy(w) BY DEF WorkerInv
<1>2. worker[w].turn \in Turns BY <1>1 DEF Busy
<1>3. PICK s : turn' = [turn EXCEPT ![worker[w].turn].status = s] BY DEF Returns
<1>4. DOMAIN turn' = Turns /\ \A t \in Turns : DOMAIN turn'[t] = {"status", "attempts"}
  BY <1>2, <1>3 DEF WorkerInv
<1>5. \A t \in Turns : t # worker[w].turn => turn'[t] = turn[t]
  BY <1>2, <1>3 DEF WorkerInv
<1>6. ASSUME NEW v \in Workers, worker'[v].pc # "idle" PROVE Busy(v)'
  <2>1. v # w /\ worker'[v] = worker[v] BY <1>6 DEF Returns, OnlyWorker
  <2>2. Busy(v) /\ worker[v].turn # worker[w].turn BY <1>6, <2>1 DEF WorkerInv
  <2> QED BY <1>5, <2>1, <2>2 DEF Busy
<1> QED BY <1>4, <1>6 DEF WorkerInv, Returns, OnlyWorker

LEMMA RetryReturns ==
  ASSUME WorkerInv, NEW w \in Workers, Retry(w)
  PROVE  Returns(w)
<1>1. worker' = [worker EXCEPT ![w] = Idle] BY DEF Retry
<1>2. OnlyWorker(w) /\ worker'[w].pc = "idle"
  BY <1>1 DEF WorkerInv, OnlyWorker, Idle, LoopFields
<1> QED BY <1>2 DEF Returns, Retry

(* Go keeps the batch.                                                     *)
LEMMA GoContinues ==
  ASSUME WorkerInv, NEW w \in Workers, worker[w].pc # "idle", NEW pc, Go(w, pc),
         pc # "idle", pc \in Answering => worker[w].batch # <<>>, turn' = turn
  PROVE  Continues(w) /\ worker'[w].pc = pc /\ worker'[w].batch = worker[w].batch
<1>1. worker' = [worker EXCEPT ![w].pc = pc] BY DEF Go
<1>2. OnlyWorker(w) /\ worker'[w].pc = pc /\ worker'[w].batch = worker[w].batch
      /\ worker'[w].turn = worker[w].turn /\ worker'[w].pos = worker[w].pos
  BY <1>1 DEF WorkerInv, OnlyWorker, LoopFields
<1>3. Busy(w) BY DEF WorkerInv
<1> QED BY <1>2, <1>3 DEF Continues, Busy
-----------------------------------------------------------------------------
LEMMA LoggingPc ==
  ASSUME NEW k \in Answers
  PROVE  LogPc(k) \in LoggingPcs
BY DEF LogPc, LoggingPcs

LEMMA LoggingDiffer ==
  ASSUME NEW w, NEW j \in Answers, NEW k \in Answers, Logging(w, j), Logging(w, k)
  PROVE  j = k
<1>1. j = "text" <=> k = "text" BY DEF Logging, LogPc, At
<1>2. j # "text" => j = Head(worker[w].photos) BY DEF Logging, AtHand, Answers
<1>3. k # "text" => k = Head(worker[w].photos) BY DEF Logging, AtHand, Answers
<1> QED BY <1>1, <1>2, <1>3

(* A step that sends nothing and loses no row keeps the account of answers. *)
KeepsLogging == \A w \in Workers : worker[w].pc \in LoggingPcs => worker'[w] = worker[w]

LEMMA LoggedKept ==
  ASSUME RowsGrow, NEW m \in Messages, NEW k \in Answers, Logged(m, k)
  PROVE  Logged(m, k)'
<1>1. PICK t \in Turns : m \in In(t) /\ \E row \in Rows(PhoneOf[t]) :
             row.dir = "out" /\ row.kind = k /\ row.source = m
  BY DEF Logged
<1>2. Rows(PhoneOf[t]) \subseteq Rows(PhoneOf[t])' BY PayloadOf DEF RowsGrow
<1>3. \E row \in Rows(PhoneOf[t])' : row.dir = "out" /\ row.kind = k /\ row.source = m
  BY <1>1, <1>2
<1> QED BY <1>1, <1>3 DEF Logged, In

LEMMA InLogKept ==
  ASSUME NEW w \in Workers, OnlyWorker(w), NEW m \in Messages, NEW k \in Answers,
         InLog(m, k)
  PROVE  InLog(m, k)' \/ (Logging(w, k) /\ Last(w) = m)
<1>1. PICK v \in Workers : Logging(v, k) /\ Last(v) = m BY DEF InLog
<1>2. CASE v = w BY <1>1, <1>2
<1>3. CASE v # w
  <2>1. worker'[v] = worker[v] BY <1>3 DEF OnlyWorker
  <2>2. Logging(v, k)' /\ (Last(v) = m)'
    BY <1>1, <2>1 DEF Logging, At, AtHand, LogPc, Last
  <2> QED BY <2>2 DEF InLog
<1> QED BY <1>2, <1>3

LEMMA QuietStep ==
  ASSUME WorkerInv, AnswerInv, RowsGrow, KeepsLogging,
         delivered' = delivered, unlogged' = unlogged
  PROVE  AnswerInv'
<1>1. ASSUME NEW m \in Messages, NEW k \in Answers, InLog(m, k) PROVE InLog(m, k)'
  <2>1. PICK w \in Workers : Logging(w, k) /\ Last(w) = m
    BY <1>1 DEF InLog
  <2>2. worker'[w] = worker[w]
    BY <2>1, LoggingPc DEF KeepsLogging, Logging, At
  <2>3. Logging(w, k)' /\ (Last(w) = m)'
    BY <2>1, <2>2 DEF Logging, At, AtHand, LogPc, Last
  <2> QED BY <2>3 DEF InLog
<1>2. delivered' \in [Keys -> Nat] /\ unlogged' \in [Keys -> Nat] BY DEF AnswerInv
<1>3. ASSUME NEW m \in Messages, NEW k \in Answers
      PROVE  /\ delivered'[<<m, k>>] <= 1 + unlogged'[<<m, k>>]
             /\ delivered'[<<m, k>>] <= unlogged'[<<m, k>>] \/ Logged(m, k)' \/ InLog(m, k)'
  BY <1>1, LoggedKept DEF AnswerInv
<1> QED BY <1>2, <1>3 DEF AnswerInv

(* A step of one worker that is not about to write a row.                  *)
LEMMA OtherLogging ==
  ASSUME NEW w \in Workers, worker[w].pc \notin LoggingPcs, OnlyWorker(w)
  PROVE  KeepsLogging
BY DEF KeepsLogging, OnlyWorker

LEMMA UnchangedRows ==
  ASSUME HistoryInv, history' = history
  PROVE  HistoryInv' /\ RowsGrow
BY DEF HistoryInv, RowsGrow, Rows

(* What is about to be sent was not sent, or not recorded as sent.         *)
LEMMA Unsent ==
  ASSUME WorkerInv, AnswerInv, NEW w \in Workers, NEW k \in Answers, Sending(w, k),
         ~AlreadySent(Phone(w), k, Last(w))
  PROVE  /\ <<Last(w), k>> \in Keys
         /\ delivered[<<Last(w), k>>] <= unlogged[<<Last(w), k>>]
         /\ worker[w].pc \in Answering \ LoggingPcs
<1>1. worker[w].pc \in Answering \ LoggingPcs
  BY DEF Sending, SendPcs, Answering, LoggingPcs
<1>2. Last(w) \in In(worker[w].turn) /\ Last(w) \in Messages
      /\ worker[w].turn \in Turns /\ Phone(w) = PhoneOf[worker[w].turn]
  BY <1>1, LastOf
<1>3. ~Logged(Last(w), k)
  <2> SUFFICES ASSUME NEW t \in Turns, Last(w) \in In(t), NEW row \in Rows(PhoneOf[t]),
                      row.dir = "out" /\ row.kind = k /\ row.source = Last(w)
               PROVE  FALSE
    BY DEF Logged
  <2>1. t = worker[w].turn BY <1>2, PayloadOf
  <2>2. row \in Rows(Phone(w)) BY <1>2, <2>1
  <2> QED BY <2>2 DEF AlreadySent
<1>4. ~InLog(Last(w), k)
  <2> SUFFICES ASSUME NEW v \in Workers, Logging(v, k), Last(v) = Last(w) PROVE FALSE
    BY DEF InLog
  <2>1. worker[v].pc \in LoggingPcs BY LoggingPc DEF Logging, At
  <2>2. worker[v].pc \in Answering /\ v # w BY <1>1, <2>1 DEF Answering
  <2>3. Last(v) \in In(worker[v].turn) /\ worker[v].turn \in Turns BY <2>2, LastOf
  <2>4. worker[v].turn = worker[w].turn BY <1>2, <2>3, PayloadOf
  <2>5. worker[v].pc # "idle" /\ worker[w].pc # "idle"
    BY <1>1, <2>1 DEF Answering, LoggingPcs
  <2> QED BY <2>2, <2>4, <2>5 DEF WorkerInv
<1>5. <<Last(w), k>> \in Keys BY <1>2 DEF Keys
<1>6. delivered[<<Last(w), k>>] <= unlogged[<<Last(w), k>>]
  BY <1>2, <1>3, <1>4 DEF AnswerInv
<1> QED BY <1>1, <1>5, <1>6

(* A worker that goes on to write the row of an answer holds that answer.  *)
LEMMA GoLogging ==
  ASSUME WorkerInv, NEW w \in Workers, NEW k, Sending(w, k), Go(w, LogPc(k))
  PROVE  Logging(w, k)'
<1>1. worker' = [worker EXCEPT ![w].pc = LogPc(k)] BY DEF Go
<1>2. worker'[w].pc = LogPc(k) /\ worker'[w].photos = worker[w].photos
  BY <1>1 DEF WorkerInv, LoopFields
<1> QED BY <1>2 DEF Logging, Sending, At, AtHand, LogPc

LEMMA SendStep ==
  ASSUME SendInv, NEW w \in Workers, NEW k \in Answers, SendAnswer(w, k)
  PROVE  SendInv'
<1>1. WorkerInv /\ HistoryInv /\ AnswerInv BY DEF SendInv
<1>2. /\ <<Last(w), k>> \in Keys
      /\ delivered[<<Last(w), k>>] <= unlogged[<<Last(w), k>>]
      /\ worker[w].pc \in Answering \ LoggingPcs
  BY <1>1, Unsent DEF SendAnswer
<1>3. worker[w].pc # "idle" /\ Busy(w) BY <1>1, <1>2 DEF Answering, WorkerInv
<1>4. LogPc(k) # "idle" BY LoggingPc DEF LoggingPcs
<1>5. Go(w, LogPc(k)) /\ turn' = turn /\ worker[w].batch # <<>>
  BY <1>2, <1>3 DEF SendAnswer, Busy
<1>6. Continues(w) /\ worker'[w].pc = LogPc(k) /\ worker'[w].batch = worker[w].batch
  BY <1>1, <1>3, <1>4, <1>5, GoContinues
<1>7. WorkerInv' BY <1>1, <1>3, <1>6, ContinuesInv
<1>8. HistoryInv' /\ RowsGrow BY <1>1, UnchangedRows DEF SendAnswer
<1>9. delivered' = [delivered EXCEPT ![<<Last(w), k>>] = delivered[<<Last(w), k>>] + 1]
      /\ unlogged' = unlogged
  BY DEF SendAnswer, Deliver
<1>10. delivered' \in [Keys -> Nat] /\ unlogged' \in [Keys -> Nat]
  BY <1>1, <1>2, <1>9 DEF AnswerInv
<1>11. (Last(w))' = Last(w) BY <1>6 DEF Last
<1>a. Logging(w, k)' BY <1>1, <1>5, GoLogging DEF SendAnswer
<1>12. ASSUME NEW m \in Messages, NEW j \in Answers
       PROVE  /\ delivered'[<<m, j>>] <= 1 + unlogged'[<<m, j>>]
              /\ delivered'[<<m, j>>] <= unlogged'[<<m, j>>] \/ Logged(m, j)' \/ InLog(m, j)'
  <2>1. CASE m = Last(w) /\ j = k
    <3>1. delivered'[<<m, j>>] = delivered[<<m, j>>] + 1 BY <1>1, <1>2, <1>9, <2>1 DEF AnswerInv
    <3>2. delivered[<<m, j>>] \in Nat /\ unlogged[<<m, j>>] \in Nat
      BY <1>1, <1>2, <2>1 DEF AnswerInv
    <3>3. delivered[<<m, j>>] <= unlogged[<<m, j>>] BY <1>2, <2>1
    <3>4. Logging(w, j)' /\ (Last(w) = m)' BY <1>11, <1>a, <2>1
    <3>5. InLog(m, j)' BY <3>4 DEF InLog
    <3> QED BY <1>9, <3>1, <3>2, <3>3, <3>5
  <2>2. CASE ~(m = Last(w) /\ j = k)
    <3>1. delivered'[<<m, j>>] = delivered[<<m, j>>]
      BY <1>1, <1>9, <2>2 DEF AnswerInv, Keys
    <3>2. ~Logging(w, j) BY <1>2, LoggingPc DEF Logging, At
    <3>3. InLog(m, j) => InLog(m, j)' BY <1>6, <3>2, InLogKept DEF Continues
    <3>4. Logged(m, j) => Logged(m, j)' BY <1>8, LoggedKept
    <3> QED BY <1>1, <1>9, <3>1, <3>3, <3>4 DEF AnswerInv
  <2> QED BY <2>1, <2>2
<1> QED BY <1>7, <1>8, <1>10, <1>12 DEF SendInv, AnswerInv

LEMMA FailStep ==
  ASSUME SendInv, NEW w \in Workers, NEW k \in Answers, FailAnswer(w, k)
  PROVE  SendInv'
<1>1. WorkerInv /\ HistoryInv /\ AnswerInv BY DEF SendInv
<1>2. /\ <<Last(w), k>> \in Keys /\ worker[w].pc \in Answering \ LoggingPcs
  BY <1>1, Unsent DEF FailAnswer
<1>3. worker[w].pc # "idle" BY <1>2 DEF Answering
<1>4. Returns(w) BY <1>1, RetryReturns DEF FailAnswer
<1>5. WorkerInv' BY <1>1, <1>3, <1>4, ReturnsInv
<1>6. HistoryInv' /\ RowsGrow BY <1>1, UnchangedRows DEF FailAnswer
<1>7. KeepsLogging BY <1>2, <1>4, OtherLogging DEF Returns
<1>8. CASE UNCHANGED outbox
  <2>1. delivered' = delivered /\ unlogged' = unlogged BY <1>8 DEF outbox
  <2> QED BY <1>1, <1>5, <1>6, <1>7, <2>1, QuietStep DEF SendInv
<1>9. CASE Deliver(w, k) /\ unlogged' = [unlogged EXCEPT ![<<Last(w), k>>] = @ + 1]
  <2>1. delivered' = [delivered EXCEPT ![<<Last(w), k>>] = delivered[<<Last(w), k>>] + 1]
        /\ unlogged' = [unlogged EXCEPT ![<<Last(w), k>>] = unlogged[<<Last(w), k>>] + 1]
    BY <1>9 DEF Deliver
  <2>2. delivered' \in [Keys -> Nat] /\ unlogged' \in [Keys -> Nat]
    BY <1>1, <1>2, <2>1 DEF AnswerInv
  <2>3. ASSUME NEW m \in Messages, NEW j \in Answers
        PROVE  /\ delivered'[<<m, j>>] <= 1 + unlogged'[<<m, j>>]
               /\ delivered'[<<m, j>>] <= unlogged'[<<m, j>>]
                    \/ Logged(m, j)' \/ InLog(m, j)'
    <3>1. <<m, j>> \in Keys BY DEF Keys
    <3>2. delivered[<<m, j>>] \in Nat /\ unlogged[<<m, j>>] \in Nat
      BY <1>1, <3>1 DEF AnswerInv
    <3>3. \/ delivered'[<<m, j>>] = delivered[<<m, j>>] /\ unlogged'[<<m, j>>] = unlogged[<<m, j>>]
          \/ /\ delivered'[<<m, j>>] = delivered[<<m, j>>] + 1
             /\ unlogged'[<<m, j>>] = unlogged[<<m, j>>] + 1
      BY <1>1, <1>2, <2>1, <3>1 DEF AnswerInv
    <3>4. ~Logging(w, j) BY <1>2, LoggingPc DEF Logging, At
    <3>5. InLog(m, j) => InLog(m, j)' BY <1>4, <3>4, InLogKept DEF Returns
    <3>6. Logged(m, j) => Logged(m, j)' BY <1>6, LoggedKept
    <3>7. /\ delivered[<<m, j>>] <= 1 + unlogged[<<m, j>>]
          /\ delivered[<<m, j>>] <= unlogged[<<m, j>>] \/ Logged(m, j) \/ InLog(m, j)
      BY <1>1 DEF AnswerInv
    <3> QED BY <3>2, <3>3, <3>5, <3>6, <3>7
  <2> QED BY <1>5, <1>6, <2>2, <2>3 DEF SendInv, AnswerInv
<1> QED BY <1>8, <1>9 DEF FailAnswer

AfterPcs == {"illustrating", "handing over", "done"}
LEMMA AfterMoves ==
  ASSUME WorkerInv, NEW w \in Workers, NEW photos, AfterAnswer(w, photos)
  PROVE  /\ OnlyWorker(w) /\ worker'[w].pc \in AfterPcs
         /\ worker'[w].turn = worker[w].turn /\ worker'[w].pos = worker[w].pos
         /\ worker'[w].batch = worker[w].batch
<1>1. PICK pc \in AfterPcs :
        worker' = [worker EXCEPT ![w].pc = pc, ![w].photos = photos]
  BY DEF AfterAnswer, AfterPcs
<1> QED BY <1>1 DEF WorkerInv, OnlyWorker, LoopFields

LEMMA AfterContinues ==
  ASSUME WorkerInv, NEW w \in Workers, NEW photos, AfterAnswer(w, photos),
         worker[w].pc # "idle", worker[w].batch # <<>>, turn' = turn
  PROVE  Continues(w)
<1>1. Busy(w) BY DEF WorkerInv
<1>2. worker'[w].pc # "idle" BY AfterMoves DEF AfterPcs
<1> QED BY <1>1, <1>2, AfterMoves DEF Continues, Busy

LEMMA LogStep ==
  ASSUME SendInv, NEW w \in Workers, NEW k \in Answers, LogAnswer(w, k)
  PROVE  SendInv'
<1>1. WorkerInv /\ HistoryInv /\ AnswerInv BY DEF SendInv
<1>2. Logging(w, k) /\ worker[w].pc \in LoggingPcs
  BY LoggingPc DEF LogAnswer, Logging, At
<1>3. worker[w].pc \in Answering /\ worker[w].pc # "idle" BY <1>2 DEF Answering, LoggingPcs
<1>4. Last(w) \in In(worker[w].turn) /\ Last(w) \in Messages
      /\ worker[w].turn \in Turns /\ Phone(w) = PhoneOf[worker[w].turn] /\ Phone(w) \in Phones
  BY <1>1, <1>3, LastOf
<1>5. worker[w].batch # <<>> BY <1>1, <1>3 DEF WorkerInv, Busy
<1>7. AfterAnswer(w, Remaining(w, k)) /\ turn' = turn BY DEF LogAnswer
<1>8. Continues(w) BY <1>1, <1>3, <1>5, <1>7, AfterContinues
<1>9. WorkerInv' BY <1>1, <1>3, <1>8, ContinuesInv
<1>10. PICK m \in Messages, t \in Turns : m = Last(w) /\ t = worker[w].turn BY <1>4
<1>11. m \in In(t) /\ PhoneOf[t] \in Phones BY <1>4, <1>10
<1>12. Outbound(k, m) \in HistoryRow BY DEF Outbound, HistoryRow, Answers
<1>13. history' = [history EXCEPT ![PhoneOf[t]] = Append(history[PhoneOf[t]], Outbound(k, m))]
  BY <1>4, <1>10 DEF LogAnswer
<1>14. HistoryInv' /\ RowsGrow /\ Outbound(k, m) \in Rows(PhoneOf[t])'
  BY <1>1, <1>11, <1>12, <1>13, RowAdded
<1>15. Logged(m, k)'
  <2>1. Outbound(k, m).dir = "out" /\ Outbound(k, m).kind = k /\ Outbound(k, m).source = m
    BY DEF Outbound
  <2>2. \E row \in Rows(PhoneOf[t])' : row.dir = "out" /\ row.kind = k /\ row.source = m
    BY <1>14, <2>1
  <2> QED BY <1>11, <2>2 DEF Logged, In
<1>16. delivered' = delivered /\ unlogged' = unlogged BY DEF LogAnswer, outbox
<1>17. ASSUME NEW n \in Messages, NEW j \in Answers
       PROVE  /\ delivered'[<<n, j>>] <= 1 + unlogged'[<<n, j>>]
              /\ delivered'[<<n, j>>] <= unlogged'[<<n, j>>] \/ Logged(n, j)' \/ InLog(n, j)'
  <2>1. Logging(w, j) => j = k
    BY <1>2, LoggingDiffer
  <2>2. InLog(n, j) => InLog(n, j)' \/ Logged(n, j)'
    <3>1. OnlyWorker(w) BY <1>8 DEF Continues
    <3>2. CASE Logging(w, j) /\ Last(w) = n
      <4>1. n = m /\ j = k BY <1>10, <2>1, <3>2
      <4> QED BY <1>15, <4>1
    <3>3. CASE ~(Logging(w, j) /\ Last(w) = n) BY <3>1, <3>3, InLogKept
    <3> QED BY <3>2, <3>3
  <2>3. Logged(n, j) => Logged(n, j)' BY <1>14, LoggedKept
  <2> QED BY <1>1, <1>16, <2>2, <2>3 DEF AnswerInv
<1>18. delivered' \in [Keys -> Nat] /\ unlogged' \in [Keys -> Nat]
  BY <1>1, <1>16 DEF AnswerInv
<1> QED BY <1>9, <1>14, <1>17, <1>18 DEF SendInv, AnswerInv

LEMMA CrashStep ==
  ASSUME SendInv, NEW w \in Workers, Crash(w)
  PROVE  SendInv'
<1>1. WorkerInv /\ HistoryInv /\ AnswerInv BY DEF SendInv
<1>2. Returns(w) /\ worker[w].pc # "idle" BY <1>1, RetryReturns DEF Crash, At
<1>3. WorkerInv' BY <1>1, <1>2, ReturnsInv
<1>4. HistoryInv' /\ RowsGrow BY <1>1, UnchangedRows DEF Crash
<1>5. delivered' = delivered BY DEF Crash
<1>6. unlogged' = [key \in Keys |-> IF Logging(w, key[2]) /\ key[1] = Last(w)
                                   THEN unlogged[key] + 1 ELSE unlogged[key]]
  BY DEF Crash, Keys
<1>7. delivered' \in [Keys -> Nat] /\ unlogged' \in [Keys -> Nat]
  BY <1>1, <1>5, <1>6 DEF AnswerInv
<1>8. ASSUME NEW m \in Messages, NEW k \in Answers
      PROVE  /\ delivered'[<<m, k>>] <= 1 + unlogged'[<<m, k>>]
             /\ delivered'[<<m, k>>] <= unlogged'[<<m, k>>] \/ Logged(m, k)' \/ InLog(m, k)'
  <2>1. <<m, k>> \in Keys BY DEF Keys
  <2>2. delivered[<<m, k>>] \in Nat /\ unlogged[<<m, k>>] \in Nat
    BY <1>1, <2>1 DEF AnswerInv
  <2>3. /\ delivered[<<m, k>>] <= 1 + unlogged[<<m, k>>]
        /\ delivered[<<m, k>>] <= unlogged[<<m, k>>] \/ Logged(m, k) \/ InLog(m, k)
    BY <1>1 DEF AnswerInv
  <2>4. unlogged'[<<m, k>>] = IF Logging(w, k) /\ m = Last(w)
                              THEN unlogged[<<m, k>>] + 1 ELSE unlogged[<<m, k>>]
    BY <1>6, <2>1
  <2>5. CASE Logging(w, k) /\ m = Last(w)
    BY <1>5, <2>2, <2>3, <2>4, <2>5
  <2>6. CASE ~(Logging(w, k) /\ m = Last(w))
    <3>1. InLog(m, k) => InLog(m, k)' BY <1>2, <2>6, InLogKept DEF Returns
    <3>2. Logged(m, k) => Logged(m, k)' BY <1>4, LoggedKept
    <3> QED BY <1>5, <2>3, <2>4, <2>6, <3>1, <3>2
  <2> QED BY <2>5, <2>6
<1> QED BY <1>3, <1>4, <1>7, <1>8 DEF SendInv, AnswerInv
-----------------------------------------------------------------------------
(* The other steps of a worker leave the account alone: they go on with    *)
(* the turn or give it back, and add rows at most.                         *)
SendsNothing == delivered' = delivered /\ unlogged' = unlogged

LEMMA TurnStep ==
  ASSUME SendInv, NEW w \in Workers, worker[w].pc \notin LoggingPcs,
         worker[w].pc # "idle", Continues(w) \/ Returns(w),
         HistoryInv', RowsGrow, SendsNothing
  PROVE  SendInv'
<1>1. WorkerInv /\ AnswerInv BY DEF SendInv
<1>2. WorkerInv' BY <1>1, ContinuesInv, ReturnsInv
<1>3. KeepsLogging BY OtherLogging DEF Continues, Returns
<1> QED BY <1>1, <1>2, <1>3, QuietStep DEF SendInv, SendsNothing

(* Steps of Go that leave the history alone.                               *)
LEMMA GoStep ==
  ASSUME SendInv, NEW w \in Workers, worker[w].pc \notin LoggingPcs,
         worker[w].pc # "idle", NEW pc, Go(w, pc), pc # "idle",
         pc \in Answering => worker[w].batch # <<>>,
         turn' = turn, history' = history, SendsNothing
  PROVE  SendInv'
<1>1. WorkerInv /\ HistoryInv BY DEF SendInv
<1>2. Continues(w) BY <1>1, GoContinues
<1>3. HistoryInv' /\ RowsGrow BY <1>1, UnchangedRows
<1> QED BY <1>2, <1>3, TurnStep

LEMMA ClaimStep ==
  ASSUME SendInv, NEW w \in Workers, NEW t \in Turns, Claim(w, t)
  PROVE  SendInv'
<1>1. WorkerInv /\ HistoryInv /\ AnswerInv BY DEF SendInv
<1>2. worker[w].pc = "idle" /\ turn[t].status = "pending" BY DEF Claim, At
<1>3. worker' = [worker EXCEPT ![w] =
         [pc |-> "reading", turn |-> t, pos |-> 1, batch |-> <<>>,
          handoff |-> "no", photos |-> <<>>, admins |-> {}]]
  BY DEF Claim
<1>4. OnlyWorker(w) /\ worker'[w].pc = "reading" /\ worker'[w].turn = t
      /\ worker'[w].pos = 1 /\ worker'[w].batch = <<>>
  BY <1>1, <1>3 DEF WorkerInv, OnlyWorker, LoopFields
<1>5. turn' = [turn EXCEPT ![t] = Turn("processing", turn[t].attempts + 1)] BY DEF Claim
<1>6. DOMAIN turn' = Turns /\ turn'[t].status = "processing"
      /\ (\A u \in Turns : DOMAIN turn'[u] = {"status", "attempts"})
      /\ \A u \in Turns \ {t} : turn'[u] = turn[u]
  BY <1>1, <1>5 DEF WorkerInv, Turn
<1>7. \A v \in Workers : worker[v].pc # "idle" => Busy(v) /\ worker[v].turn # t
  BY <1>1, <1>2 DEF WorkerInv, Busy
<1>8. Busy(w)'
  <2>1. "reading" \notin Answering BY DEF Answering, LoggingPcs
  <2>2. worker'[w].batch \in Seq(In(t)) BY <1>4
  <2>3. 1 \in Nat \ {0} OBVIOUS
  <2> QED BY <1>4, <1>6, <2>1, <2>2, <2>3 DEF Busy, In
<1>9. ASSUME NEW v \in Workers \ {w}, worker'[v].pc # "idle"
      PROVE  Busy(v)' /\ worker'[v].turn # t
  <2>1. worker'[v] = worker[v] BY <1>4 DEF OnlyWorker
  <2>2. Busy(v) /\ worker[v].turn # t BY <1>7, <1>9, <2>1
  <2> QED BY <1>6, <2>1, <2>2 DEF Busy
<1>10. \A u, v \in Workers :
         worker'[u].pc # "idle" /\ worker'[v].pc # "idle" /\ u # v
           => worker'[u].turn # worker'[v].turn
  BY <1>1, <1>4, <1>9 DEF WorkerInv, OnlyWorker
<1>11. \A v \in Workers : DOMAIN worker'[v] = LoopFields
  BY <1>1, <1>4 DEF WorkerInv, OnlyWorker
<1>12. WorkerInv'
  BY <1>4, <1>6, <1>8, <1>9, <1>10, <1>11 DEF WorkerInv, OnlyWorker
<1>13. HistoryInv' /\ RowsGrow BY <1>1, UnchangedRows DEF Claim
<1>14. KeepsLogging
  <2>1. "idle" \notin LoggingPcs BY DEF LoggingPcs
  <2> QED BY <1>2, <1>4, <2>1, OtherLogging
<1>15. delivered' = delivered /\ unlogged' = unlogged BY DEF Claim, outbox
<1> QED BY <1>1, <1>12, <1>13, <1>14, <1>15, QuietStep DEF SendInv

LEMMA FinishStep ==
  ASSUME SendInv, NEW w \in Workers, Finish(w)
  PROVE  SendInv'
<1>1. WorkerInv /\ HistoryInv BY DEF SendInv
<1>2. worker[w].pc = "done" /\ worker' = [worker EXCEPT ![w] = Idle] BY DEF Finish, At
<1>3. OnlyWorker(w) /\ worker'[w].pc = "idle"
  BY <1>1, <1>2 DEF WorkerInv, OnlyWorker, Idle, LoopFields
<1>4. Returns(w) BY <1>3 DEF Returns, Finish
<1>5. HistoryInv' /\ RowsGrow /\ SendsNothing
  BY <1>1, UnchangedRows DEF Finish, outbox, SendsNothing
<1>6. worker[w].pc \notin LoggingPcs /\ worker[w].pc # "idle" BY <1>2 DEF LoggingPcs
<1> QED BY <1>4, <1>5, <1>6, TurnStep
-----------------------------------------------------------------------------
LEMMA ReadingOf ==
  ASSUME WorkerInv, NEW w \in Workers, At(w, "reading")
  PROVE  /\ Busy(w) /\ worker[w].pc \notin LoggingPcs /\ worker[w].pc # "idle"
         /\ Phone(w) \in Phones
         /\ Reading(w) => Current(w) \in In(worker[w].turn) /\ Current(w) \in Messages
<1>1. worker[w].pc = "reading" BY DEF At
<1>2. Busy(w) BY <1>1 DEF WorkerInv
<1>3. worker[w].turn \in Turns BY <1>2 DEF Busy
<1>4. Phone(w) \in Phones BY <1>3, PayloadOf DEF Phone
<1>5. ASSUME Reading(w) PROVE Current(w) \in In(worker[w].turn)
  <2>1. worker[w].pos \in 1 .. Len(Payload[worker[w].turn])
    BY <1>2, <1>3, <1>5, PayloadOf DEF Busy, Reading
  <2> QED BY <2>1 DEF Current, In
<1> QED BY <1>1, <1>2, <1>3, <1>4, <1>5, PayloadOf DEF LoggingPcs

(* The worker reads on: nothing of Answering is reached.                   *)
LEMMA NextContinues ==
  ASSUME WorkerInv, NEW w \in Workers, At(w, "reading"),
         NEW batch \in Seq(In(worker[w].turn)), NextMessage(w, batch), turn' = turn
  PROVE  Continues(w)
<1>1. worker[w].pc = "reading" /\ worker[w].pos \in Nat \ {0}
  BY ReadingOf DEF At, Busy
<1>2. worker' = [worker EXCEPT ![w].pos = worker[w].pos + 1, ![w].batch = batch]
  BY DEF NextMessage
<1>3. OnlyWorker(w) /\ worker'[w].turn = worker[w].turn /\ worker'[w].pc = "reading"
      /\ worker'[w].pos = worker[w].pos + 1 /\ worker'[w].batch = batch
  BY <1>1, <1>2 DEF WorkerInv, OnlyWorker, LoopFields
<1>4. worker'[w].pos \in Nat \ {0} BY <1>1, <1>3
<1>5. "reading" \notin Answering BY DEF Answering, LoggingPcs
<1> QED BY <1>3, <1>4, <1>5 DEF Continues

LEMMA SkipIgnoredStep ==
  ASSUME SendInv, NEW w \in Workers, SkipIgnored(w) \/ RefuseCommand(w)
  PROVE  SendInv'
<1>1. WorkerInv /\ HistoryInv BY DEF SendInv
<1>2. At(w, "reading") /\ NextMessage(w, worker[w].batch) /\ turn' = turn
      /\ history' = history /\ SendsNothing
  BY DEF SkipIgnored, RefuseCommand, Reading, outbox, SendsNothing
<1>3. worker[w].batch \in Seq(In(worker[w].turn)) BY <1>1, <1>2, ReadingOf DEF Busy
<1>4. Continues(w) BY <1>1, <1>2, <1>3, NextContinues
<1> QED BY <1>1, <1>2, <1>4, ReadingOf, UnchangedRows, TurnStep

LEMMA TakeCustomerStep ==
  ASSUME SendInv, NEW w \in Workers, TakeCustomer(w)
  PROVE  SendInv'
<1>1. WorkerInv /\ HistoryInv BY DEF SendInv
<1>2. At(w, "reading") /\ Reading(w) /\ turn' = turn /\ history' = history /\ SendsNothing
      /\ NextMessage(w, Append(worker[w].batch, Current(w)))
  BY DEF TakeCustomer, Reading, outbox, SendsNothing
<1>3. Append(worker[w].batch, Current(w)) \in Seq(In(worker[w].turn))
  <2>1. worker[w].batch \in Seq(In(worker[w].turn)) BY <1>1, <1>2, ReadingOf DEF Busy
  <2>2. Current(w) \in In(worker[w].turn) BY <1>1, <1>2, ReadingOf
  <2> QED BY <2>1, <2>2
<1>4. Continues(w) BY <1>1, <1>2, <1>3, NextContinues
<1> QED BY <1>1, <1>2, <1>4, ReadingOf, UnchangedRows, TurnStep

LEMMA RecordManualStep ==
  ASSUME SendInv, NEW w \in Workers, RecordManual(w)
  PROVE  SendInv'
<1>1. WorkerInv /\ HistoryInv BY DEF SendInv
<1>2. At(w, "reading") /\ Reading(w) /\ turn' = turn /\ NextMessage(w, <<>>) /\ SendsNothing
  BY DEF RecordManual, Reading, outbox, SendsNothing
<1>3. <<>> \in Seq(In(worker[w].turn)) OBVIOUS
<1>4. Continues(w) BY <1>1, <1>2, <1>3, NextContinues
<1>5. ManualRow(Current(w)) \in HistoryRow
  <2>1. Current(w) \in Messages BY <1>1, <1>2, ReadingOf
  <2> QED BY <2>1 DEF ManualRow, HistoryRow
<1>6. Phone(w) \in Phones BY <1>1, <1>2, ReadingOf
<1>7. PICK p \in Phones, row \in HistoryRow : p = Phone(w) /\ row = ManualRow(Current(w))
  BY <1>5, <1>6
<1>8. history' = [history EXCEPT ![p] = Append(history[p], row)]
  BY <1>7 DEF RecordManual
<1>9. HistoryInv' /\ RowsGrow BY <1>1, <1>8, RowAdded
<1> QED BY <1>1, <1>2, <1>4, <1>9, ReadingOf, TurnStep

LEMMA InboundRow ==
  ASSUME NEW t \in Turns, NEW m \in In(t)
  PROVE  Inbound(m) \in HistoryRow
<1>1. m \in Messages BY PayloadOf
<1>2. Kind[m] \in {"text", "media", "manual", "command", "ignored"}
  BY <1>1, PayloadAssumption
<1> QED BY <1>1, <1>2 DEF Inbound, HistoryRow

LEMMA HoldEarlierStep ==
  ASSUME SendInv, NEW w \in Workers, HoldEarlier(w)
  PROVE  SendInv'
<1>1. WorkerInv /\ HistoryInv BY DEF SendInv
<1>2. At(w, "reading") /\ turn' = turn /\ SendsNothing /\ worker[w].batch # <<>>
  BY DEF HoldEarlier, Reading, outbox, SendsNothing
<1>3. Busy(w) /\ worker[w].pc = "reading" BY <1>1, <1>2, ReadingOf DEF At
<1>4. worker[w].batch \in Seq(In(worker[w].turn)) /\ worker[w].turn \in Turns
  BY <1>3 DEF Busy
<1>5. Head(worker[w].batch) \in In(worker[w].turn)
      /\ Tail(worker[w].batch) \in Seq(In(worker[w].turn))
  BY <1>2, <1>4, HeadTailProperties
<1>6. worker' = [worker EXCEPT ![w].batch = Tail(worker[w].batch)] BY DEF HoldEarlier
<1>7. OnlyWorker(w) /\ worker'[w].turn = worker[w].turn /\ worker'[w].pc = "reading"
      /\ worker'[w].pos = worker[w].pos /\ worker'[w].batch = Tail(worker[w].batch)
  BY <1>1, <1>3, <1>6 DEF WorkerInv, OnlyWorker, LoopFields
<1>8. "reading" \notin Answering BY DEF Answering, LoggingPcs
<1>9. Continues(w) BY <1>2, <1>3, <1>5, <1>7, <1>8 DEF Continues, Busy
<1>10. HistoryInv' /\ RowsGrow
  <2>1. CASE history' = history BY <1>1, <2>1, UnchangedRows
  <2>2. CASE history' # history
    <3>1. Inbound(Head(worker[w].batch)) \in HistoryRow BY <1>4, <1>5, InboundRow
    <3>2. Phone(w) \in Phones BY <1>1, <1>2, ReadingOf
    <3>3. PICK p \in Phones, row \in HistoryRow :
            p = Phone(w) /\ row = Inbound(Head(worker[w].batch))
      BY <3>1, <3>2
    <3>4. history' = [history EXCEPT ![p] = Append(history[p], row)]
      BY <2>2, <3>3 DEF HoldEarlier
    <3> QED BY <1>1, <3>4, RowAdded
  <2> QED BY <2>1, <2>2
<1> QED BY <1>1, <1>2, <1>9, <1>10, ReadingOf, TurnStep
LEMMA CommandStep ==
  ASSUME SendInv, NEW w \in Workers, RunCommand(w) \/ EndReading(w)
  PROVE  SendInv'
<1>1. WorkerInv BY DEF SendInv
<1>2. At(w, "reading") /\ turn' = turn /\ history' = history /\ SendsNothing
      /\ (Go(w, "acknowledging") \/ Go(w, "done"))
  BY DEF RunCommand, EndReading, Reading, outbox, SendsNothing
<1>3. "acknowledging" \notin Answering /\ "done" \notin Answering
  BY DEF Answering, LoggingPcs
<1> QED BY <1>1, <1>2, <1>3, ReadingOf, GoStep

LEMMA AcknowledgeStep ==
  ASSUME SendInv, NEW w \in Workers, AcknowledgeCommand(w)
  PROVE  SendInv'
<1>1. WorkerInv /\ HistoryInv BY DEF SendInv
<1>2. worker[w].pc = "acknowledging" /\ history' = history /\ SendsNothing
  BY DEF AcknowledgeCommand, At, outbox, SendsNothing
<1>3. worker[w].pc \notin LoggingPcs BY <1>2 DEF LoggingPcs
<1>4. Continues(w) \/ Returns(w)
  <2>1. CASE Retry(w) BY <1>1, <2>1, RetryReturns
  <2>2. CASE ~Retry(w)
    <3>1. worker' = [worker EXCEPT ![w].pc = "reading", ![w].pos = worker[w].pos + 1]
          /\ turn' = turn
      BY <2>2 DEF AcknowledgeCommand
    <3>2. OnlyWorker(w) /\ worker'[w].turn = worker[w].turn /\ worker'[w].pc = "reading"
          /\ worker'[w].pos = worker[w].pos + 1 /\ worker'[w].batch = worker[w].batch
      BY <1>1, <3>1 DEF WorkerInv, OnlyWorker, LoopFields
    <3>3. Busy(w) BY <1>1, <1>2 DEF WorkerInv
    <3>4. "reading" \notin Answering BY DEF Answering, LoggingPcs
    <3> QED BY <3>1, <3>2, <3>3, <3>4 DEF Continues, Busy
  <2> QED BY <2>1, <2>2
<1>5. HistoryInv' /\ RowsGrow BY <1>1, <1>2, UnchangedRows
<1> QED BY <1>2, <1>3, <1>4, <1>5, TurnStep

LEMMA StoreStep ==
  ASSUME SendInv, NEW w \in Workers, StoreAndGate(w)
  PROVE  SendInv'
<1>1. WorkerInv /\ HistoryInv BY DEF SendInv
<1>2. At(w, "reading") /\ turn' = turn /\ SendsNothing /\ worker[w].batch # <<>>
      /\ (Go(w, "done") \/ Go(w, "preparing"))
  BY DEF StoreAndGate, outbox, SendsNothing
<1>3. Busy(w) /\ worker[w].pc \notin LoggingPcs /\ worker[w].pc # "idle"
      /\ Phone(w) \in Phones
  BY <1>1, <1>2, ReadingOf
<1>4. Continues(w) BY <1>1, <1>2, <1>3, GoContinues
<1>5. worker[w].turn \in Turns /\ worker[w].batch \in Seq(In(worker[w].turn))
  BY <1>3 DEF Busy
<1>6. Inbounds(worker[w].batch) \in Seq(HistoryRow)
  <2>1. \A i \in 1 .. Len(worker[w].batch) : worker[w].batch[i] \in In(worker[w].turn)
    BY <1>5
  <2>2. \A i \in 1 .. Len(worker[w].batch) : Inbound(worker[w].batch[i]) \in HistoryRow
    BY <1>5, <2>1, InboundRow
  <2>3. Len(worker[w].batch) \in Nat BY <1>5
  <2>4. Inbounds(worker[w].batch) \in [1 .. Len(worker[w].batch) -> HistoryRow]
    BY <2>2 DEF Inbounds
  <2> QED BY <2>3, <2>4, SeqDef
<1>7. PICK p \in Phones, rows \in Seq(HistoryRow) :
        p = Phone(w) /\ rows = Inbounds(worker[w].batch)
  BY <1>3, <1>6
<1>8. history' = [history EXCEPT ![p] = history[p] \o rows] BY <1>7 DEF StoreAndGate
<1>9. HistoryInv' /\ RowsGrow BY <1>1, <1>8, RowsAdded
<1> QED BY <1>2, <1>3, <1>4, <1>9, TurnStep
-----------------------------------------------------------------------------
LEMMA PrepareStep ==
  ASSUME SendInv, NEW w \in Workers,
         FailMedia(w) \/ \E decision \in Decisions : Decide(w, decision)
  PROVE  SendInv'
<1>1. WorkerInv /\ HistoryInv BY DEF SendInv
<1>2. worker[w].pc = "preparing" /\ history' = history /\ turn' = turn /\ SendsNothing
  BY DEF FailMedia, Decide, At, outbox, SendsNothing
<1>3. worker[w].pc \notin LoggingPcs /\ worker[w].pc \in Answering
  BY <1>2 DEF LoggingPcs, Answering
<1>4. Busy(w) BY <1>1, <1>2 DEF WorkerInv
<1>5. \/ worker' = [worker EXCEPT ![w].pc = "apologising", ![w].handoff = "yes"]
      \/ \E h, i : worker' = [worker EXCEPT ![w].pc = "answering",
                                            ![w].handoff = h, ![w].photos = i]
  BY DEF FailMedia, Decide
<1>6. OnlyWorker(w) /\ worker'[w].turn = worker[w].turn
      /\ worker'[w].pc \in {"apologising", "answering"}
      /\ worker'[w].pos = worker[w].pos /\ worker'[w].batch = worker[w].batch
  BY ZenonT(40), <1>1, <1>5 DEF WorkerInv, OnlyWorker, LoopFields
<1>7. Continues(w) BY <1>2, <1>3, <1>4, <1>6 DEF Continues, Busy
<1>8. HistoryInv' /\ RowsGrow BY <1>1, <1>2, UnchangedRows
<1> QED BY <1>2, <1>3, <1>7, <1>8, TurnStep

LEMMA SkipAnswerStep ==
  ASSUME SendInv, NEW w \in Workers, NEW k \in Answers, SkipAnswer(w, k)
  PROVE  SendInv'
<1>1. WorkerInv BY DEF SendInv
<1>2. worker[w].pc \in Answering \ LoggingPcs /\ worker[w].pc # "idle"
  BY DEF SkipAnswer, Sending, SendPcs, Answering, LoggingPcs
<1>3. worker[w].batch # <<>> BY <1>1, <1>2 DEF WorkerInv, Busy
<1>4. /\ AfterAnswer(w, Remaining(w, k)) /\ turn' = turn /\ history' = history
      /\ SendsNothing
  BY DEF SkipAnswer, outbox, SendsNothing
<1>5. Continues(w) BY <1>1, <1>2, <1>3, <1>4, AfterContinues
<1>6. HistoryInv' /\ RowsGrow BY <1>4, UnchangedRows DEF SendInv
<1> QED BY <1>2, <1>4, <1>5, <1>6, TurnStep

LEMMA HandOverStep ==
  ASSUME SendInv, NEW w \in Workers,
         ClaimHandoff(w) \/ (\E a \in Admins : NotifyAdmin(w, a)) \/ EndNotifying(w)
  PROVE  SendInv'
<1>1. WorkerInv /\ HistoryInv BY DEF SendInv
<1>2. worker[w].pc \in {"handing over", "notifying"} /\ history' = history
      /\ turn' = turn /\ SendsNothing
  BY DEF ClaimHandoff, NotifyAdmin, EndNotifying, At, outbox, SendsNothing
<1>3. worker[w].pc \notin LoggingPcs /\ worker[w].pc # "idle" BY <1>2 DEF LoggingPcs
<1>4. Busy(w) BY <1>1, <1>3 DEF WorkerInv
<1>5. \/ \E s : worker' = [worker EXCEPT ![w].pc = "notifying", ![w].admins = s]
      \/ \E s : worker' = [worker EXCEPT ![w].admins = s]
      \/ worker' = [worker EXCEPT ![w].pc = "done"]
  BY DEF ClaimHandoff, NotifyAdmin, EndNotifying, Go
<1>6. OnlyWorker(w) /\ worker'[w].turn = worker[w].turn
      /\ worker'[w].pc \in {"handing over", "notifying", "done"}
      /\ worker'[w].pos = worker[w].pos /\ worker'[w].batch = worker[w].batch
  BY ZenonT(40), <1>1, <1>2, <1>5 DEF WorkerInv, OnlyWorker, LoopFields
<1>7. worker'[w].pc \notin Answering BY <1>6 DEF Answering, LoggingPcs
<1>8. Continues(w) BY <1>2, <1>4, <1>6, <1>7 DEF Continues, Busy
<1>9. HistoryInv' /\ RowsGrow BY <1>1, <1>2, UnchangedRows
<1> QED BY <1>2, <1>3, <1>8, <1>9, TurnStep

(* Operators, and steps that change nothing.                               *)
LEMMA PanelStep ==
  ASSUME SendInv, worker' = worker, turn' = turn, history' = history, SendsNothing
  PROVE  SendInv'
<1>1. WorkerInv' BY DEF SendInv, WorkerInv, Busy
<1>2. HistoryInv' /\ RowsGrow BY UnchangedRows DEF SendInv
<1>3. KeepsLogging BY DEF KeepsLogging
<1> QED BY <1>1, <1>2, <1>3, QuietStep DEF SendInv, SendsNothing
-----------------------------------------------------------------------------
LEMMA InitSend == Init => SendInv
<1> SUFFICES ASSUME Init PROVE SendInv OBVIOUS
<1>1. worker = [w \in Workers |-> Idle] BY DEF Init
<1>2. \A w \in Workers : worker[w].pc = "idle" /\ DOMAIN worker[w] = LoopFields
  BY <1>1 DEF Idle, LoopFields
<1>3. turn = [t \in Turns |-> Turn("pending", 0)] BY DEF Init
<1>4. \A t \in Turns : DOMAIN turn[t] = {"status", "attempts"} BY <1>3 DEF Turn
<1>5. WorkerInv BY <1>1, <1>2, <1>3, <1>4 DEF WorkerInv
<1>6. HistoryInv BY DEF Init, HistoryInv
<1>7. delivered = [k \in Keys |-> 0] /\ unlogged = [k \in Keys |-> 0] BY DEF Init, Keys
<1>8. AnswerInv BY <1>7 DEF AnswerInv, Keys
<1> QED BY <1>5, <1>6, <1>8 DEF SendInv

LEMMA NextSend == SendInv /\ [Next]_vars => SendInv'
<1> SUFFICES ASSUME SendInv, [Next]_vars PROVE SendInv' OBVIOUS
<1>1. ASSUME NEW w \in Workers, WorkerStep(w) PROVE SendInv'
  <2>1. ASSUME NEW k \in Answers, SkipAnswer(w, k) \/ SendAnswer(w, k) \/ FailAnswer(w, k)
                                   \/ LogAnswer(w, k)
        PROVE  SendInv'
    BY <2>1, SkipAnswerStep, SendStep, FailStep, LogStep
  <2>2. ASSUME NEW t \in Turns, Claim(w, t) PROVE SendInv' BY <2>2, ClaimStep
  <2>3. CASE Finish(w) BY <2>3, FinishStep
  <2>4. CASE SkipIgnored(w) \/ RefuseCommand(w) BY <2>4, SkipIgnoredStep
  <2>5. CASE TakeCustomer(w) BY <2>5, TakeCustomerStep
  <2>6. CASE HoldEarlier(w) BY <2>6, HoldEarlierStep
  <2>7. CASE RecordManual(w) BY <2>7, RecordManualStep
  <2>8. CASE RunCommand(w) \/ EndReading(w) BY <2>8, CommandStep
  <2>9. CASE AcknowledgeCommand(w) BY <2>9, AcknowledgeStep
  <2>10. CASE StoreAndGate(w) BY <2>10, StoreStep
  <2>11. CASE FailMedia(w) \/ \E decision \in Decisions : Decide(w, decision)
    BY <2>11, PrepareStep
  <2>12. CASE ClaimHandoff(w) \/ (\E a \in Admins : NotifyAdmin(w, a)) \/ EndNotifying(w)
    BY <2>12, HandOverStep
  <2> QED BY <1>1, <2>1, <2>2, <2>3, <2>4, <2>5, <2>6, <2>7, <2>8, <2>9, <2>10, <2>11,
             <2>12 DEF WorkerStep
<1>2. ASSUME NEW w \in Workers, Crash(w) PROVE SendInv' BY <1>2, CrashStep
<1>3. ASSUME NEW action, NEW p, PanelCommand([action |-> action, target |-> p]) PROVE SendInv'
  BY <1>3, PanelStep DEF PanelCommand, SendsNothing
<1>4. ASSUME NEW m, SetMode(m) PROVE SendInv'
  BY <1>4, PanelStep DEF SetMode, SendsNothing
<1>5. CASE UNCHANGED vars BY <1>5, PanelStep DEF vars, SendsNothing
<1> QED BY <1>1, <1>2, <1>3, <1>4, <1>5 DEF Next

(* However turns are retried, workers crash and calls fail, a message is   *)
(* answered at most once more than answers were delivered without a row    *)
(* (_send_customer and _send_image look for the row before they send).     *)
THEOREM Answered == Spec => []AnsweredOnce
<1>1. SendInv => AnsweredOnce BY DEF SendInv, AnswerInv, AnsweredOnce, Keys
<1> QED BY <1>1, InitSend, NextSend, PTL DEF Spec
-----------------------------------------------------------------------------
(* What a turn leaves in the history, and whom it answers.  A turn is read *)
(* message by message, then answered; its worker may leave it at any time. *)
Early == {"reading", "acknowledging"}
Later == Answering \cup {"handing over", "notifying", "done"}
AfterTexts == Later \ {"preparing", "answering", "apologising"}

AddsRows(p, rows) == history' = [history EXCEPT ![p] = history[p] \o rows]
Sends(w) ==
  \/ delivered' = delivered /\ answered' = answered
  \/ \E k \in Answers : Sending(w, k) /\ Deliver(w, k)
Stays(w, pc) ==
  /\ OnlyWorker(w) /\ worker'[w].pc = pc /\ worker'[w].turn = worker[w].turn
  /\ worker'[w].pos = worker[w].pos /\ worker'[w].batch = worker[w].batch
  /\ turn' = turn
Silently == UNCHANGED <<delivered, answered>>

Reads(w, batch) ==
  /\ At(w, "reading") /\ Reading(w) /\ OnlyWorker(w)
  /\ worker'[w].pc = "reading" /\ worker'[w].turn = worker[w].turn
  /\ worker'[w].pos = worker[w].pos + 1 /\ worker'[w].batch = batch
  /\ Silently /\ UNCHANGED <<turn, held>>
Confirms(w) ==
  /\ At(w, "acknowledging") /\ OnlyWorker(w)
  /\ worker'[w].pc = "reading" /\ worker'[w].turn = worker[w].turn
  /\ worker'[w].pos = worker[w].pos + 1 /\ worker'[w].batch = worker[w].batch
  /\ Silently /\ UNCHANGED <<turn, history, held>>
Leaves(w) ==
  /\ worker[w].pc # "idle" /\ OnlyWorker(w) /\ worker'[w].pc = "idle"
  /\ \E s : /\ turn' = [turn EXCEPT ![worker[w].turn].status = s]
            /\ s = "done" => worker[w].pc = "done"
  /\ Sends(w) /\ UNCHANGED <<history, held>>
GoesOn(w, pc) ==
  /\ worker[w].pc \in Later /\ pc \in Later /\ Stays(w, pc)
  /\ pc \in Answering => worker[w].pc \in Answering
  /\ Sends(w) /\ UNCHANGED held
  /\ \A k \in Answers : Logging(w, k)' => Sending(w, k) /\ Deliver(w, k)
  /\ pc \in AfterTexts => \/ worker[w].pc \in AfterTexts
                          \/ Sending(w, "text") /\ Deliver(w, "text")
                          \/ AlreadySent(Phone(w), "text", Last(w))
  /\ \/ history' = history
     \/ \E k \in Answers : /\ Logging(w, k)
                           /\ history' = [history EXCEPT ![Phone(w)] =
                                            Append(history[Phone(w)], Outbound(k, Last(w)))]
Elsewhere == UNCHANGED <<turn, worker, history, delivered, answered, held>>

LEMMA ReadingReads ==
  ASSUME WorkerInv, NEW w \in Workers, At(w, "reading"), Reading(w),
         NEW batch, NextMessage(w, batch), Silently, UNCHANGED <<turn, held>>
  PROVE  Reads(w, batch)
<1>1. worker' = [worker EXCEPT ![w].pos = worker[w].pos + 1, ![w].batch = batch]
  BY DEF NextMessage
<1>2. OnlyWorker(w) /\ worker'[w].turn = worker[w].turn /\ worker'[w].pc = "reading"
      /\ worker'[w].pos = worker[w].pos + 1 /\ worker'[w].batch = batch
  BY <1>1 DEF WorkerInv, OnlyWorker, LoopFields, At
<1> QED BY <1>2 DEF Reads

LEMMA GoStays ==
  ASSUME WorkerInv, NEW w \in Workers, NEW pc, Go(w, pc), turn' = turn
  PROVE  Stays(w, pc)
<1>1. worker' = [worker EXCEPT ![w].pc = pc] BY DEF Go
<1> QED BY <1>1 DEF WorkerInv, OnlyWorker, LoopFields, Stays

LEMMA IdleLeaves ==
  ASSUME WorkerInv, NEW w \in Workers, worker' = [worker EXCEPT ![w] = Idle]
  PROVE  OnlyWorker(w) /\ worker'[w].pc = "idle"
BY DEF WorkerInv, OnlyWorker, LoopFields, Idle

LEMMA RetryLeaves ==
  ASSUME WorkerInv, NEW w \in Workers, worker[w].pc # "idle", Retry(w), Sends(w),
         UNCHANGED <<history, held>>
  PROVE  Leaves(w)
<1>1. worker' = [worker EXCEPT ![w] = Idle] BY DEF Retry
<1>2. OnlyWorker(w) /\ worker'[w].pc = "idle" BY <1>1, IdleLeaves
<1> DEFINE s == IF turn[worker[w].turn].attempts < MaxAttempts THEN "pending" ELSE "failed"
<1>3. turn' = [turn EXCEPT ![worker[w].turn].status = s] /\ s # "done" BY DEF Retry
<1> HIDE DEF s
<1> QED BY <1>2, <1>3 DEF Leaves

LEMMA LeaveSteps ==
  ASSUME WorkerInv, NEW w \in Workers,
         Finish(w) \/ Crash(w) \/ \E k \in Answers : FailAnswer(w, k)
  PROVE  Leaves(w)
<1>1. CASE Finish(w)
  <2>1. worker' = [worker EXCEPT ![w] = Idle] /\ worker[w].pc = "done"
        /\ turn' = [turn EXCEPT ![worker[w].turn].status = "done"]
        /\ UNCHANGED <<history, held, delivered, answered>>
    BY <1>1 DEF Finish, At, outbox, records
  <2>2. OnlyWorker(w) /\ worker'[w].pc = "idle" BY <2>1, IdleLeaves
  <2> QED BY <2>1, <2>2 DEF Leaves, Sends
<1>2. CASE Crash(w)
  BY <1>2, RetryLeaves DEF Crash, At, records, Sends
<1>3. ASSUME NEW k \in Answers, FailAnswer(w, k) PROVE Leaves(w)
  <2>1. worker[w].pc # "idle" BY <1>3 DEF FailAnswer, Sending, SendPcs
  <2>2. Sends(w) BY <1>3 DEF FailAnswer, outbox, Sends
  <2> QED BY <1>3, <2>1, <2>2, RetryLeaves DEF FailAnswer, records
<1> QED BY <1>1, <1>2, <1>3

LEMMA AcknowledgeKinds ==
  ASSUME WorkerInv, NEW w \in Workers, AcknowledgeCommand(w)
  PROVE  Confirms(w) \/ Leaves(w)
<1>1. At(w, "acknowledging") /\ Silently /\ UNCHANGED <<history, held>>
  BY DEF AcknowledgeCommand, outbox, records, Silently
<1>2. CASE Retry(w) BY <1>1, <1>2, RetryLeaves DEF At, Sends, Silently
<1>3. CASE ~Retry(w)
  <2>1. worker' = [worker EXCEPT ![w].pc = "reading", ![w].pos = worker[w].pos + 1]
        /\ turn' = turn
    BY <1>3 DEF AcknowledgeCommand
  <2>2. OnlyWorker(w) /\ worker'[w].turn = worker[w].turn /\ worker'[w].pc = "reading"
        /\ worker'[w].pos = worker[w].pos + 1 /\ worker'[w].batch = worker[w].batch
    BY <2>1 DEF WorkerInv, OnlyWorker, LoopFields
  <2> QED BY <1>1, <2>1, <2>2 DEF Confirms
<1> QED BY <1>2, <1>3

LEMMA PrepareGoesOn ==
  ASSUME WorkerInv, NEW w \in Workers,
         FailMedia(w) \/ \E decision \in Decisions : Decide(w, decision)
  PROVE  \E pc : GoesOn(w, pc)
<1>1. worker[w].pc = "preparing" /\ UNCHANGED <<turn, history, held, delivered, answered>>
  BY DEF FailMedia, Decide, At, outbox, records
<1>2. \/ worker' = [worker EXCEPT ![w].pc = "apologising", ![w].handoff = "yes"]
      \/ \E h, i : worker' = [worker EXCEPT ![w].pc = "answering",
                                            ![w].handoff = h, ![w].photos = i]
  BY DEF FailMedia, Decide
<1>3. OnlyWorker(w) /\ worker'[w].turn = worker[w].turn
      /\ worker'[w].pc \in {"apologising", "answering"}
      /\ worker'[w].pos = worker[w].pos /\ worker'[w].batch = worker[w].batch
  BY ZenonT(40), <1>2 DEF WorkerInv, OnlyWorker, LoopFields
<1>4. ASSUME NEW pc \in {"apologising", "answering"}, pc = worker'[w].pc PROVE GoesOn(w, pc)
  <2>1. pc \in Answering \ LoggingPcs /\ worker[w].pc \in Answering
    BY <1>1 DEF Answering, LoggingPcs
  <2>2. \A k \in Answers : ~Logging(w, k)'
    BY <1>4, <2>1, LoggingPc DEF Logging, At, LogPc
  <2>3. Stays(w, pc) BY <1>1, <1>3, <1>4 DEF Stays
  <2> QED BY <1>1, <1>4, <2>1, <2>2, <2>3 DEF GoesOn, Later, AfterTexts, Sends
<1> QED BY <1>3, <1>4

LEMMA HandOverGoesOn ==
  ASSUME WorkerInv, NEW w \in Workers,
         ClaimHandoff(w) \/ (\E a \in Admins : NotifyAdmin(w, a)) \/ EndNotifying(w)
  PROVE  \E pc : GoesOn(w, pc)
<1>1. worker[w].pc \in {"handing over", "notifying"} /\ UNCHANGED <<turn, history, held>>
      /\ delivered' = delivered /\ answered' = answered
  BY DEF ClaimHandoff, NotifyAdmin, EndNotifying, At, outbox, records
<1>2. \/ \E s : worker' = [worker EXCEPT ![w].pc = "notifying", ![w].admins = s]
      \/ \E s : worker' = [worker EXCEPT ![w].admins = s]
      \/ worker' = [worker EXCEPT ![w].pc = "done"]
  BY DEF ClaimHandoff, NotifyAdmin, EndNotifying, Go
<1>3. Stays(w, worker'[w].pc) /\ worker'[w].pc \in {"handing over", "notifying", "done"}
  BY ZenonT(40), <1>1, <1>2 DEF WorkerInv, OnlyWorker, LoopFields, Stays
<1>4. ASSUME NEW pc \in {"handing over", "notifying", "done"}, Stays(w, pc)
      PROVE  GoesOn(w, pc)
  <2>1. pc \notin Answering BY DEF Answering, LoggingPcs
  <2>2. \A k \in Answers : ~Logging(w, k)'
    BY <1>4, <2>1 DEF Logging, At, LogPc, Stays, Answering, LoggingPcs
  <2>3. worker[w].pc \in AfterTexts BY <1>1 DEF AfterTexts, Later
  <2> QED BY <1>1, <1>4, <2>1, <2>2, <2>3 DEF GoesOn, Later, AfterTexts, Sends
<1> QED BY <1>3, <1>4

LEMMA AnswerGoesOn ==
  ASSUME WorkerInv, NEW w \in Workers, NEW k \in Answers,
         SkipAnswer(w, k) \/ SendAnswer(w, k) \/ LogAnswer(w, k)
  PROVE  \E pc : GoesOn(w, pc)
<1>1. /\ AfterPcs \subseteq AfterTexts /\ AfterPcs \subseteq Later
      /\ LogPc(k) \in AfterTexts /\ LogPc(k) \in Later
      /\ \A j : LogPc(j) \notin AfterPcs
  BY DEF AfterPcs, AfterTexts, Later, Answering, LoggingPcs, LogPc
<1>2. ASSUME Sending(w, k)
      PROVE  /\ worker[w].pc \in Later /\ worker[w].pc \in Answering
             /\ worker[w].pc \in AfterTexts \/ k = "text"
  BY <1>2 DEF Sending, SendPcs, Later, Answering, AfterTexts, LoggingPcs
<1>3. ASSUME AfterAnswer(w, Remaining(w, k)), turn' = turn
      PROVE  /\ Stays(w, worker'[w].pc) /\ worker'[w].pc \in AfterPcs
             /\ \A j : ~Logging(w, j)'
  <2>1. Stays(w, worker'[w].pc) /\ worker'[w].pc \in AfterPcs
    BY <1>3, AfterMoves DEF Stays
  <2> QED BY <1>1, <2>1 DEF Logging, At, LogPc
<1>4. CASE SkipAnswer(w, k)
  <2>1. /\ AfterAnswer(w, Remaining(w, k)) /\ UNCHANGED <<turn, history, held>>
        /\ delivered' = delivered /\ answered' = answered /\ Sending(w, k)
    BY <1>4 DEF SkipAnswer, outbox, records
  <2>2. worker[w].pc \in AfterTexts \/ AlreadySent(Phone(w), "text", Last(w))
    BY <1>2, <1>4, AdminAssumption DEF SkipAnswer
  <2>3. GoesOn(w, worker'[w].pc)
    BY <1>1, <1>2, <1>3, <2>1, <2>2 DEF GoesOn, Sends
  <2> QED BY <2>3
<1>5. CASE SendAnswer(w, k)
  <2>1. Stays(w, LogPc(k)) /\ UNCHANGED <<history, held>> /\ Deliver(w, k) /\ Sending(w, k)
    BY <1>5, GoStays DEF SendAnswer, records
  <2>2. Logging(w, k)' BY <1>5, <2>1, GoLogging DEF SendAnswer
  <2>3. ASSUME NEW j \in Answers, Logging(w, j)' PROVE j = k
    <3>1. j = "text" <=> k = "text" BY <2>2, <2>3 DEF Logging, LogPc, At
    <3>2. j # "text" => j = Head(worker'[w].photos) BY <2>3 DEF Logging, AtHand, Answers
    <3>3. k # "text" => k = Head(worker'[w].photos) BY <2>2 DEF Logging, AtHand, Answers
    <3> QED BY <3>1, <3>2, <3>3
  <2>4. LogPc(k) \in Answering BY LoggingPc DEF Answering
  <2>5. worker[w].pc \in AfterTexts \/ (Sending(w, "text") /\ Deliver(w, "text"))
    BY <1>2, <2>1
  <2>6. \A j \in Answers : Logging(w, j)' => Sending(w, j) /\ Deliver(w, j)
    BY <2>1, <2>3
  <2>7. GoesOn(w, LogPc(k))
    BY <1>1, <1>2, <2>1, <2>4, <2>5, <2>6 DEF GoesOn, Sends
  <2> QED BY <2>7
<1>6. CASE LogAnswer(w, k)
  <2>1. /\ AfterAnswer(w, Remaining(w, k)) /\ UNCHANGED <<turn, held>> /\ Logging(w, k)
        /\ delivered' = delivered /\ answered' = answered
        /\ history' = [history EXCEPT ![Phone(w)] =
                         Append(history[Phone(w)], Outbound(k, Last(w)))]
    BY <1>6 DEF LogAnswer, outbox, records
  <2>2. worker[w].pc \in AfterTexts /\ worker[w].pc \in Later /\ worker[w].pc \in Answering
    BY <1>1, <2>1, LoggingPc DEF Logging, At, Answering
  <2>3. GoesOn(w, worker'[w].pc)
    BY <1>1, <1>3, <2>1, <2>2 DEF GoesOn, Sends
  <2> QED BY <2>3
<1> QED BY <1>4, <1>5, <1>6
-----------------------------------------------------------------------------
Passes(w) ==
  /\ Reads(w, worker[w].batch) /\ history' = history
  /\ \/ Kind[Current(w)] \in {"ignored", "command"}
     \/ Kind[Current(w)] = "manual" /\ Recorded(Phone(w), Current(w))
Takes(w) ==
  /\ Reads(w, Append(worker[w].batch, Current(w))) /\ history' = history
  /\ Kind[Current(w)] \in {"text", "media"}
RecordsManual(w) ==
  /\ Reads(w, <<>>) /\ worker[w].batch = <<>> /\ Kind[Current(w)] = "manual"
  /\ AddsRows(Phone(w), <<ManualRow(Current(w))>>)
HoldsHead(w) ==
  /\ At(w, "reading") /\ Reading(w) /\ worker[w].batch # <<>> /\ OnlyWorker(w)
  /\ worker'[w].pc = "reading" /\ worker'[w].turn = worker[w].turn
  /\ worker'[w].pos = worker[w].pos /\ worker'[w].batch = Tail(worker[w].batch)
  /\ \/ history' = history /\ Recorded(Phone(w), Head(worker[w].batch))
     \/ AddsRows(Phone(w), <<Inbound(Head(worker[w].batch))>>)
  /\ Silently /\ UNCHANGED <<turn, held>>
Obeys(w) ==
  /\ At(w, "reading") /\ Reading(w) /\ Kind[Current(w)] = "command"
  /\ Stays(w, "acknowledging") /\ Silently /\ UNCHANGED <<history, held>>
ReadsNothing(w) ==
  /\ At(w, "reading") /\ ~Reading(w) /\ worker[w].batch = <<>>
  /\ Stays(w, "done") /\ Silently /\ UNCHANGED <<history, held>>
StoresBatch(w) ==
  /\ At(w, "reading") /\ ~Reading(w) /\ worker[w].batch # <<>>
  /\ AddsRows(Phone(w), Inbounds(worker[w].batch)) /\ Silently
  /\ \/ Stays(w, "done") /\ held' = held \cup {worker[w].turn}
     \/ Stays(w, "preparing") /\ held' = held

TurnKinds(w) ==
  \/ \E t \in Turns : Claim(w, t)
  \/ Passes(w) \/ Takes(w) \/ RecordsManual(w) \/ HoldsHead(w)
  \/ Obeys(w) \/ Confirms(w) \/ ReadsNothing(w) \/ StoresBatch(w)
  \/ \E pc : GoesOn(w, pc)
  \/ Leaves(w)

LEMMA AppendRow ==
  ASSUME NEW S, NEW s \in Seq(S), NEW x
  PROVE  Append(s, x) = s \o <<x>>
<1>1. s \in Seq(S \cup {x}) /\ x \in S \cup {x} OBVIOUS
<1> QED BY <1>1, AppendIsConcat

LEMMA ReadKinds ==
  ASSUME SendInv, NEW w \in Workers,
         \/ SkipIgnored(w) \/ RefuseCommand(w) \/ TakeCustomer(w) \/ RecordManual(w)
         \/ HoldEarlier(w)
  PROVE  Passes(w) \/ Takes(w) \/ RecordsManual(w) \/ HoldsHead(w)
<1>1. WorkerInv /\ HistoryInv BY DEF SendInv
<1>2. At(w, "reading") /\ Reading(w) /\ Silently /\ UNCHANGED <<turn, held>>
  BY DEF SkipIgnored, RefuseCommand, TakeCustomer, RecordManual, HoldEarlier, Reading,
         Silently, outbox, records
<1>3. history[Phone(w)] \in Seq(HistoryRow) BY <1>1, <1>2, ReadingOf DEF HistoryInv
<1>4. CASE SkipIgnored(w) \/ RefuseCommand(w)
  <2>1. Reads(w, worker[w].batch)
    BY <1>1, <1>2, <1>4, ReadingReads DEF SkipIgnored, RefuseCommand
  <2> QED BY <1>4, <2>1 DEF SkipIgnored, RefuseCommand, Passes
<1>5. CASE TakeCustomer(w)
  <2>1. Reads(w, Append(worker[w].batch, Current(w)))
    BY <1>1, <1>2, <1>5, ReadingReads DEF TakeCustomer
  <2> QED BY <1>5, <2>1 DEF TakeCustomer, Takes
<1>6. CASE RecordManual(w)
  <2>1. Reads(w, <<>>) BY <1>1, <1>2, <1>6, ReadingReads DEF RecordManual
  <2>2. history' = [history EXCEPT ![Phone(w)] =
                      Append(history[Phone(w)], ManualRow(Current(w)))]
    BY <1>6 DEF RecordManual
  <2>3. AddsRows(Phone(w), <<ManualRow(Current(w))>>)
    BY <1>3, <2>2, AppendRow DEF AddsRows
  <2> QED BY <1>6, <2>1, <2>3 DEF RecordManual, RecordsManual
<1>7. CASE HoldEarlier(w)
  <2>1. worker' = [worker EXCEPT ![w].batch = Tail(worker[w].batch)] BY <1>7 DEF HoldEarlier
  <2>2. OnlyWorker(w) /\ worker'[w].turn = worker[w].turn /\ worker'[w].pc = "reading"
        /\ worker'[w].pos = worker[w].pos /\ worker'[w].batch = Tail(worker[w].batch)
    BY <1>1, <1>2, <2>1 DEF WorkerInv, OnlyWorker, LoopFields, At
  <2>3. \/ history' = history /\ Recorded(Phone(w), Head(worker[w].batch))
        \/ history' = [history EXCEPT ![Phone(w)] =
                         Append(history[Phone(w)], Inbound(Head(worker[w].batch)))]
    BY <1>7 DEF HoldEarlier
  <2>4. \/ history' = history /\ Recorded(Phone(w), Head(worker[w].batch))
        \/ AddsRows(Phone(w), <<Inbound(Head(worker[w].batch))>>)
    BY <1>3, <2>3, AppendRow DEF AddsRows
  <2> QED BY <1>2, <1>7, <2>2, <2>4 DEF HoldEarlier, HoldsHead
<1> QED BY <1>4, <1>5, <1>6, <1>7

LEMMA EndKinds ==
  ASSUME SendInv, NEW w \in Workers, RunCommand(w) \/ EndReading(w) \/ StoreAndGate(w)
  PROVE  Obeys(w) \/ ReadsNothing(w) \/ StoresBatch(w)
<1>1. WorkerInv BY DEF SendInv
<1>2. turn' = turn /\ Silently BY DEF RunCommand, EndReading, StoreAndGate, outbox, Silently
<1>3. CASE RunCommand(w)
  BY <1>1, <1>2, <1>3, GoStays DEF RunCommand, Reading, Obeys, records
<1>4. CASE EndReading(w)
  BY <1>1, <1>2, <1>4, GoStays DEF EndReading, ReadsNothing, records
<1>5. CASE StoreAndGate(w)
  <2>1. AddsRows(Phone(w), Inbounds(worker[w].batch)) BY <1>5 DEF StoreAndGate, AddsRows
  <2> QED BY <1>1, <1>2, <1>5, <2>1, GoStays DEF StoreAndGate, StoresBatch
<1> QED BY <1>3, <1>4, <1>5

LEMMA StepKinds ==
  ASSUME SendInv, [Next]_vars
  PROVE  Elsewhere \/ \E w \in Workers : TurnKinds(w)
<1>1. WorkerInv BY DEF SendInv
<1>2. ASSUME NEW w \in Workers, WorkerStep(w) PROVE TurnKinds(w)
  <2>1. CASE Finish(w) \/ \E k \in Answers : FailAnswer(w, k)
    BY <1>1, <2>1, LeaveSteps DEF TurnKinds
  <2>2. CASE \/ SkipIgnored(w) \/ RefuseCommand(w) \/ TakeCustomer(w) \/ RecordManual(w)
             \/ HoldEarlier(w)
    BY <2>2, ReadKinds DEF TurnKinds
  <2>3. CASE RunCommand(w) \/ EndReading(w) \/ StoreAndGate(w)
    BY <2>3, EndKinds DEF TurnKinds
  <2>4. CASE AcknowledgeCommand(w) BY <1>1, <2>4, AcknowledgeKinds DEF TurnKinds
  <2>5. CASE FailMedia(w) \/ \E decision \in Decisions : Decide(w, decision)
    BY <1>1, <2>5, PrepareGoesOn DEF TurnKinds
  <2>6. CASE ClaimHandoff(w) \/ (\E a \in Admins : NotifyAdmin(w, a)) \/ EndNotifying(w)
    BY <1>1, <2>6, HandOverGoesOn DEF TurnKinds
  <2>7. CASE \E k \in Answers : SkipAnswer(w, k) \/ SendAnswer(w, k) \/ LogAnswer(w, k)
    BY <1>1, <2>7, AnswerGoesOn DEF TurnKinds
  <2>8. CASE \E t \in Turns : Claim(w, t) BY <2>8 DEF TurnKinds
  <2> QED BY <1>2, <2>1, <2>2, <2>3, <2>4, <2>5, <2>6, <2>7, <2>8 DEF WorkerStep
<1>3. ASSUME NEW w \in Workers, Crash(w) PROVE TurnKinds(w)
  BY <1>1, <1>3, LeaveSteps DEF TurnKinds
<1>4. ASSUME NEW action \in Actions, NEW p \in Targets,
             PanelCommand([action |-> action, target |-> p])
      PROVE  Elsewhere
  BY <1>4 DEF PanelCommand, Elsewhere, records
<1>5. ASSUME NEW m, SetMode(m) PROVE Elsewhere BY <1>5 DEF SetMode, Elsewhere, records
<1>6. CASE UNCHANGED vars BY <1>6 DEF vars, Elsewhere
<1> QED BY <1>2, <1>3, <1>4, <1>5, <1>6 DEF Next
-----------------------------------------------------------------------------
InSeq(m, s) == \E j \in 1 .. Len(s) : s[j] = m

(* The rows that a step of a worker adds to the history of its contact.    *)
RowOf(w, row) ==
  \/ \E m \in In(worker[w].turn) : InSeq(m, worker[w].batch) /\ row = Inbound(m)
  \/ RecordsManual(w) /\ row = ManualRow(Current(w))
  \/ \E k \in Answers : Logging(w, k) /\ row = Outbound(k, Last(w))
Longer ==
  \A p \in Phones : /\ Len(history[p]) <= Len(history'[p])
                    /\ \A i \in 1 .. Len(history[p]) : history'[p][i] = history[p][i]
NewRows(w) ==
  \A p \in Phones : \A i \in 1 .. Len(history'[p]) :
    i > Len(history[p]) => /\ worker[w].pc # "idle" /\ p = Phone(w)
                           /\ RowOf(w, history'[p][i])

LEMMA BatchRows ==
  ASSUME WorkerInv, NEW w \in Workers, At(w, "reading")
  PROVE  /\ Inbounds(worker[w].batch) \in Seq(HistoryRow)
         /\ Len(worker[w].batch) \in Nat
         /\ Len(Inbounds(worker[w].batch)) = Len(worker[w].batch)
         /\ \A i \in 1 .. Len(worker[w].batch) :
              Inbounds(worker[w].batch)[i] = Inbound(worker[w].batch[i])
<1>1. worker[w].turn \in Turns /\ worker[w].batch \in Seq(In(worker[w].turn))
  BY ReadingOf DEF Busy
<1>2. \A i \in 1 .. Len(worker[w].batch) : worker[w].batch[i] \in In(worker[w].turn)
  BY <1>1
<1>3. \A i \in 1 .. Len(worker[w].batch) : Inbound(worker[w].batch[i]) \in HistoryRow
  BY <1>1, <1>2, InboundRow
<1>4. Inbounds(worker[w].batch) \in [1 .. Len(worker[w].batch) -> HistoryRow]
  BY <1>3 DEF Inbounds
<1>5. Len(worker[w].batch) \in Nat BY <1>1
<1>6. Inbounds(worker[w].batch) \in Seq(HistoryRow) BY <1>4, <1>5, SeqDef
<1>7. Len(Inbounds(worker[w].batch)) = Len(worker[w].batch) BY <1>4, <1>5, <1>6
<1>8. \A i \in 1 .. Len(worker[w].batch) :
        Inbounds(worker[w].batch)[i] = Inbound(worker[w].batch[i])
  BY DEF Inbounds
<1> QED BY <1>5, <1>6, <1>7, <1>8

LEMMA RowsOf ==
  ASSUME SendInv, NEW w \in Workers, TurnKinds(w)
  PROVE  \/ history' = history
         \/ /\ worker[w].pc # "idle"
            /\ \E rows \in Seq(HistoryRow) :
                 /\ AddsRows(Phone(w), rows)
                 /\ \A i \in 1 .. Len(rows) : RowOf(w, rows[i])
<1> DEFINE Goal == /\ worker[w].pc # "idle"
                   /\ \E rows \in Seq(HistoryRow) :
                        /\ AddsRows(Phone(w), rows)
                        /\ \A i \in 1 .. Len(rows) : RowOf(w, rows[i])
<1>1. WorkerInv /\ HistoryInv BY DEF SendInv
<1>2. ASSUME NEW row \in HistoryRow, RowOf(w, row), AddsRows(Phone(w), <<row>>),
             worker[w].pc # "idle"
      PROVE  Goal
  <2>1. <<row>> \in Seq(HistoryRow) /\ Len(<<row>>) = 1 /\ <<row>>[1] = row OBVIOUS
  <2>2. \A i \in 1 .. Len(<<row>>) : RowOf(w, <<row>>[i]) BY <1>2, <2>1
  <2> QED BY <1>2, <2>1, <2>2
<1>3. CASE RecordsManual(w)
  <2>1. At(w, "reading") /\ Reading(w) BY <1>3 DEF RecordsManual, Reads
  <2>2. Current(w) \in Messages /\ worker[w].pc # "idle" BY <1>1, <2>1, ReadingOf
  <2>3. PICK row \in HistoryRow : row = ManualRow(Current(w))
    BY <2>2 DEF ManualRow, HistoryRow
  <2>4. RowOf(w, row) /\ AddsRows(Phone(w), <<row>>)
    BY <1>3, <2>3 DEF RowOf, RecordsManual
  <2> QED BY <1>2, <2>2, <2>4
<1>4. CASE HoldsHead(w) /\ history' # history
  <2>1. At(w, "reading") /\ worker[w].batch # <<>>
        /\ AddsRows(Phone(w), <<Inbound(Head(worker[w].batch))>>)
    BY <1>4 DEF HoldsHead
  <2>2. Busy(w) /\ worker[w].pc # "idle" BY <1>1, <2>1, ReadingOf
  <2>3. worker[w].turn \in Turns /\ Head(worker[w].batch) \in In(worker[w].turn)
    BY <2>1, <2>2, HeadTailProperties DEF Busy
  <2>4. PICK row \in HistoryRow : row = Inbound(Head(worker[w].batch)) BY <2>3, InboundRow
  <2>5. InSeq(Head(worker[w].batch), worker[w].batch)
    <3>1. worker[w].batch \in Seq(In(worker[w].turn)) BY <2>2 DEF Busy
    <3>2. 1 \in 1 .. Len(worker[w].batch) /\ worker[w].batch[1] = Head(worker[w].batch)
      BY <2>1, <3>1
    <3> QED BY <3>2 DEF InSeq
  <2>6. RowOf(w, row) /\ AddsRows(Phone(w), <<row>>)
    BY <2>1, <2>3, <2>4, <2>5 DEF RowOf
  <2> QED BY <1>2, <2>2, <2>6
<1>5. CASE StoresBatch(w)
  <2>1. At(w, "reading") /\ AddsRows(Phone(w), Inbounds(worker[w].batch))
    BY <1>5 DEF StoresBatch
  <2>2. Busy(w) /\ worker[w].pc # "idle" BY <1>1, <2>1, ReadingOf
  <2>3. worker[w].turn \in Turns /\ worker[w].batch \in Seq(In(worker[w].turn))
    BY <2>2 DEF Busy
  <2>4. \A i \in 1 .. Len(worker[w].batch) : worker[w].batch[i] \in In(worker[w].turn)
    BY <2>3
  <2>5. Inbounds(worker[w].batch) \in Seq(HistoryRow)
        /\ Len(Inbounds(worker[w].batch)) = Len(worker[w].batch)
    BY <1>1, <2>1, BatchRows
  <2>6. \A i \in 1 .. Len(Inbounds(worker[w].batch)) :
          RowOf(w, Inbounds(worker[w].batch)[i])
    BY <2>4, <2>5 DEF Inbounds, InSeq, RowOf
  <2> QED BY <2>1, <2>2, <2>5, <2>6
<1>6. ASSUME NEW k \in Answers, Logging(w, k),
             history' = [history EXCEPT ![Phone(w)] =
                           Append(history[Phone(w)], Outbound(k, Last(w)))]
      PROVE  Goal
  <2>1. worker[w].pc \in Answering /\ worker[w].pc # "idle"
    BY <1>6, LoggingPc DEF Logging, At, Answering, LoggingPcs
  <2>2. Last(w) \in Messages /\ Phone(w) \in Phones BY <1>1, <2>1, LastOf
  <2>3. PICK row \in HistoryRow : row = Outbound(k, Last(w))
    BY <2>2 DEF Outbound, HistoryRow, Answers
  <2>4. history[Phone(w)] \in Seq(HistoryRow) BY <1>1, <2>2 DEF HistoryInv
  <2>5. AddsRows(Phone(w), <<row>>) BY <1>6, <2>3, <2>4, AppendRow DEF AddsRows
  <2>6. RowOf(w, row) BY <1>6, <2>3 DEF RowOf
  <2> QED BY <1>2, <2>1, <2>5, <2>6
<1> HIDE DEF Goal
<1>7. ASSUME NEW pc, GoesOn(w, pc) PROVE history' = history \/ Goal
  BY <1>6, <1>7 DEF GoesOn
<1>8. ASSUME \/ (\E t \in Turns : Claim(w, t)) \/ Passes(w) \/ Takes(w) \/ Obeys(w)
             \/ Confirms(w) \/ ReadsNothing(w) \/ Leaves(w)
      PROVE  history' = history
  <2>1. CASE \E t \in Turns : Claim(w, t) BY <2>1 DEF Claim
  <2>2. CASE Passes(w) \/ Takes(w) BY <2>2 DEF Passes, Takes
  <2>3. CASE Obeys(w) \/ ReadsNothing(w) BY <2>3 DEF Obeys, ReadsNothing
  <2>4. CASE Confirms(w) BY <2>4 DEF Confirms
  <2>5. CASE Leaves(w) BY <2>5 DEF Leaves
  <2> QED BY <1>8, <2>1, <2>2, <2>3, <2>4, <2>5
<1> QED BY <1>3, <1>4, <1>5, <1>7, <1>8 DEF TurnKinds, Goal

LEMMA RowsLonger ==
  ASSUME SendInv, NEW w \in Workers, TurnKinds(w)
  PROVE  HistoryInv' /\ RowsGrow /\ Longer /\ NewRows(w)
<1>1. WorkerInv /\ HistoryInv BY DEF SendInv
<1>2. CASE history' = history
  <2>1. HistoryInv' /\ RowsGrow BY <1>1, <1>2, UnchangedRows
  <2>2. \A p \in Phones : history[p] \in Seq(HistoryRow) BY <1>1 DEF HistoryInv
  <2> QED BY <1>2, <2>1, <2>2 DEF Longer, NewRows
<1>3. CASE history' # history
  <2>1. worker[w].pc # "idle" BY <1>3, RowsOf
  <2>2. PICK rows \in Seq(HistoryRow) : /\ AddsRows(Phone(w), rows)
                                        /\ \A i \in 1 .. Len(rows) : RowOf(w, rows[i])
    BY <1>3, RowsOf
  <2>3. Busy(w) BY <1>1, <2>1 DEF WorkerInv
  <2>4. PICK p \in Phones : p = Phone(w) BY <2>3, PayloadOf DEF Busy, Phone
  <2>5. history' = [history EXCEPT ![p] = history[p] \o rows] BY <2>2, <2>4 DEF AddsRows
  <2>6. HistoryInv' /\ RowsGrow BY <1>1, <2>5, RowsAdded
  <2>7. history[p] \in Seq(HistoryRow) /\ history'[p] = history[p] \o rows
        /\ \A q \in Phones \ {p} : history'[q] = history[q]
    BY <1>1, <2>5 DEF HistoryInv
  <2>8. Len(history'[p]) = Len(history[p]) + Len(rows)
        /\ (\A i \in 1 .. Len(history[p]) : history'[p][i] = history[p][i])
        /\ \A i \in 1 .. Len(rows) : history'[p][Len(history[p]) + i] = rows[i]
    BY <2>7
  <2>9. ASSUME NEW i \in 1 .. Len(history'[p]), i > Len(history[p])
        PROVE  RowOf(w, history'[p][i])
    <3>1. i - Len(history[p]) \in 1 .. Len(rows) BY <2>7, <2>8, <2>9
    <3>2. i = Len(history[p]) + (i - Len(history[p])) BY <2>7
    <3>3. history'[p][i] = rows[i - Len(history[p])] BY <2>8, <3>1, <3>2
    <3> QED BY <2>2, <3>1, <3>3
  <2>10. \A q \in Phones : history[q] \in Seq(HistoryRow) BY <1>1 DEF HistoryInv
  <2>11. Longer BY <2>7, <2>8, <2>10 DEF Longer
  <2>12. NewRows(w)
    <3> SUFFICES ASSUME NEW q \in Phones, NEW i \in 1 .. Len(history'[q]),
                        i > Len(history[q])
                 PROVE  q = Phone(w) /\ RowOf(w, history'[q][i])
      BY <2>1 DEF NewRows
    <3>1. q = p BY <2>7, <2>10
    <3> QED BY <2>4, <2>9, <3>1
  <2> QED BY <2>6, <2>11, <2>12
<1> QED BY <1>2, <1>3
-----------------------------------------------------------------------------
(* Nothing of a finished turn is missing in the history.                   *)
Relevant(m) == Customer(m) \/ Kind[m] = "manual"
Left(t) ==
  \A i \in 1 .. Len(Payload[t]) :
    Relevant(Payload[t][i]) => Recorded(PhoneOf[t], Payload[t][i])

(* A worker that reads has recorded what lies behind it, or has it in its  *)
(* batch; one that is past reading has recorded the turn.                  *)
Accounted(w, t) ==
  IF worker[w].pc \in Early
  THEN /\ worker[w].pos <= Len(Payload[t]) + 1
       /\ worker[w].pc = "acknowledging" =>
            worker[w].pos <= Len(Payload[t]) /\ Kind[Payload[t][worker[w].pos]] = "command"
       /\ \A i \in 1 .. Len(Payload[t]) :
            i < worker[w].pos /\ Relevant(Payload[t][i]) =>
              \/ Recorded(PhoneOf[t], Payload[t][i])
              \/ InSeq(Payload[t][i], worker[w].batch)
  ELSE Left(t)
RecordInv ==
  /\ \A t \in Turns : turn[t].status = "done" => Left(t)
  /\ \A w \in Workers, t \in Turns :
       worker[w].pc # "idle" /\ worker[w].turn = t => Accounted(w, t)

LEMMA RecordedKept ==
  ASSUME RowsGrow, NEW p \in Phones, NEW m, Recorded(p, m)
  PROVE  Recorded(p, m)'
BY DEF Recorded, RowsGrow

LEMMA LeftKept ==
  ASSUME RowsGrow, NEW t \in Turns, Left(t)
  PROVE  Left(t)'
BY RecordedKept, PayloadOf DEF Left

LEMMA CurrentIs ==
  ASSUME SendInv, NEW w \in Workers, At(w, "reading"), Reading(w), NEW t,
         t = worker[w].turn
  PROVE  /\ t \in Turns /\ worker[w].pos \in 1 .. Len(Payload[t])
         /\ Current(w) = Payload[t][worker[w].pos] /\ Phone(w) = PhoneOf[t]
<1>1. Busy(w) BY ReadingOf DEF SendInv
<1> QED BY <1>1, PayloadOf DEF Busy, Reading, Current, Phone

LEMMA ReadsOn ==
  ASSUME SendInv, RowsGrow, NEW w \in Workers, NEW t \in Turns, worker[w].turn = t,
         worker[w].pc \in Early, Accounted(w, t), NEW b,
         NEW n \in 1 .. Len(Payload[t]), worker[w].pos = n,
         worker'[w].pc = "reading", worker'[w].pos = worker[w].pos + 1,
         worker'[w].batch = b,
         \A m : InSeq(m, worker[w].batch) => InSeq(m, b),
         Relevant(Payload[t][n]) =>
           Recorded(PhoneOf[t], Payload[t][n])' \/ InSeq(Payload[t][n], b)
  PROVE  Accounted(w, t)'
<1>1. Payload[t] \in Seq(Messages) /\ PhoneOf[t] \in Phones BY PayloadOf
<1>2. ASSUME NEW i \in 1 .. Len(Payload[t]), i < n + 1, Relevant(Payload[t][i])
      PROVE  Recorded(PhoneOf[t], Payload[t][i])' \/ InSeq(Payload[t][i], b)
  <2>1. CASE i = n BY <1>2, <2>1
  <2>2. CASE i # n
    <3>1. i < n BY <1>1, <1>2, <2>2
    <3>2. Recorded(PhoneOf[t], Payload[t][i]) \/ InSeq(Payload[t][i], worker[w].batch)
      BY <1>2, <3>1 DEF Accounted
    <3> QED BY <1>1, <3>2, RecordedKept
  <2> QED BY <2>1, <2>2
<1>3. worker'[w].pos = n + 1 /\ n + 1 <= Len(Payload[t]) + 1 BY <1>1
<1>4. "reading" \in Early BY DEF Early
<1> QED BY <1>2, <1>3, <1>4 DEF Accounted

(* A message whose row is added is recorded.                               *)
LEMMA AddedRecorded ==
  ASSUME HistoryInv, NEW p \in Phones, NEW rows \in Seq(HistoryRow), AddsRows(p, rows),
         NEW i \in 1 .. Len(rows), NEW m, rows[i].id = m
  PROVE  Recorded(p, m)'
BY RowsAdded DEF AddsRows, Recorded

LEMMA BatchRecorded ==
  ASSUME SendInv, NEW w \in Workers, StoresBatch(w), NEW t \in Turns, worker[w].turn = t,
         NEW m, InSeq(m, worker[w].batch)
  PROVE  Recorded(PhoneOf[t], m)'
<1>1. WorkerInv /\ HistoryInv BY DEF SendInv
<1>2. At(w, "reading") /\ AddsRows(PhoneOf[t], Inbounds(worker[w].batch))
  BY DEF StoresBatch, Phone
<1>3. PICK rows \in Seq(HistoryRow) : rows = Inbounds(worker[w].batch)
  BY <1>1, <1>2, BatchRows
<1>4. PICK i \in 1 .. Len(worker[w].batch) : worker[w].batch[i] = m BY DEF InSeq
<1>5. i \in 1 .. Len(rows) /\ rows[i] = Inbound(m) BY <1>1, <1>2, <1>3, <1>4, BatchRows
<1>6. rows[i].id = m BY <1>5 DEF Inbound
<1>7. AddsRows(PhoneOf[t], rows) BY <1>2, <1>3
<1> QED BY <1>1, <1>5, <1>6, <1>7, PayloadOf, AddedRecorded

LEMMA AccountedStep ==
  ASSUME SendInv, RecordInv, NEW w \in Workers, TurnKinds(w), NEW t \in Turns,
         worker'[w].pc # "idle", worker'[w].turn = t
  PROVE  Accounted(w, t)'
<1>1. WorkerInv /\ HistoryInv BY DEF SendInv
<1>2. RowsGrow BY RowsLonger
<1>3. Payload[t] \in Seq(Messages) /\ PhoneOf[t] \in Phones BY PayloadOf
<1>4. "reading" \in Early /\ "acknowledging" \in Early /\ "acknowledging" # "reading"
  BY DEF Early
<1>5. ASSUME NEW u \in Turns, Claim(w, u) PROVE Accounted(w, t)'
  <2>1. worker'[w].pc = "reading" /\ worker'[w].pos = 1
    BY <1>1, <1>5 DEF Claim, WorkerInv
  <2>2. Len(Payload[t]) \in Nat BY <1>3
  <2> QED BY <1>4, <2>1, <2>2 DEF Accounted
<1>6. ASSUME At(w, "reading"), worker[w].turn = t
      PROVE  worker[w].pc \in Early /\ Accounted(w, t) /\ Phone(w) = PhoneOf[t]
  BY <1>4, <1>6 DEF RecordInv, At, Phone
<1>7. CASE Passes(w) \/ Takes(w) \/ RecordsManual(w)
  <2>1. At(w, "reading") /\ Reading(w) /\ worker[w].turn = t
    BY <1>7 DEF Passes, Takes, RecordsManual, Reads
  <2>2. PICK n \in 1 .. Len(Payload[t]) : n = worker[w].pos BY <2>1, CurrentIs
  <2>3. Current(w) = Payload[t][n] /\ Phone(w) = PhoneOf[t] BY <2>1, <2>2, CurrentIs
  <2>4. worker[w].batch \in Seq(In(t)) BY <1>1, <2>1, ReadingOf DEF Busy
  <2>5. worker'[w].pc = "reading" /\ worker'[w].pos = worker[w].pos + 1
    BY <1>7 DEF Passes, Takes, RecordsManual, Reads
  <2>6. CASE Passes(w)
    <3>1. Relevant(Payload[t][n]) => Recorded(PhoneOf[t], Payload[t][n])
      BY <2>3, <2>6 DEF Passes, Relevant, Customer
    <3>2. Relevant(Payload[t][n]) => Recorded(PhoneOf[t], Payload[t][n])'
      BY <1>2, <1>3, <3>1, RecordedKept
    <3>3. worker'[w].batch = worker[w].batch BY <2>6 DEF Passes, Reads
    <3>4. PICK b : b = worker[w].batch OBVIOUS
    <3> QED BY <1>2, <1>6, <2>1, <2>2, <2>5, <3>2, <3>3, <3>4, ReadsOn
  <2>7. CASE Takes(w)
    <3>1. PICK b : b = Append(worker[w].batch, Payload[t][n]) OBVIOUS
    <3>2. worker'[w].batch = b BY <2>3, <2>7, <3>1 DEF Takes, Reads
    <3>3. Payload[t][n] \in In(t) BY DEF In
    <3>4. Len(b) = Len(worker[w].batch) + 1 /\ b[Len(worker[w].batch) + 1] = Payload[t][n]
          /\ (\A j \in 1 .. Len(worker[w].batch) : b[j] = worker[w].batch[j])
          /\ Len(worker[w].batch) \in Nat
      BY <2>4, <3>1, <3>3
    <3>5. InSeq(Payload[t][n], b) BY <3>4 DEF InSeq
    <3>6. \A m : InSeq(m, worker[w].batch) => InSeq(m, b) BY <3>4 DEF InSeq
    <3> QED BY <1>2, <1>6, <2>1, <2>2, <2>5, <3>2, <3>5, <3>6, ReadsOn
  <2>8. CASE RecordsManual(w)
    <3>1. PICK m \in Messages : m = Payload[t][n] BY <1>3
    <3>2. PICK row \in HistoryRow : row = ManualRow(m)
      BY DEF ManualRow, HistoryRow
    <3>3. AddsRows(PhoneOf[t], <<row>>) /\ worker[w].batch = <<>> /\ worker'[w].batch = <<>>
      BY <2>3, <2>8, <3>1, <3>2 DEF RecordsManual, Reads
    <3>4. <<row>> \in Seq(HistoryRow) /\ 1 \in 1 .. Len(<<row>>) /\ <<row>>[1].id = m
      BY <3>2 DEF ManualRow
    <3>5. Recorded(PhoneOf[t], m)' BY <1>1, <1>3, <3>3, <3>4, AddedRecorded
    <3>6. Recorded(PhoneOf[t], Payload[t][n])' BY <3>1, <3>5
    <3> QED BY <1>2, <1>6, <2>1, <2>2, <2>5, <3>3, <3>6, ReadsOn
  <2> QED BY <1>7, <2>6, <2>7, <2>8
<1>8. CASE HoldsHead(w)
  <2>1. At(w, "reading") /\ worker[w].turn = t /\ worker[w].batch # <<>>
        /\ worker'[w].pc = "reading" /\ worker'[w].pos = worker[w].pos
    BY <1>8 DEF HoldsHead
  <2>2. worker[w].batch \in Seq(In(t)) BY <1>1, <2>1, ReadingOf DEF Busy
  <2>3. PICK b : b = Tail(worker[w].batch) OBVIOUS
  <2>4. PICK m \in In(t) : m = Head(worker[w].batch) BY <2>1, <2>2, HeadTailProperties
  <2>5. Recorded(PhoneOf[t], m)'
    <3>1. CASE Recorded(Phone(w), Head(worker[w].batch))
      <4>1. Recorded(PhoneOf[t], m) BY <1>6, <2>1, <2>4, <3>1
      <4> QED BY <1>2, <1>3, <4>1, RecordedKept
    <3>2. CASE AddsRows(Phone(w), <<Inbound(Head(worker[w].batch))>>)
      <4>1. PICK row \in HistoryRow : row = Inbound(m) BY InboundRow
      <4>2. AddsRows(PhoneOf[t], <<row>>) BY <1>6, <2>1, <2>4, <3>2, <4>1
      <4>3. <<row>> \in Seq(HistoryRow) /\ 1 \in 1 .. Len(<<row>>) /\ <<row>>[1].id = m
        BY <4>1 DEF Inbound
      <4> QED BY <1>1, <1>3, <4>2, <4>3, AddedRecorded
    <3> QED BY <1>8, <3>1, <3>2 DEF HoldsHead
  <2>6. ASSUME NEW x, InSeq(x, worker[w].batch) PROVE x = m \/ InSeq(x, b)
    <3>1. PICK j \in 1 .. Len(worker[w].batch) : worker[w].batch[j] = x BY <2>6 DEF InSeq
    <3>2. CASE j = 1 BY <2>1, <2>2, <2>4, <3>1, <3>2, HeadTailProperties
    <3>3. CASE j # 1
      <4>1. Len(worker[w].batch) \in Nat /\ Len(b) = Len(worker[w].batch) - 1
            /\ \A i \in 1 .. Len(b) : b[i] = worker[w].batch[i + 1]
        BY <2>1, <2>2, <2>3, HeadTailProperties
      <4>2. j - 1 \in 1 .. Len(b) /\ b[j - 1] = x BY <3>1, <3>3, <4>1
      <4> QED BY <4>2 DEF InSeq
    <3> QED BY <3>2, <3>3
  <2>7. worker'[w].batch = b BY <1>8, <2>3 DEF HoldsHead
  <2>8. ASSUME NEW i \in 1 .. Len(Payload[t]), i < worker[w].pos, Relevant(Payload[t][i])
        PROVE  Recorded(PhoneOf[t], Payload[t][i])' \/ InSeq(Payload[t][i], b)
    <3>1. Recorded(PhoneOf[t], Payload[t][i]) \/ InSeq(Payload[t][i], worker[w].batch)
      BY <1>6, <2>1, <2>8 DEF Accounted
    <3>2. CASE Recorded(PhoneOf[t], Payload[t][i]) BY <1>2, <1>3, <3>2, RecordedKept
    <3>3. CASE InSeq(Payload[t][i], worker[w].batch)
      <4>1. CASE Payload[t][i] = m
        <5>1. Recorded(PhoneOf[t], Payload[t][i])' BY <2>5, <4>1
        <5> QED BY <5>1
      <4>2. CASE Payload[t][i] # m BY <2>6, <3>3, <4>2
      <4> QED BY <4>1, <4>2
    <3> QED BY <3>1, <3>2, <3>3
  <2>9. worker[w].pos <= Len(Payload[t]) + 1 BY <1>6, <2>1 DEF Accounted
  <2> QED BY <1>4, <2>1, <2>7, <2>8, <2>9 DEF Accounted
<1>9. CASE Obeys(w)
  <2>1. At(w, "reading") /\ Reading(w) /\ worker[w].turn = t
        /\ Kind[Current(w)] = "command"
    BY <1>9 DEF Obeys, Stays
  <2>2. PICK n \in 1 .. Len(Payload[t]) : n = worker[w].pos BY <2>1, CurrentIs
  <2>3. Kind[Payload[t][n]] = "command" BY <2>1, <2>2, CurrentIs
  <2>4. worker'[w].pc = "acknowledging" /\ worker'[w].pos = n
        /\ worker'[w].batch = worker[w].batch
    BY <1>9, <2>2 DEF Obeys, Stays
  <2>5. ASSUME NEW i \in 1 .. Len(Payload[t]), i < n, Relevant(Payload[t][i])
        PROVE  Recorded(PhoneOf[t], Payload[t][i])' \/ InSeq(Payload[t][i], worker[w].batch)
    <3>1. Recorded(PhoneOf[t], Payload[t][i]) \/ InSeq(Payload[t][i], worker[w].batch)
      BY <1>6, <2>1, <2>2, <2>5 DEF Accounted
    <3> QED BY <1>2, <1>3, <3>1, RecordedKept
  <2>6. Len(Payload[t]) \in Nat BY <1>3
  <2> QED BY <1>4, <2>3, <2>4, <2>5, <2>6 DEF Accounted
<1>10. CASE Confirms(w)
  <2>1. worker[w].pc = "acknowledging" /\ worker[w].turn = t
        /\ worker'[w].pc = "reading" /\ worker'[w].pos = worker[w].pos + 1
        /\ worker'[w].batch = worker[w].batch
    BY <1>10 DEF Confirms, At
  <2>2. Accounted(w, t) /\ worker[w].pc \in Early BY <1>4, <2>1 DEF RecordInv
  <2>3. worker[w].pos \in Nat \ {0} BY <1>1, <2>1 DEF WorkerInv, Busy
  <2>4. worker[w].pos <= Len(Payload[t]) /\ Kind[Payload[t][worker[w].pos]] = "command"
    BY <2>1, <2>2 DEF Accounted
  <2>5. PICK n \in 1 .. Len(Payload[t]) : n = worker[w].pos BY <1>3, <2>3, <2>4
  <2>6. ~Relevant(Payload[t][n]) BY <2>4, <2>5 DEF Relevant, Customer
  <2>7. PICK b : b = worker[w].batch OBVIOUS
  <2> QED BY <1>2, <2>1, <2>2, <2>5, <2>6, <2>7, ReadsOn
<1>11. CASE ReadsNothing(w) \/ StoresBatch(w)
  <2>1. At(w, "reading") /\ ~Reading(w) /\ worker[w].turn = t /\ worker'[w].pc \notin Early
    BY <1>11 DEF ReadsNothing, StoresBatch, Stays, Early
  <2>2. Accounted(w, t) /\ worker[w].pc \in Early BY <1>6, <2>1
  <2>3. worker[w].pos > Len(Payload[t])
    BY <1>1, <1>3, <2>1, ReadingOf DEF Reading, Busy
  <2>4. ASSUME NEW i \in 1 .. Len(Payload[t]), Relevant(Payload[t][i])
        PROVE  Recorded(PhoneOf[t], Payload[t][i])'
    <3>1. i < worker[w].pos BY <1>1, <1>3, <2>1, <2>3, ReadingOf DEF Busy
    <3>2. Recorded(PhoneOf[t], Payload[t][i]) \/ InSeq(Payload[t][i], worker[w].batch)
      BY <2>2, <2>4, <3>1 DEF Accounted
    <3>3. CASE Recorded(PhoneOf[t], Payload[t][i]) BY <1>2, <1>3, <3>3, RecordedKept
    <3>4. CASE InSeq(Payload[t][i], worker[w].batch)
      <4>1. worker[w].batch # <<>> BY <3>4 DEF InSeq
      <4>2. StoresBatch(w) BY <1>11, <4>1 DEF ReadsNothing
      <4> QED BY <2>1, <3>4, <4>2, BatchRecorded
    <3> QED BY <3>2, <3>3, <3>4
  <2>5. Left(t)' BY <2>4 DEF Left
  <2> QED BY <2>1, <2>5 DEF Accounted
<1>12. ASSUME NEW pc, GoesOn(w, pc) PROVE Accounted(w, t)'
  <2>1. worker[w].pc \in Later /\ worker'[w].pc \in Later /\ worker[w].turn = t
    BY <1>12 DEF GoesOn, Stays
  <2>2. worker[w].pc \notin Early /\ worker'[w].pc \notin Early /\ worker[w].pc # "idle"
    BY <2>1 DEF Later, Early, Answering, LoggingPcs
  <2>3. Left(t) BY <2>1, <2>2 DEF RecordInv, Accounted
  <2>4. Left(t)' BY <1>2, <2>3, LeftKept
  <2> QED BY <2>2, <2>4 DEF Accounted
<1>13. ~Leaves(w) BY DEF Leaves
<1> QED BY <1>5, <1>7, <1>8, <1>9, <1>10, <1>11, <1>12, <1>13 DEF TurnKinds

LEMMA OthersStay ==
  ASSUME SendInv, NEW w \in Workers, TurnKinds(w)
  PROVE  \A v \in Workers \ {w} : worker'[v] = worker[v]
<1>1. CASE \E t \in Turns : Claim(w, t) BY <1>1 DEF Claim, SendInv, WorkerInv
<1>2. CASE Passes(w) \/ Takes(w) \/ RecordsManual(w) \/ HoldsHead(w)
  BY <1>2 DEF Passes, Takes, RecordsManual, HoldsHead, Reads, OnlyWorker
<1>3. CASE Obeys(w) \/ Confirms(w) \/ ReadsNothing(w) \/ StoresBatch(w)
  BY <1>3 DEF Obeys, Confirms, ReadsNothing, StoresBatch, Stays, OnlyWorker
<1>4. CASE (\E pc : GoesOn(w, pc)) \/ Leaves(w)
  BY <1>4 DEF GoesOn, Leaves, Stays, OnlyWorker
<1> QED BY <1>1, <1>2, <1>3, <1>4 DEF TurnKinds

(* Only its worker finishes a turn, at the end.                            *)
LEMMA TurnsOf ==
  ASSUME SendInv, NEW w \in Workers, TurnKinds(w), NEW t \in Turns
  PROVE  \/ turn'[t] = turn[t]
         \/ Claim(w, t)
         \/ /\ worker[w].turn = t /\ worker[w].pc # "idle" /\ Leaves(w)
            /\ turn'[t].attempts = turn[t].attempts
            /\ turn'[t].status = "done" => worker[w].pc = "done"
<1>1. CASE \E u \in Turns : Claim(w, u)
  <2>1. PICK u \in Turns : Claim(w, u) BY <1>1
  <2>2. CASE u = t BY <2>1, <2>2
  <2>3. CASE u # t BY <2>1, <2>3 DEF Claim
  <2> QED BY <2>2, <2>3
<1>2. CASE Leaves(w)
  <2>1. worker[w].pc # "idle" BY <1>2 DEF Leaves
  <2>2. worker[w].turn \in Turns BY <2>1 DEF SendInv, WorkerInv, Busy
  <2>3. DOMAIN turn = Turns /\ DOMAIN turn[t] = {"status", "attempts"}
    BY DEF SendInv, WorkerInv
  <2>4. PICK s : turn' = [turn EXCEPT ![worker[w].turn].status = s]
                 /\ (s = "done" => worker[w].pc = "done")
    BY <1>2 DEF Leaves
  <2>5. CASE worker[w].turn = t
    <3>1. turn'[t].status = s /\ turn'[t].attempts = turn[t].attempts
      BY <2>3, <2>4, <2>5
    <3> QED BY <1>2, <2>1, <2>4, <2>5, <3>1
  <2>6. CASE worker[w].turn # t BY <2>2, <2>3, <2>4, <2>6
  <2> QED BY <2>5, <2>6
<1>3. CASE Passes(w) \/ Takes(w) \/ RecordsManual(w) \/ HoldsHead(w)
  BY <1>3 DEF Passes, Takes, RecordsManual, HoldsHead, Reads
<1>4. CASE Obeys(w) \/ ReadsNothing(w) \/ StoresBatch(w)
  BY <1>4 DEF Obeys, ReadsNothing, StoresBatch, Stays
<1>5. CASE Confirms(w) BY <1>5 DEF Confirms
<1>6. CASE \E pc : GoesOn(w, pc) BY <1>6 DEF GoesOn, Stays
<1> QED BY <1>1, <1>2, <1>3, <1>4, <1>5, <1>6 DEF TurnKinds

LEMMA AccountedKept ==
  ASSUME RowsGrow, NEW w \in Workers, worker'[w] = worker[w], NEW t \in Turns,
         Accounted(w, t)
  PROVE  Accounted(w, t)'
<1>1. CASE worker[w].pc \in Early
  <2>1. ASSUME NEW i \in 1 .. Len(Payload[t]), i < worker[w].pos, Relevant(Payload[t][i])
        PROVE  \/ Recorded(PhoneOf[t], Payload[t][i])'
               \/ InSeq(Payload[t][i], worker[w].batch)
    <3>1. Recorded(PhoneOf[t], Payload[t][i]) \/ InSeq(Payload[t][i], worker[w].batch)
      BY <1>1, <2>1 DEF Accounted
    <3> QED BY <3>1, PayloadOf, RecordedKept
  <2>2. worker[w].pos <= Len(Payload[t]) + 1
        /\ (worker[w].pc = "acknowledging" =>
              worker[w].pos <= Len(Payload[t])
              /\ Kind[Payload[t][worker[w].pos]] = "command")
    BY <1>1 DEF Accounted
  <2> QED BY <1>1, <2>1, <2>2 DEF Accounted
<1>2. CASE worker[w].pc \notin Early
  <2>1. Left(t)' BY <1>2, LeftKept DEF Accounted
  <2> QED BY <1>2, <2>1 DEF Accounted
<1> QED BY <1>1, <1>2

LEMMA RecordNext ==
  ASSUME SendInv, RecordInv, [Next]_vars
  PROVE  RecordInv'
<1>1. CASE Elsewhere
  <2>1. RowsGrow BY <1>1, UnchangedRows DEF Elsewhere, SendInv
  <2>2. ASSUME NEW t \in Turns, turn'[t].status = "done" PROVE Left(t)'
    BY <1>1, <2>1, <2>2, LeftKept DEF Elsewhere, RecordInv
  <2>3. ASSUME NEW w \in Workers, NEW t \in Turns, worker'[w].pc # "idle",
               worker'[w].turn = t
        PROVE  Accounted(w, t)'
    BY <1>1, <2>1, <2>3, AccountedKept DEF Elsewhere, RecordInv
  <2> QED BY <2>2, <2>3 DEF RecordInv
<1>2. ASSUME NEW w \in Workers, TurnKinds(w) PROVE RecordInv'
  <2>1. RowsGrow BY <1>2, RowsLonger
  <2>2. ASSUME NEW t \in Turns, turn'[t].status = "done" PROVE Left(t)'
    <3>1. CASE turn[t].status = "done" BY <2>1, <3>1, LeftKept DEF RecordInv
    <3>2. CASE turn[t].status # "done"
      <4>1. ~Claim(w, t)
        <5>1. Turn("processing", turn[t].attempts + 1).status # "done" BY DEF Turn
        <5> QED BY <2>2, <5>1 DEF Claim, SendInv, WorkerInv
      <4>2. worker[w].turn = t /\ worker[w].pc = "done"
        BY <1>2, <2>2, <3>2, <4>1, TurnsOf
      <4>3. Left(t) BY <4>2 DEF RecordInv, Accounted, Early
      <4> QED BY <2>1, <4>3, LeftKept
    <3> QED BY <3>1, <3>2
  <2>3. ASSUME NEW v \in Workers, NEW t \in Turns, worker'[v].pc # "idle",
               worker'[v].turn = t
        PROVE  Accounted(v, t)'
    <3>1. CASE v = w
      <4>1. Accounted(w, t)' BY <1>2, <2>3, <3>1, AccountedStep
      <4> QED BY <3>1, <4>1
    <3>2. CASE v # w
      <4>1. worker'[v] = worker[v] BY <1>2, <3>2, OthersStay
      <4>2. Accounted(v, t) BY <2>3, <4>1 DEF RecordInv
      <4> QED BY <2>1, <4>1, <4>2, AccountedKept
    <3> QED BY <3>1, <3>2
  <2> QED BY <2>2, <2>3 DEF RecordInv
<1> QED BY <1>1, <1>2, StepKinds

LEMMA InitRecord == Init => RecordInv
<1> SUFFICES ASSUME Init PROVE RecordInv OBVIOUS
<1>1. \A w \in Workers : worker[w].pc = "idle" BY DEF Init, Idle
<1>2. \A t \in Turns : turn[t].status # "done" BY DEF Init, Turn
<1> QED BY <1>1, <1>2 DEF RecordInv

(* A finished turn left no customer message and no manual message out of   *)
(* the history, however often it was retried: process_batch stores what a  *)
(* manual message holds back before it records that message, and stores    *)
(* the rest of the batch before it asks whether to answer.                 *)
THEOREM TurnsRecorded == Spec => []FinishedTurnsRecorded
<1>1. RecordInv => FinishedTurnsRecorded
  BY DEF RecordInv, Left, Relevant, FinishedTurnsRecorded
<1>2. SendInv /\ RecordInv /\ [Next]_vars => (SendInv /\ RecordInv)'
  BY NextSend, RecordNext
<1> QED BY <1>1, <1>2, InitSend, InitRecord, PTL DEF Spec
-----------------------------------------------------------------------------
(* A turn that ends in a customer message is answered, or held, or the     *)
(* store wrote to the contact by hand.                                     *)
Final(t) == Payload[t][Len(Payload[t])]
Ends(t) == Len(Payload[t]) > 0 /\ Customer(Final(t))
ManualIn(p) == \E row \in Rows(p) : row.source = "none"
Texted(t) ==
  Ends(t) /\ t \notin held => delivered[<<Final(t), "text">>] > 0 \/ ManualIn(PhoneOf[t])

(* An answer in the history was delivered, to a message above it.          *)
Stored(p, m, n) == \E j \in 1 .. n : history[p][j].dir = "in" /\ history[p][j].id = m
AnswerRow(p, k, m, a) ==
  /\ k <= Len(history[p]) /\ m # "none" /\ history[p][k].dir = "out"
  /\ history[p][k].source = m /\ history[p][k].kind = a
RowsAnswer ==
  \A p \in Phones, m \in Messages, a \in Answers : \A k \in Nat \ {0} :
    AnswerRow(p, k, m, a) => delivered[<<m, a>>] > 0 /\ Stored(p, m, k - 1)

(* A worker that is done reading answers the last message of its turn,     *)
(* which is in the history by then.                                        *)
Speaks(w, t) ==
  /\ Ends(t) /\ \/ worker[w].pc \in Answering
                \/ worker[w].pc = "reading" /\ worker[w].pos > Len(Payload[t])
       => worker[w].batch # <<>> /\ Last(w) = Final(t)
  /\ \A m \in Messages :
       worker[w].pc \in Answering /\ Last(w) = m =>
         Stored(PhoneOf[t], m, Len(history[PhoneOf[t]]))
  /\ \A k \in Answers, m \in Messages :
       Logging(w, k) /\ Last(w) = m => delivered[<<m, k>>] > 0
  /\ worker[w].pc \in AfterTexts => Texted(t)
TextInv ==
  /\ RowsAnswer
  /\ \A t \in Turns : turn[t].status = "done" => Texted(t)
  /\ \A w \in Workers, t \in Turns :
       worker[w].pc # "idle" /\ worker[w].turn = t => Speaks(w, t)

(* What is true of the past stays true.                                    *)
Remembers ==
  /\ RowsGrow /\ Longer /\ held \subseteq held'
  /\ \A key \in Keys : delivered[key] > 0 => delivered'[key] > 0

LEMMA SendsOf ==
  ASSUME SendInv, NEW w \in Workers, TurnKinds(w)
  PROVE  Sends(w) /\ held \subseteq held'
<1>1. CASE \E t \in Turns : Claim(w, t) BY <1>1 DEF Claim, outbox, records, Sends
<1>2. CASE Passes(w) \/ Takes(w) \/ RecordsManual(w)
  BY <1>2 DEF Passes, Takes, RecordsManual, Reads, Silently, Sends
<1>3. CASE HoldsHead(w) \/ Confirms(w)
  BY <1>3 DEF HoldsHead, Confirms, Silently, Sends
<1>4. CASE Obeys(w) \/ ReadsNothing(w) \/ StoresBatch(w)
  BY <1>4 DEF Obeys, ReadsNothing, StoresBatch, Silently, Sends
<1>5. CASE \E pc : GoesOn(w, pc) BY <1>5 DEF GoesOn
<1>6. CASE Leaves(w) BY <1>6 DEF Leaves
<1> QED BY <1>1, <1>2, <1>3, <1>4, <1>5, <1>6 DEF TurnKinds

LEMMA SendingLast ==
  ASSUME SendInv, NEW w \in Workers, NEW k \in Answers, Sending(w, k)
  PROVE  worker[w].pc \in Answering /\ Last(w) \in Messages /\ <<Last(w), k>> \in Keys
<1>1. worker[w].pc \in Answering BY DEF Sending, SendPcs, Answering, LoggingPcs
<1>2. Last(w) \in Messages BY <1>1, LastOf DEF SendInv
<1> QED BY <1>1, <1>2 DEF Keys

LEMMA DeliverCounts ==
  ASSUME SendInv, NEW w \in Workers, NEW k \in Answers, Sending(w, k), Deliver(w, k)
  PROVE  /\ \A key \in Keys : delivered[key] > 0 => delivered'[key] > 0
         /\ delivered'[<<Last(w), k>>] > 0
<1>1. <<Last(w), k>> \in Keys BY SendingLast
<1>2. delivered' = [delivered EXCEPT ![<<Last(w), k>>] = delivered[<<Last(w), k>>] + 1]
  BY DEF Deliver
<1>3. delivered \in [Keys -> Nat] BY DEF SendInv, AnswerInv
<1>4. delivered'[<<Last(w), k>>] = delivered[<<Last(w), k>>] + 1 BY <1>1, <1>2, <1>3
<1>5. delivered[<<Last(w), k>>] \in Nat BY <1>1, <1>3
<1>6. \A key \in Keys : key # <<Last(w), k>> => delivered'[key] = delivered[key]
  BY <1>2, <1>3
<1> QED BY <1>4, <1>5, <1>6

LEMMA StepRemembers ==
  ASSUME SendInv, NEW w \in Workers, TurnKinds(w)
  PROVE  Remembers
<1>1. Sends(w) /\ held \subseteq held' BY SendsOf
<1>2. RowsGrow /\ Longer BY RowsLonger
<1>3. \A key \in Keys : delivered[key] > 0 => delivered'[key] > 0
  BY <1>1, DeliverCounts DEF Sends
<1> QED BY <1>1, <1>2, <1>3 DEF Remembers

LEMMA ElsewhereRemembers ==
  ASSUME SendInv, Elsewhere
  PROVE  Remembers
<1>1. RowsGrow BY UnchangedRows DEF Elsewhere, SendInv
<1>2. \A p \in Phones : Len(history[p]) \in Nat BY DEF SendInv, HistoryInv
<1>3. Longer BY <1>2 DEF Elsewhere, Longer
<1> QED BY <1>1, <1>3 DEF Elsewhere, Remembers

LEMMA StoredKept ==
  ASSUME HistoryInv, Longer, NEW p \in Phones, NEW m, NEW n \in Nat, n <= Len(history[p]),
         NEW l \in Nat, n <= l, Stored(p, m, n)
  PROVE  Stored(p, m, l)'
<1>1. PICK j \in 1 .. n : history[p][j].dir = "in" /\ history[p][j].id = m BY DEF Stored
<1>2. Len(history[p]) \in Nat BY DEF HistoryInv
<1>3. j \in 1 .. Len(history[p]) /\ j \in 1 .. l BY <1>2
<1>4. history'[p][j] = history[p][j] BY <1>3 DEF Longer
<1> QED BY <1>1, <1>3, <1>4 DEF Stored

LEMMA StoredLonger ==
  ASSUME HistoryInv, HistoryInv', Longer, NEW p \in Phones, NEW m,
         Stored(p, m, Len(history[p]))
  PROVE  Stored(p, m, Len(history[p]))'
<1>1. PICK n \in Nat : n = Len(history[p]) BY DEF HistoryInv
<1>2. PICK l \in Nat : l = Len(history'[p]) BY DEF HistoryInv
<1>3. n <= l BY <1>1, <1>2 DEF Longer
<1>4. Stored(p, m, n) BY <1>1
<1>5. Stored(p, m, l)' BY <1>1, <1>3, <1>4, StoredKept
<1> QED BY <1>2, <1>5 DEF Stored

LEMMA FinalOf ==
  ASSUME NEW t \in Turns, Ends(t)
  PROVE  /\ Final(t) \in Messages /\ <<Final(t), "text">> \in Keys
         /\ Len(Payload[t]) \in 1 .. Len(Payload[t])
         /\ Kind[Final(t)] \in {"text", "media"}
<1>1. Payload[t] \in Seq(Messages) BY PayloadOf
<1>2. Final(t) \in Messages /\ Len(Payload[t]) \in 1 .. Len(Payload[t])
  BY <1>1 DEF Ends, Final
<1> QED BY <1>2 DEF Ends, Customer, Keys, Answers

LEMMA TextedKept ==
  ASSUME Remembers, NEW t \in Turns, Texted(t)
  PROVE  Texted(t)'
<1> SUFFICES ASSUME Ends(t), t \notin held'
             PROVE  delivered'[<<Final(t), "text">>] > 0 \/ ManualIn(PhoneOf[t])'
  BY DEF Texted, Ends, Final
<1>1. t \notin held BY DEF Remembers
<1>2. CASE delivered[<<Final(t), "text">>] > 0 BY <1>2, FinalOf DEF Remembers
<1>3. CASE ManualIn(PhoneOf[t]) BY <1>3, PayloadOf DEF ManualIn, Remembers, RowsGrow
<1> QED BY <1>1, <1>2, <1>3 DEF Texted

LEMMA SpeaksKept ==
  ASSUME SendInv, SendInv', Remembers, NEW w \in Workers, worker'[w] = worker[w],
         NEW t \in Turns, Speaks(w, t)
  PROVE  Speaks(w, t)'
<1>1. HistoryInv /\ HistoryInv' /\ Longer BY DEF SendInv, Remembers
<1>2. (Last(w))' = Last(w) BY DEF Last
<1>3. ASSUME NEW m \in Messages, worker[w].pc \in Answering, Last(w) = m
      PROVE  Stored(PhoneOf[t], m, Len(history[PhoneOf[t]]))'
  <2>1. Stored(PhoneOf[t], m, Len(history[PhoneOf[t]])) BY <1>3 DEF Speaks
  <2> QED BY <1>1, <2>1, PayloadOf, StoredLonger
<1>4. ASSUME NEW k \in Answers, NEW m \in Messages, Logging(w, k), Last(w) = m
      PROVE  delivered'[<<m, k>>] > 0
  <2>1. delivered[<<m, k>>] > 0 /\ <<m, k>> \in Keys BY <1>4 DEF Speaks, Keys
  <2> QED BY <2>1 DEF Remembers
<1>5. worker[w].pc \in AfterTexts => Texted(t)' BY TextedKept DEF Speaks
<1>6. \A k : Logging(w, k)' <=> Logging(w, k) BY DEF Logging, At, AtHand, LogPc
<1>7. Ends(t) /\ \/ worker[w].pc \in Answering
                 \/ worker[w].pc = "reading" /\ worker[w].pos > Len(Payload[t])
        => worker[w].batch # <<>> /\ Last(w) = Final(t)
  BY DEF Speaks
<1> QED BY <1>2, <1>3, <1>4, <1>5, <1>6, <1>7 DEF Speaks, Ends, Final, Customer

(* What SkipAnswer takes for an earlier answer was delivered, or the store *)
(* wrote by hand: a text row of the first turn of a conversation that      *)
(* answers another message stands below that message's row.                *)
LEMMA SkippedText ==
  ASSUME SendInv, RowsAnswer, NEW p \in Phones, NEW m \in Messages,
         AlreadySent(p, "text", m)
  PROVE  delivered[<<m, "text">>] > 0 \/ ManualIn(p)
<1>1. history[p] \in Seq(HistoryRow) BY DEF SendInv, HistoryInv
<1>2. ASSUME NEW k \in 1 .. Len(history[p]), NEW x, history[p][k].dir = "out",
             history[p][k].kind = "text", history[p][k].source = x
      PROVE  \/ ManualIn(p)
             \/ x \in Messages /\ delivered[<<x, "text">>] > 0 /\ Stored(p, x, k - 1)
  <2>1. CASE x = "none"
    <3>1. history[p][k] \in Rows(p) BY DEF Rows
    <3> QED BY <1>2, <2>1, <3>1 DEF ManualIn
  <2>2. CASE x # "none"
    <3>1. history[p][k] \in HistoryRow BY <1>1
    <3>2. x \in Messages BY <1>2, <2>2, <3>1 DEF HistoryRow
    <3>3. k \in Nat \ {0} /\ k <= Len(history[p]) BY <1>1
    <3>4. AnswerRow(p, k, x, "text") BY <1>2, <2>2, <3>3 DEF AnswerRow
    <3>5. "text" \in Answers BY DEF Answers
    <3> QED BY <3>2, <3>3, <3>4, <3>5 DEF RowsAnswer
  <2> QED BY <2>1, <2>2
<1>3. CASE \E row \in Rows(p) : row.dir = "out" /\ row.kind = "text" /\ row.source = m
  <2>1. PICK k \in 1 .. Len(history[p]) :
          history[p][k].dir = "out" /\ history[p][k].kind = "text"
          /\ history[p][k].source = m
    BY <1>3 DEF Rows
  <2> QED BY <1>2, <2>1
<1>4. CASE LegacySend(p, m)
  <2> DEFINE inbound == {i \in 1 .. Len(history[p]) : history[p][i].dir = "in"}
  <2> DEFINE mine == {i \in inbound : history[p][i].id = m}
  <2>1. PICK k \in 1 .. Len(history[p]) :
          /\ history[p][k].dir = "out" /\ history[p][k].kind = "text"
          /\ \A j \in inbound \ mine : k < j
    BY <1>4 DEF LegacySend
  <2>2. PICK x : x = history[p][k].source OBVIOUS
  <2>3. CASE ManualIn(p) BY <2>3
  <2>4. CASE ~ManualIn(p)
    <3>1. x \in Messages /\ delivered[<<x, "text">>] > 0 /\ Stored(p, x, k - 1)
      BY <1>2, <2>1, <2>2, <2>4
    <3>2. PICK j \in 1 .. k - 1 : history[p][j].dir = "in" /\ history[p][j].id = x
      BY <3>1 DEF Stored
    <3>3. j \in inbound /\ ~(k < j) BY <1>1, <3>2
    <3>4. j \in mine BY <2>1, <3>3
    <3>5. x = m BY <3>2, <3>4
    <3> QED BY <3>1, <3>5
  <2> QED BY <2>3, <2>4
<1> QED BY <1>3, <1>4 DEF AlreadySent

LEMMA SpeaksStep ==
  ASSUME SendInv, SendInv', RecordInv, TextInv, NEW w \in Workers, TurnKinds(w),
         NEW t \in Turns, worker'[w].pc # "idle", worker'[w].turn = t
  PROVE  Speaks(w, t)'
<1>1. WorkerInv /\ HistoryInv /\ HistoryInv' BY DEF SendInv
<1>2. Remembers /\ Longer BY StepRemembers DEF Remembers
<1>3. Payload[t] \in Seq(Messages) /\ PhoneOf[t] \in Phones BY PayloadOf
<1>4. /\ "reading" \notin Answering \cup AfterTexts
      /\ "acknowledging" \notin Answering \cup AfterTexts
      /\ worker'[w].pc \in {"reading", "acknowledging", "done", "preparing"} =>
           \A k : ~Logging(w, k)'
  BY DEF Answering, AfterTexts, Later, LoggingPcs, Logging, LogPc, At
<1>5. ASSUME worker'[w].pc = "reading",
             Ends(t) /\ worker'[w].pos > Len(Payload[t]) =>
               worker'[w].batch # <<>>
               /\ worker'[w].batch[Len(worker'[w].batch)] = Final(t)
      PROVE  Speaks(w, t)'
  BY <1>4, <1>5 DEF Speaks, At, Last, Ends, Final
<1>6. ASSUME NEW u \in Turns, Claim(w, u) PROVE Speaks(w, t)'
  <2>1. worker'[w].pc = "reading" /\ worker'[w].pos = 1
    BY <1>1, <1>6 DEF Claim, WorkerInv
  <2>2. ~(Ends(t) /\ worker'[w].pos > Len(Payload[t])) BY <1>3, <2>1 DEF Ends
  <2> QED BY <1>5, <2>1, <2>2
<1>7. CASE Passes(w) \/ Takes(w) \/ RecordsManual(w)
  <2>1. At(w, "reading") /\ Reading(w) /\ worker[w].turn = t
        /\ worker'[w].pc = "reading" /\ worker'[w].pos = worker[w].pos + 1
    BY <1>7 DEF Passes, Takes, RecordsManual, Reads
  <2>2. PICK n \in 1 .. Len(Payload[t]) : n = worker[w].pos BY <2>1, CurrentIs
  <2>3. Current(w) = Payload[t][n] BY <2>1, <2>2, CurrentIs
  <2>4. ASSUME Ends(t), worker'[w].pos > Len(Payload[t])
        PROVE  worker'[w].batch # <<>>
               /\ worker'[w].batch[Len(worker'[w].batch)] = Final(t)
    <3>1. n = Len(Payload[t]) BY <1>3, <2>1, <2>2, <2>4
    <3>2. Current(w) = Final(t) BY <2>3, <3>1 DEF Final
    <3>3. Kind[Current(w)] \in {"text", "media"} BY <2>4, <3>2, FinalOf
    <3>4. Takes(w) BY <1>7, <3>3 DEF Passes, RecordsManual
    <3>5. worker'[w].batch = Append(worker[w].batch, Final(t))
      BY <3>2, <3>4 DEF Takes, Reads
    <3>6. worker[w].batch \in Seq(In(t)) BY <1>1, <2>1, ReadingOf DEF Busy
    <3>7. Final(t) \in In(t) BY <2>4, FinalOf DEF Final, In
    <3> QED BY <3>5, <3>6, <3>7, AppendProperties
  <2> QED BY <1>5, <2>1, <2>4
<1>8. CASE HoldsHead(w)
  <2>1. At(w, "reading") /\ Reading(w) /\ worker[w].turn = t
        /\ worker'[w].pc = "reading" /\ worker'[w].pos = worker[w].pos
    BY <1>8 DEF HoldsHead
  <2>2. ~(worker'[w].pos > Len(Payload[t])) BY <1>3, <2>1, CurrentIs
  <2> QED BY <1>5, <2>1, <2>2
<1>9. CASE Obeys(w)
  <2>1. worker'[w].pc = "acknowledging" BY <1>9 DEF Obeys, Stays
  <2> QED BY <1>4, <2>1 DEF Speaks, At
<1>10. CASE Confirms(w)
  <2>1. worker[w].pc = "acknowledging" /\ worker[w].turn = t
        /\ worker'[w].pc = "reading" /\ worker'[w].pos = worker[w].pos + 1
    BY <1>10 DEF Confirms, At
  <2>2. Accounted(w, t) BY <2>1 DEF RecordInv
  <2>3. worker[w].pos <= Len(Payload[t]) /\ Kind[Payload[t][worker[w].pos]] = "command"
    BY <2>1, <2>2 DEF Accounted, Early
  <2>4. worker[w].pos \in Nat \ {0} BY <1>1, <2>1 DEF WorkerInv, Busy
  <2>5. ~(Ends(t) /\ worker'[w].pos > Len(Payload[t]))
    <3> SUFFICES ASSUME Ends(t), worker'[w].pos > Len(Payload[t]) PROVE FALSE OBVIOUS
    <3>1. worker[w].pos = Len(Payload[t]) BY <1>3, <2>1, <2>3, <2>4
    <3>2. Kind[Final(t)] = "command" BY <2>3, <3>1 DEF Final
    <3> QED BY <3>2, FinalOf
  <2> QED BY <1>5, <2>1, <2>5
<1>11. ASSUME At(w, "reading"), ~Reading(w), worker[w].turn = t
       PROVE  /\ Speaks(w, t) /\ worker[w].pc # "idle"
              /\ Ends(t) => worker[w].batch # <<>> /\ Last(w) = Final(t)
  <2>1. Speaks(w, t) /\ worker[w].pc = "reading" BY <1>11 DEF TextInv, At
  <2>2. worker[w].pos > Len(Payload[t])
    BY <1>1, <1>3, <1>11, ReadingOf DEF Reading, Busy
  <2> QED BY <2>1, <2>2 DEF Speaks
<1>12. CASE ReadsNothing(w)
  <2>1. At(w, "reading") /\ ~Reading(w) /\ worker[w].turn = t /\ worker[w].batch = <<>>
        /\ worker'[w].pc = "done"
    BY <1>12 DEF ReadsNothing, Stays
  <2>2. ~Ends(t) BY <1>11, <2>1
  <2>3. Texted(t)' BY <2>2 DEF Texted, Ends, Final
  <2>4. "done" \notin Answering BY DEF Answering, LoggingPcs
  <2> QED BY <1>4, <2>1, <2>2, <2>3, <2>4 DEF Speaks, At, Ends, Final
<1>13. CASE StoresBatch(w)
  <2>1. At(w, "reading") /\ ~Reading(w) /\ worker[w].turn = t /\ worker[w].batch # <<>>
        /\ worker'[w].batch = worker[w].batch
        /\ AddsRows(PhoneOf[t], Inbounds(worker[w].batch))
    BY <1>13 DEF StoresBatch, Stays, Phone
  <2>2. Ends(t) => Last(w) = Final(t) BY <1>11, <2>1
  <2>3. (Last(w))' = Last(w) BY <2>1 DEF Last
  <2>4. CASE worker'[w].pc = "done" /\ held' = held \cup {worker[w].turn}
    <3>1. t \in held' BY <2>1, <2>4
    <3>2. Texted(t)' BY <3>1 DEF Texted
    <3>3. "done" \notin Answering BY DEF Answering, LoggingPcs
    <3> QED BY <1>4, <2>4, <3>2, <3>3 DEF Speaks, At, Ends, Final
  <2>5. CASE worker'[w].pc = "preparing"
    <3>1. ASSUME NEW m \in Messages, Last(w) = m
          PROVE  Stored(PhoneOf[t], m, Len(history[PhoneOf[t]]))'
      <4>1. PICK p \in Phones : p = PhoneOf[t] BY <1>3
      <4>2. PICK rows \in Seq(HistoryRow) : rows = Inbounds(worker[w].batch)
        BY <1>1, <2>1, BatchRows
      <4>3. Len(rows) = Len(worker[w].batch) /\ Len(rows) \in 1 .. Len(rows)
            /\ rows[Len(rows)] = Inbound(m)
        <5>1. Len(rows) = Len(worker[w].batch) /\ Len(rows) \in Nat
          BY <1>1, <2>1, <4>2, BatchRows
        <5>2. worker[w].batch \in Seq(In(t)) BY <1>1, <2>1, ReadingOf DEF Busy
        <5>3. Len(worker[w].batch) # 0 BY <2>1, <5>2
        <5>4. Len(rows) \in 1 .. Len(worker[w].batch) BY <5>1, <5>3
        <5> QED BY <1>1, <2>1, <3>1, <4>2, <5>1, <5>4, BatchRows DEF Last
      <4>4. history[p] \in Seq(HistoryRow) /\ history'[p] = history[p] \o rows
        BY <1>1, <2>1, <4>1, <4>2 DEF HistoryInv, AddsRows
      <4>5. Len(history'[p]) = Len(history[p]) + Len(rows)
            /\ history'[p][Len(history[p]) + Len(rows)] = rows[Len(rows)]
            /\ Len(history[p]) + Len(rows) \in 1 .. Len(history'[p])
        <5>1. Len(history[p]) \in Nat /\ Len(history'[p]) = Len(history[p]) + Len(rows)
          BY <4>4
        <5>2. \A i \in 1 .. Len(rows) : history'[p][Len(history[p]) + i] = rows[i]
          BY <4>4
        <5>3. history'[p][Len(history[p]) + Len(rows)] = rows[Len(rows)] BY <4>3, <5>2
        <5>4. Len(rows) \in Nat \ {0} BY <4>3
        <5>5. Len(history[p]) + Len(rows) \in 1 .. Len(history[p]) + Len(rows)
          BY <5>1, <5>4
        <5> QED BY <5>1, <5>3, <5>5
      <4>6. rows[Len(rows)].dir = "in" /\ rows[Len(rows)].id = m BY <4>3 DEF Inbound
      <4>7. Stored(p, m, Len(history[p]))' BY <4>5, <4>6 DEF Stored
      <4> QED BY <4>1, <4>7
    <3>2. "preparing" \in Answering /\ "preparing" \notin AfterTexts
      BY DEF Answering, AfterTexts
    <3> QED BY <1>4, <2>1, <2>2, <2>3, <2>5, <3>1, <3>2 DEF Speaks, At, Ends, Final
  <2> QED BY <1>13, <2>4, <2>5 DEF StoresBatch, Stays
<1>14. ASSUME NEW pc, GoesOn(w, pc) PROVE Speaks(w, t)'
  <2>1. worker[w].pc \in Later /\ pc \in Later /\ worker'[w].pc = pc
        /\ worker[w].turn = t /\ worker'[w].batch = worker[w].batch
        /\ (pc \in Answering => worker[w].pc \in Answering)
    BY <1>14 DEF GoesOn, Stays
  <2>2. worker[w].pc # "idle" /\ pc # "reading"
    BY <2>1 DEF Later, Answering, LoggingPcs
  <2>3. Speaks(w, t) BY <2>1, <2>2 DEF TextInv
  <2>4. (Last(w))' = Last(w) BY <2>1 DEF Last
  <2>5. Phone(w) = PhoneOf[t] BY <2>1 DEF Phone
  <2>6. ASSUME NEW m \in Messages, pc \in Answering, Last(w) = m
        PROVE  Stored(PhoneOf[t], m, Len(history[PhoneOf[t]]))'
    <3>1. Stored(PhoneOf[t], m, Len(history[PhoneOf[t]])) BY <2>1, <2>3, <2>6 DEF Speaks
    <3> QED BY <1>1, <1>2, <1>3, <3>1, StoredLonger
  <2>7. ASSUME NEW k \in Answers, NEW m \in Messages, Logging(w, k)', Last(w) = m
        PROVE  delivered'[<<m, k>>] > 0
    <3>1. Sending(w, k) /\ Deliver(w, k) BY <1>14, <2>7 DEF GoesOn
    <3> QED BY <2>7, <3>1, DeliverCounts
  <2>8. ASSUME pc \in AfterTexts PROVE Texted(t)'
    <3>1. CASE worker[w].pc \in AfterTexts
      <4>1. Texted(t) BY <2>3, <3>1 DEF Speaks
      <4> QED BY <1>2, <4>1, TextedKept
    <3>2. CASE worker[w].pc \notin AfterTexts
      <4>1. worker[w].pc \in Answering
        BY <2>1, <3>2 DEF AfterTexts, Later, Answering, LoggingPcs
      <4>2. PICK m \in Messages : m = Last(w) BY <1>1, <4>1, LastOf
      <4>3. Ends(t) => m = Final(t) BY <2>3, <4>1, <4>2 DEF Speaks
      <4>4. "text" \in Answers BY DEF Answers
      <4>5. CASE Sending(w, "text") /\ Deliver(w, "text")
        <5>1. delivered'[<<m, "text">>] > 0 BY <4>2, <4>4, <4>5, DeliverCounts
        <5> QED BY <4>3, <5>1 DEF Texted, Ends, Final
      <4>6. CASE AlreadySent(Phone(w), "text", Last(w))
        <5>1. PICK p \in Phones : p = PhoneOf[t] BY <1>3
        <5>2. AlreadySent(p, "text", m) BY <2>5, <4>2, <4>6, <5>1
        <5>3. delivered[<<m, "text">>] > 0 \/ ManualIn(p)
          BY <5>2, SkippedText DEF TextInv
        <5>4. Texted(t) BY <4>3, <5>1, <5>3 DEF Texted
        <5> QED BY <1>2, <5>4, TextedKept
      <4> QED BY <1>14, <2>8, <3>2, <4>5, <4>6 DEF GoesOn
    <3> QED BY <3>1, <3>2
  <2>9. Ends(t) /\ pc \in Answering => worker[w].batch # <<>> /\ Last(w) = Final(t)
    BY <2>1, <2>3 DEF Speaks
  <2> QED BY <2>1, <2>2, <2>4, <2>6, <2>7, <2>8, <2>9 DEF Speaks, At, Ends, Final
<1>15. ~Leaves(w) BY DEF Leaves
<1> QED BY <1>6, <1>7, <1>8, <1>9, <1>10, <1>12, <1>13, <1>14, <1>15 DEF TurnKinds

LEMMA RowsAnswerStep ==
  ASSUME SendInv, TextInv, NEW w \in Workers, TurnKinds(w)
  PROVE  RowsAnswer'
<1>1. WorkerInv /\ HistoryInv BY DEF SendInv
<1>2. Remembers /\ Longer BY StepRemembers DEF Remembers
<1>3. NewRows(w) BY RowsLonger
<1> SUFFICES ASSUME NEW p \in Phones, NEW m \in Messages, NEW a \in Answers,
                    NEW k \in Nat \ {0}, AnswerRow(p, k, m, a)'
             PROVE  delivered'[<<m, a>>] > 0 /\ Stored(p, m, k - 1)'
  BY DEF RowsAnswer
<1>4. k <= Len(history'[p]) /\ m # "none" /\ history'[p][k].dir = "out"
      /\ history'[p][k].source = m /\ history'[p][k].kind = a
  BY DEF AnswerRow
<1>5. Len(history[p]) \in Nat /\ <<m, a>> \in Keys BY <1>1 DEF HistoryInv, Keys
<1>6. CASE k <= Len(history[p])
  <2>1. history'[p][k] = history[p][k] BY <1>2, <1>5, <1>6 DEF Longer
  <2>2. AnswerRow(p, k, m, a) BY <1>4, <1>6, <2>1 DEF AnswerRow
  <2>3. delivered[<<m, a>>] > 0 /\ Stored(p, m, k - 1) BY <2>2 DEF TextInv, RowsAnswer
  <2>4. k - 1 \in Nat /\ k - 1 <= Len(history[p]) BY <1>5, <1>6
  <2>5. Stored(p, m, k - 1)' BY <1>1, <1>2, <2>3, <2>4, StoredKept
  <2> QED BY <1>2, <1>5, <2>3, <2>5 DEF Remembers
<1>7. CASE k > Len(history[p])
  <2>1. k \in 1 .. Len(history'[p]) BY <1>4, <1>5, <1>7
  <2>2. worker[w].pc # "idle" /\ p = Phone(w) /\ RowOf(w, history'[p][k])
    BY <1>3, <1>7, <2>1 DEF NewRows
  <2>3. PICK t \in Turns : t = worker[w].turn BY <1>1, <2>2 DEF WorkerInv, Busy
  <2>4. Speaks(w, t) /\ p = PhoneOf[t] BY <2>2, <2>3 DEF TextInv, Phone
  <2>5. Logging(w, a) /\ Last(w) = m
    <3>1. \A x : history'[p][k] # Inbound(x) BY <1>4 DEF Inbound
    <3>2. \A x : history'[p][k] # ManualRow(x) BY <1>4 DEF ManualRow
    <3>3. PICK j \in Answers : Logging(w, j) /\ history'[p][k] = Outbound(j, Last(w))
      BY <2>2, <3>1, <3>2 DEF RowOf
    <3>4. j = a /\ Last(w) = m BY <1>4, <3>3 DEF Outbound
    <3> QED BY <3>3, <3>4
  <2>6. worker[w].pc \in Answering BY <2>5, LoggingPc DEF Logging, At, Answering
  <2>7. delivered[<<m, a>>] > 0 /\ Stored(p, m, Len(history[p]))
    BY <2>4, <2>5, <2>6 DEF Speaks
  <2>8. k - 1 \in Nat /\ Len(history[p]) <= k - 1 BY <1>5, <1>7
  <2>9. Stored(p, m, k - 1)' BY <1>1, <1>2, <1>5, <2>7, <2>8, StoredKept
  <2> QED BY <1>2, <1>5, <2>7, <2>9 DEF Remembers
<1> QED BY <1>5, <1>6, <1>7

LEMMA TextNext ==
  ASSUME SendInv, SendInv', RecordInv, TextInv, [Next]_vars
  PROVE  TextInv'
<1>1. CASE Elsewhere
  <2>1. Remembers BY <1>1, ElsewhereRemembers
  <2>2. RowsAnswer' BY <1>1 DEF Elsewhere, TextInv, RowsAnswer, AnswerRow, Stored
  <2>3. ASSUME NEW t \in Turns, turn'[t].status = "done" PROVE Texted(t)'
    BY <1>1, <2>1, <2>3, TextedKept DEF Elsewhere, TextInv
  <2>4. ASSUME NEW w \in Workers, NEW t \in Turns, worker'[w].pc # "idle",
               worker'[w].turn = t
        PROVE  Speaks(w, t)'
    BY <1>1, <2>1, <2>4, SpeaksKept DEF Elsewhere, TextInv
  <2> QED BY <2>2, <2>3, <2>4 DEF TextInv
<1>2. ASSUME NEW w \in Workers, TurnKinds(w) PROVE TextInv'
  <2>1. Remembers BY <1>2, StepRemembers
  <2>2. RowsAnswer' BY <1>2, RowsAnswerStep
  <2>3. ASSUME NEW t \in Turns, turn'[t].status = "done" PROVE Texted(t)'
    <3>1. CASE turn[t].status = "done" BY <2>1, <3>1, TextedKept DEF TextInv
    <3>2. CASE turn[t].status # "done"
      <4>1. ~Claim(w, t)
        <5>1. Turn("processing", turn[t].attempts + 1).status # "done" BY DEF Turn
        <5> QED BY <2>3, <5>1 DEF Claim, SendInv, WorkerInv
      <4>2. worker[w].turn = t /\ worker[w].pc = "done"
        BY <1>2, <2>3, <3>2, <4>1, TurnsOf
      <4>3. worker[w].pc \in AfterTexts BY <4>2 DEF AfterTexts, Later
      <4>4. Texted(t) BY <4>2, <4>3 DEF TextInv, Speaks
      <4> QED BY <2>1, <4>4, TextedKept
    <3> QED BY <3>1, <3>2
  <2>4. ASSUME NEW v \in Workers, NEW t \in Turns, worker'[v].pc # "idle",
               worker'[v].turn = t
        PROVE  Speaks(v, t)'
    <3>1. CASE v = w
      <4>1. Speaks(w, t)' BY <1>2, <2>4, <3>1, SpeaksStep
      <4> QED BY <3>1, <4>1
    <3>2. CASE v # w
      <4>1. worker'[v] = worker[v] BY <1>2, <3>2, OthersStay
      <4>2. Speaks(v, t) BY <2>4, <4>1 DEF TextInv
      <4> QED BY <2>1, <4>1, <4>2, SpeaksKept
    <3> QED BY <3>1, <3>2
  <2> QED BY <2>2, <2>3, <2>4 DEF TextInv
<1> QED BY <1>1, <1>2, StepKinds

(* The search for an earlier answer never swallows one: a finished turn    *)
(* that ends in a customer message was answered or held, unless the store  *)
(* wrote by hand (outbound_message_exists also accepts rows that name no   *)
(* message, but only below the message's own row and above the next).      *)
THEOREM TurnsAnswered == Spec => []FinishedTurnsAnswered
<1>1. Init => TextInv
  <2> SUFFICES ASSUME Init PROVE TextInv OBVIOUS
  <2>1. \A w \in Workers : worker[w].pc = "idle" BY DEF Init, Idle
  <2>2. \A t \in Turns : turn[t].status # "done" BY DEF Init, Turn
  <2>3. RowsAnswer BY DEF Init, RowsAnswer, AnswerRow
  <2> QED BY <2>1, <2>2, <2>3 DEF TextInv
<1>2. TextInv => FinishedTurnsAnswered
  BY DEF TextInv, Texted, Ends, Final, ManualIn, FinishedTurnsAnswered
<1>3. SendInv /\ RecordInv /\ TextInv /\ [Next]_vars => (SendInv /\ RecordInv /\ TextInv)'
  BY NextSend, RecordNext, TextNext
<1> QED BY <1>1, <1>2, <1>3, InitSend, InitRecord, PTL DEF Spec
-----------------------------------------------------------------------------
(* In the first attempt of a turn no answer meets a manual reply.          *)
NoManual(t, i, n) ==
  \A k \in i + 1 .. Len(Payload[t]) : k < n => Kind[Payload[t][k]] # "manual"
Fresh(t) ==
  \A i \in 1 .. Len(Payload[t]) :
    Payload[t][i] \notin answered /\ ~Recorded(PhoneOf[t], Payload[t][i])

(* The reader of a first attempt keeps no message in its batch that stands *)
(* before a manual one, and the manual ones before it are not recorded.    *)
Attentive(w, t) ==
  /\ worker[w].pc \in Answering => worker[w].pos > Len(Payload[t])
  /\ \A i \in 1 .. Len(Payload[t]) :
       /\ i >= worker[w].pos /\ Kind[Payload[t][i]] = "manual" =>
            ~Recorded(PhoneOf[t], Payload[t][i])
       /\ InSeq(Payload[t][i], worker[w].batch) =>
            i < worker[w].pos /\ NoManual(t, i, worker[w].pos)
FirstInv ==
  /\ ManualReplyHoldsFirstAttempt
  /\ \A t \in Turns : /\ turn[t].attempts \in Nat
                      /\ turn[t].status = "processing" => turn[t].attempts > 0
                      /\ turn[t].attempts = 0 => Fresh(t)
  /\ \A w \in Workers, t \in Turns :
       worker[w].pc # "idle" /\ worker[w].turn = t /\ turn[t].attempts = 1
         => Attentive(w, t)

LEMMA OnePlace ==
  ASSUME NEW t \in Turns, NEW i \in 1 .. Len(Payload[t]), NEW j \in 1 .. Len(Payload[t]),
         Payload[t][i] = Payload[t][j]
  PROVE  i = j
BY PayloadAssumption

LEMMA BatchIn ==
  ASSUME WorkerInv, NEW w \in Workers, worker[w].pc # "idle", NEW m,
         InSeq(m, worker[w].batch)
  PROVE  worker[w].turn \in Turns /\ m \in In(worker[w].turn)
<1>1. worker[w].turn \in Turns /\ worker[w].batch \in Seq(In(worker[w].turn))
  BY DEF WorkerInv, Busy
<1> QED BY <1>1 DEF InSeq

(* A step records only what its worker has read, and answers its batch.    *)
LEMMA NewlyRecorded ==
  ASSUME SendInv, NEW w \in Workers, TurnKinds(w), NEW p \in Phones, NEW m \in Messages,
         Recorded(p, m)', ~Recorded(p, m)
  PROVE  /\ worker[w].pc # "idle" /\ p = Phone(w)
         /\ InSeq(m, worker[w].batch) \/ (RecordsManual(w) /\ m = Current(w))
<1>1. HistoryInv' /\ Longer /\ NewRows(w) BY RowsLonger
<1>2. Len(history[p]) \in Nat /\ Len(history'[p]) \in Nat
  BY <1>1 DEF SendInv, HistoryInv
<1>3. PICK i \in 1 .. Len(history'[p]) : history'[p][i].id = m BY DEF Recorded, Rows
<1>4. i > Len(history[p])
  <2> SUFFICES ASSUME i <= Len(history[p]) PROVE FALSE BY <1>2
  <2>1. i \in 1 .. Len(history[p]) BY <1>2
  <2>2. history[p][i].id = m BY <1>1, <1>3, <2>1 DEF Longer
  <2> QED BY <2>1, <2>2 DEF Recorded, Rows
<1>5. worker[w].pc # "idle" /\ p = Phone(w) /\ RowOf(w, history'[p][i])
  BY <1>1, <1>4 DEF NewRows
<1>6. CASE \E x \in In(worker[w].turn) : InSeq(x, worker[w].batch)
                                         /\ history'[p][i] = Inbound(x)
  BY <1>3, <1>5, <1>6 DEF Inbound
<1>7. CASE RecordsManual(w) /\ history'[p][i] = ManualRow(Current(w))
  BY <1>3, <1>5, <1>7 DEF ManualRow
<1>8. CASE \E k \in Answers : history'[p][i] = Outbound(k, Last(w))
  <2>1. m = "sent" BY <1>3, <1>8 DEF Outbound
  <2> QED BY <2>1, PayloadAssumption
<1> QED BY <1>5, <1>6, <1>7, <1>8 DEF RowOf

LEMMA RecordedIn ==
  ASSUME SendInv, NEW w \in Workers, TurnKinds(w), NEW p \in Phones, NEW m \in Messages,
         Recorded(p, m)', ~Recorded(p, m)
  PROVE  /\ worker[w].pc # "idle" /\ worker[w].turn \in Turns
         /\ m \in In(worker[w].turn)
<1>1. WorkerInv BY DEF SendInv
<1>2. worker[w].pc # "idle" BY NewlyRecorded
<1>3. CASE InSeq(m, worker[w].batch) BY <1>1, <1>2, <1>3, BatchIn
<1>4. CASE RecordsManual(w) /\ m = Current(w)
  <2>1. At(w, "reading") /\ Reading(w) BY <1>4 DEF RecordsManual, Reads
  <2> QED BY <1>1, <1>2, <1>4, <2>1, ReadingOf DEF Busy
<1> QED BY <1>3, <1>4, NewlyRecorded

LEMMA NewlyAnswered ==
  ASSUME SendInv, NEW w \in Workers, TurnKinds(w), NEW m, m \in answered', m \notin answered
  PROVE  /\ worker[w].pc \in Answering /\ worker[w].pc # "idle"
         /\ InSeq(m, worker[w].batch)
         /\ worker[w].turn \in Turns /\ m \in In(worker[w].turn)
<1>1. PICK k \in Answers : Sending(w, k) /\ Deliver(w, k) BY SendsOf DEF Sends
<1>2. worker[w].pc \in Answering BY <1>1, SendingLast
<1>3. worker[w].pc # "idle" BY <1>2 DEF Answering, LoggingPcs
<1>4. m \in {worker[w].batch[i] : i \in 1 .. Len(worker[w].batch)} BY <1>1 DEF Deliver
<1>5. InSeq(m, worker[w].batch) BY <1>4 DEF InSeq
<1> QED BY <1>2, <1>3, <1>5, BatchIn DEF SendInv

(* The reader looks at the next message, which is no manual one.           *)
LEMMA NoManualOn ==
  ASSUME NEW t \in Turns, NEW n \in 1 .. Len(Payload[t]), Kind[Payload[t][n]] # "manual",
         NEW i \in 1 .. Len(Payload[t]), NoManual(t, i, n)
  PROVE  NoManual(t, i, n + 1)
<1> SUFFICES ASSUME NEW k \in i + 1 .. Len(Payload[t]), k < n + 1
             PROVE  Kind[Payload[t][k]] # "manual"
  BY DEF NoManual
<1>1. Len(Payload[t]) \in Nat BY PayloadOf
<1>2. k = n \/ k < n BY <1>1
<1> QED BY <1>2 DEF NoManual

(* The rows of a step leave what is not read yet unrecorded.               *)
LEMMA UnreadKept ==
  ASSUME SendInv, NEW w \in Workers, TurnKinds(w), NEW t \in Turns, worker[w].turn = t,
         worker[w].pc # "idle", Attentive(w, t), worker'[w].pos >= worker[w].pos,
         RecordsManual(w) => worker'[w].pos = worker[w].pos + 1,
         worker'[w].pos \in Nat,
         NEW i \in 1 .. Len(Payload[t]), i >= worker'[w].pos, Kind[Payload[t][i]] = "manual"
  PROVE  ~Recorded(PhoneOf[t], Payload[t][i])'
<1>1. WorkerInv BY DEF SendInv
<1>2. PICK m \in Messages, p \in Phones : m = Payload[t][i] /\ p = PhoneOf[t]
  BY PayloadOf
<1>3. worker[w].pos \in Nat /\ i >= worker[w].pos BY <1>1 DEF WorkerInv, Busy
<1>4. ~Recorded(p, m) BY <1>2, <1>3 DEF Attentive
<1>5. ASSUME Recorded(p, m)' PROVE FALSE
  <2>1. CASE InSeq(m, worker[w].batch)
    <3>1. i < worker[w].pos BY <1>2, <2>1 DEF Attentive
    <3> QED BY <1>3, <3>1
  <2>2. CASE RecordsManual(w) /\ m = Current(w)
    <3>1. At(w, "reading") /\ Reading(w) BY <2>2 DEF RecordsManual, Reads
    <3>2. PICK n \in 1 .. Len(Payload[t]) : n = worker[w].pos BY <3>1, CurrentIs
    <3>3. Payload[t][n] = Payload[t][i] BY <1>2, <2>2, <3>1, <3>2, CurrentIs
    <3>4. n = i BY <3>3, OnePlace
    <3> QED BY <1>3, <2>2, <3>2, <3>4
  <2> QED BY <1>4, <1>5, <2>1, <2>2, NewlyRecorded
<1> QED BY <1>2, <1>5

(* Its worker reads a first attempt on.                                    *)
LEMMA AttentiveStep ==
  ASSUME SendInv, RecordInv, NEW w \in Workers, TurnKinds(w), NEW t \in Turns,
         worker[w].pc # "idle", worker[w].turn = t, Attentive(w, t),
         worker'[w].pc # "idle"
  PROVE  Attentive(w, t)'
<1>1. WorkerInv /\ Busy(w) BY DEF SendInv, WorkerInv
<1>2. worker[w].pos \in Nat /\ worker[w].batch \in Seq(In(t)) BY <1>1 DEF Busy
<1>3. Payload[t] \in Seq(Messages) BY PayloadOf
<1>4. "reading" \notin Answering /\ "acknowledging" \notin Answering /\ "done" \notin Answering
  BY DEF Answering, LoggingPcs
<1>5. ASSUME worker'[w].pos \in Nat, worker'[w].pos >= worker[w].pos,
             RecordsManual(w) => worker'[w].pos = worker[w].pos + 1,
             worker'[w].pc \in Answering => worker'[w].pos > Len(Payload[t]),
             \A i \in 1 .. Len(Payload[t]) : InSeq(Payload[t][i], worker'[w].batch) =>
               i < worker'[w].pos /\ NoManual(t, i, worker'[w].pos)
      PROVE  Attentive(w, t)'
  <2>1. \A i \in 1 .. Len(Payload[t]) :
          i >= worker'[w].pos /\ Kind[Payload[t][i]] = "manual" =>
            ~Recorded(PhoneOf[t], Payload[t][i])'
    BY <1>5, UnreadKept
  <2> QED BY <1>5, <2>1 DEF Attentive, InSeq, NoManual
<1>6. ASSUME worker'[w].pos = worker[w].pos, ~RecordsManual(w),
             worker'[w].pc \in Answering => worker[w].pos > Len(Payload[t]),
             \A m : InSeq(m, worker'[w].batch) => InSeq(m, worker[w].batch)
      PROVE  Attentive(w, t)'
  BY <1>2, <1>5, <1>6 DEF Attentive
<1>7. ASSUME NEW n \in 1 .. Len(Payload[t]), n = worker[w].pos, worker'[w].pos = n + 1,
             worker'[w].pc = "reading", Kind[Payload[t][n]] # "manual",
             \A m : InSeq(m, worker'[w].batch) =>
                      InSeq(m, worker[w].batch) \/ m = Payload[t][n]
      PROVE  Attentive(w, t)'
  <2>1. ASSUME NEW i \in 1 .. Len(Payload[t]), InSeq(Payload[t][i], worker'[w].batch)
        PROVE  i < n + 1 /\ NoManual(t, i, n + 1)
    <3>1. CASE InSeq(Payload[t][i], worker[w].batch)
      <4>1. i < n /\ NoManual(t, i, n) BY <1>7, <3>1 DEF Attentive
      <4> QED BY <1>3, <1>7, <4>1, NoManualOn
    <3>2. CASE Payload[t][i] = Payload[t][n]
      <4>1. i = n BY <3>2, OnePlace
      <4>2. NoManual(t, n, n + 1) BY <1>3 DEF NoManual
      <4> QED BY <1>3, <4>1, <4>2
    <3> QED BY <1>7, <2>1, <3>1, <3>2
  <2>2. n \in Nat BY <1>3
  <2> QED BY <1>4, <1>5, <1>7, <2>1, <2>2
<1>8. CASE Passes(w) \/ Takes(w) \/ RecordsManual(w)
  <2>1. At(w, "reading") /\ Reading(w)
        /\ worker'[w].pc = "reading" /\ worker'[w].pos = worker[w].pos + 1
    BY <1>8 DEF Passes, Takes, RecordsManual, Reads
  <2>2. PICK n \in 1 .. Len(Payload[t]) : n = worker[w].pos BY <2>1, CurrentIs
  <2>3. Current(w) = Payload[t][n] /\ Phone(w) = PhoneOf[t] BY <2>1, <2>2, CurrentIs
  <2>4. CASE Passes(w)
    <3>1. Kind[Payload[t][n]] # "manual"
      <4> SUFFICES ASSUME Kind[Payload[t][n]] = "manual" PROVE FALSE OBVIOUS
      <4>1. Recorded(PhoneOf[t], Payload[t][n]) BY <2>3, <2>4 DEF Passes
      <4>2. n >= worker[w].pos BY <1>2, <2>2
      <4> QED BY <4>1, <4>2 DEF Attentive
    <3>2. worker'[w].batch = worker[w].batch BY <2>4 DEF Passes, Reads
    <3> QED BY <1>7, <2>1, <2>2, <3>1, <3>2
  <2>5. CASE Takes(w)
    <3>1. Kind[Payload[t][n]] # "manual" BY <2>3, <2>5 DEF Takes
    <3>2. worker'[w].batch = Append(worker[w].batch, Payload[t][n])
      BY <2>3, <2>5 DEF Takes, Reads
    <3>3. PICK b \in Seq(In(t)) : b = worker[w].batch BY <1>2
    <3>4. PICK x \in In(t) : x = Payload[t][n] BY DEF In
    <3>5. Len(Append(b, x)) = Len(b) + 1 /\ Append(b, x)[Len(b) + 1] = x
          /\ \A j \in 1 .. Len(b) : Append(b, x)[j] = b[j]
      BY <3>3, AppendProperties
    <3>6. ASSUME NEW m, InSeq(m, Append(b, x)) PROVE InSeq(m, b) \/ m = x
      <4>1. PICK j \in 1 .. Len(b) + 1 : Append(b, x)[j] = m BY <3>5, <3>6 DEF InSeq
      <4>2. CASE j = Len(b) + 1 BY <3>5, <4>1, <4>2
      <4>3. CASE j # Len(b) + 1
        <5>1. j \in 1 .. Len(b) BY <3>3, <4>3
        <5> QED BY <3>5, <4>1, <5>1 DEF InSeq
      <4> QED BY <4>2, <4>3
    <3>7. \A m : InSeq(m, worker'[w].batch) =>
                   InSeq(m, worker[w].batch) \/ m = Payload[t][n]
      BY <3>2, <3>3, <3>4, <3>6
    <3> QED BY <1>7, <2>1, <2>2, <3>1, <3>7
  <2>6. CASE RecordsManual(w)
    <3>1. worker'[w].batch = <<>> BY <2>6 DEF RecordsManual, Reads
    <3>2. \A m : ~InSeq(m, worker'[w].batch) BY <3>1 DEF InSeq
    <3>3. worker'[w].pos \in Nat /\ worker'[w].pos >= worker[w].pos BY <1>2, <2>1
    <3> QED BY <1>4, <1>5, <2>1, <3>2, <3>3
  <2> QED BY <1>8, <2>4, <2>5, <2>6
<1>9. CASE HoldsHead(w)
  <2>1. At(w, "reading") /\ worker[w].batch # <<>> /\ worker'[w].pc = "reading"
        /\ worker'[w].pos = worker[w].pos
    BY <1>9 DEF HoldsHead
  <2>2. PICK b \in Seq(In(t)) : b = worker[w].batch /\ b # <<>> BY <1>2, <2>1
  <2>3. worker'[w].batch = Tail(b) BY <1>9, <2>2 DEF HoldsHead
  <2>4. Len(b) \in Nat /\ Len(Tail(b)) = Len(b) - 1
        /\ \A j \in 1 .. Len(Tail(b)) : Tail(b)[j] = b[j + 1]
    BY <2>2, HeadTailProperties
  <2>5. ASSUME NEW m, InSeq(m, Tail(b)) PROVE InSeq(m, b)
    <3>1. PICK j \in 1 .. Len(Tail(b)) : Tail(b)[j] = m BY <2>5 DEF InSeq
    <3>2. j + 1 \in 1 .. Len(b) /\ b[j + 1] = m BY <2>4, <3>1
    <3> QED BY <3>2 DEF InSeq
  <2>6. ~RecordsManual(w) BY <2>1 DEF RecordsManual
  <2> QED BY <1>4, <1>6, <2>1, <2>2, <2>3, <2>5, <2>6
<1>10. CASE Obeys(w) \/ ReadsNothing(w)
  <2>1. worker'[w].batch = worker[w].batch /\ worker'[w].pos = worker[w].pos
        /\ worker'[w].pc \in {"acknowledging", "done"}
    BY <1>10 DEF Obeys, ReadsNothing, Stays
  <2>2. ~RecordsManual(w) BY <2>1 DEF RecordsManual, Reads
  <2> QED BY <1>4, <1>6, <2>1, <2>2
<1>11. CASE Confirms(w)
  <2>1. worker[w].pc = "acknowledging" /\ worker'[w].pc = "reading"
        /\ worker'[w].pos = worker[w].pos + 1 /\ worker'[w].batch = worker[w].batch
    BY <1>11 DEF Confirms, At
  <2>2. Accounted(w, t) BY DEF RecordInv
  <2>3. worker[w].pos <= Len(Payload[t]) /\ Kind[Payload[t][worker[w].pos]] = "command"
    BY <2>1, <2>2 DEF Accounted, Early
  <2>4. PICK n \in 1 .. Len(Payload[t]) : n = worker[w].pos
    BY <1>1, <1>3, <2>3 DEF Busy
  <2>5. Kind[Payload[t][n]] # "manual" BY <2>3, <2>4
  <2> QED BY <1>7, <2>1, <2>4, <2>5
<1>12. CASE StoresBatch(w)
  <2>1. At(w, "reading") /\ ~Reading(w) /\ worker'[w].batch = worker[w].batch
        /\ worker'[w].pos = worker[w].pos
    BY <1>12 DEF StoresBatch, Stays
  <2>2. worker[w].pos > Len(Payload[t]) BY <1>2, <1>3, <2>1 DEF Reading
  <2>3. ~RecordsManual(w) BY <2>1 DEF RecordsManual, Reads
  <2> QED BY <1>6, <2>1, <2>2, <2>3
<1>13. ASSUME NEW pc, GoesOn(w, pc) PROVE Attentive(w, t)'
  <2>1. worker'[w].pc = pc /\ worker'[w].batch = worker[w].batch
        /\ worker'[w].pos = worker[w].pos
        /\ (pc \in Answering => worker[w].pc \in Answering) /\ worker[w].pc \in Later
    BY <1>13 DEF GoesOn, Stays
  <2>2. pc \in Answering => worker[w].pos > Len(Payload[t]) BY <2>1 DEF Attentive
  <2>3. ~RecordsManual(w)
    BY <2>1 DEF RecordsManual, Reads, At, Later, Answering, LoggingPcs
  <2> QED BY <1>6, <2>1, <2>2, <2>3
<1>14. ~Leaves(w) /\ \A u \in Turns : ~Claim(w, u) BY DEF Leaves, Claim, At
<1> QED BY <1>8, <1>9, <1>10, <1>11, <1>12, <1>13, <1>14 DEF TurnKinds

(* The reader of another turn is not disturbed.                            *)
LEMMA AttentiveKept ==
  ASSUME SendInv, NEW v \in Workers, TurnKinds(v), NEW w \in Workers \ {v},
         NEW t \in Turns, worker[w].pc # "idle", worker[w].turn = t, Attentive(w, t)
  PROVE  Attentive(w, t)'
<1>1. WorkerInv BY DEF SendInv
<1>2. worker'[w] = worker[w] BY OthersStay
<1>3. ASSUME NEW i \in 1 .. Len(Payload[t]), i >= worker[w].pos,
             Kind[Payload[t][i]] = "manual"
      PROVE  ~Recorded(PhoneOf[t], Payload[t][i])'
  <2>1. PICK m \in Messages, p \in Phones : m = Payload[t][i] /\ p = PhoneOf[t]
    BY PayloadOf
  <2>2. ~Recorded(p, m) BY <1>3, <2>1 DEF Attentive
  <2>3. ASSUME Recorded(p, m)' PROVE FALSE
    <3>1. worker[v].pc # "idle" /\ worker[v].turn \in Turns /\ m \in In(worker[v].turn)
      BY <2>2, <2>3, RecordedIn
    <3>2. m \in In(t) BY <2>1 DEF In
    <3>3. worker[v].turn = t BY <3>1, <3>2, PayloadOf
    <3> QED BY <1>1, <3>1, <3>3 DEF WorkerInv
  <2> QED BY <2>1, <2>3
<1> QED BY <1>2, <1>3 DEF Attentive, InSeq, NoManual

LEMMA ClaimFirst ==
  ASSUME SendInv, FirstInv, NEW w \in Workers, NEW t \in Turns, Claim(w, t),
         turn'[t].attempts = 1
  PROVE  Attentive(w, t)' /\ Fresh(t)'
<1>1. WorkerInv BY DEF SendInv
<1>2. turn'[t].attempts = turn[t].attempts + 1 BY <1>1 DEF Claim, WorkerInv, Turn
<1>3. turn[t].attempts = 0 BY <1>2 DEF FirstInv
<1>4. Fresh(t) BY <1>3 DEF FirstInv
<1>5. history' = history /\ answered' = answered BY DEF Claim, outbox
<1>6. Fresh(t)' BY <1>4, <1>5 DEF Fresh, Recorded, Rows
<1>7. worker'[w].pc = "reading" /\ worker'[w].batch = <<>> /\ worker'[w].pos = 1
  BY <1>1 DEF Claim, WorkerInv
<1>8. "reading" \notin Answering BY DEF Answering, LoggingPcs
<1>9. \A m : ~InSeq(m, worker'[w].batch) BY <1>7 DEF InSeq
<1>10. \A i \in 1 .. Len(Payload[t]) : ~Recorded(PhoneOf[t], Payload[t][i])'
  BY <1>6 DEF Fresh
<1>11. Attentive(w, t)' BY <1>7, <1>8, <1>9, <1>10 DEF Attentive, InSeq, NoManual
<1> QED BY <1>6, <1>11

LEMMA FirstStep ==
  ASSUME SendInv, RecordInv, FirstInv, NEW w \in Workers, TurnKinds(w)
  PROVE  FirstInv'
<1>1. WorkerInv BY DEF SendInv
<1>2. \A t \in Turns : turn[t].attempts \in Nat BY DEF FirstInv
<1>3. ASSUME NEW t \in Turns
      PROVE  \/ turn'[t].attempts = turn[t].attempts
                /\ (turn'[t].status = "processing" => turn[t].attempts > 0)
             \/ Claim(w, t) /\ turn'[t].attempts = turn[t].attempts + 1
  <2>1. CASE turn'[t] = turn[t] BY <2>1 DEF FirstInv
  <2>2. CASE Claim(w, t) BY <1>1, <2>2 DEF Claim, WorkerInv, Turn
  <2>3. CASE worker[w].turn = t /\ worker[w].pc # "idle"
             /\ turn'[t].attempts = turn[t].attempts
    <3>1. turn[t].status = "processing" BY <1>1, <2>3 DEF WorkerInv, Busy
    <3> QED BY <2>3, <3>1 DEF FirstInv
  <2> QED BY <2>1, <2>2, <2>3, TurnsOf
<1>4. ASSUME NEW t \in Turns, turn'[t].attempts = 0 PROVE Fresh(t)'
  <2>1. turn[t].attempts = 0 /\ Fresh(t) BY <1>2, <1>3, <1>4 DEF FirstInv
  <2>2. worker[w].pc # "idle" => worker[w].turn # t
    BY <2>1 DEF SendInv, WorkerInv, Busy, FirstInv
  <2>3. ASSUME NEW i \in 1 .. Len(Payload[t])
        PROVE  Payload[t][i] \notin answered' /\ ~Recorded(PhoneOf[t], Payload[t][i])'
    <3>1. PICK m \in Messages, p \in Phones : m = Payload[t][i] /\ p = PhoneOf[t]
      BY PayloadOf
    <3>2. m \notin answered /\ ~Recorded(p, m) BY <2>1, <3>1 DEF Fresh
    <3>3. m \in In(t) BY <3>1 DEF In
    <3>4. m \notin answered' BY <2>2, <3>2, <3>3, NewlyAnswered, PayloadOf
    <3>5. ~Recorded(p, m)' BY <2>2, <3>2, <3>3, RecordedIn, PayloadOf
    <3> QED BY <3>1, <3>4, <3>5
  <2> QED BY <2>3 DEF Fresh
<1>5. ASSUME NEW t \in Turns, turn'[t].attempts = 1, NEW i \in 1 .. Len(Payload[t]),
             ManualAfter(t, i) # {}
      PROVE  Payload[t][i] \notin answered'
  <2>1. CASE Claim(w, t)
    <3>1. Fresh(t)' BY <1>5, <2>1, ClaimFirst
    <3> QED BY <3>1 DEF Fresh
  <2>2. CASE ~Claim(w, t)
    <3>1. turn[t].attempts = 1 BY <1>3, <1>5, <2>2
    <3>2. Payload[t][i] \notin answered
      BY <1>5, <3>1 DEF FirstInv, ManualReplyHoldsFirstAttempt
    <3>3. ASSUME Payload[t][i] \in answered' PROVE FALSE
      <4>1. /\ worker[w].pc \in Answering /\ worker[w].pc # "idle"
            /\ InSeq(Payload[t][i], worker[w].batch)
            /\ worker[w].turn \in Turns /\ Payload[t][i] \in In(worker[w].turn)
        BY <3>2, <3>3, NewlyAnswered
      <4>2. Payload[t][i] \in In(t) BY DEF In
      <4>3. worker[w].turn = t BY <4>1, <4>2, PayloadOf
      <4>4. Attentive(w, t) BY <3>1, <4>1, <4>3 DEF FirstInv
      <4>5. worker[w].pos > Len(Payload[t]) /\ NoManual(t, i, worker[w].pos)
        BY <4>1, <4>4 DEF Attentive
      <4>6. PICK j \in i + 1 .. Len(Payload[t]) : Kind[Payload[t][j]] = "manual"
        BY <1>5 DEF ManualAfter
      <4>7. j < worker[w].pos
        <5>1. Len(Payload[t]) \in Nat BY PayloadOf
        <5>2. worker[w].pos \in Nat BY <1>1, <4>1 DEF WorkerInv, Busy
        <5> QED BY <4>5, <5>1, <5>2
      <4> QED BY <4>5, <4>6, <4>7 DEF NoManual
    <3> QED BY <3>3
  <2> QED BY <2>1, <2>2
<1>6. ASSUME NEW v \in Workers, NEW t \in Turns, worker'[v].pc # "idle",
             worker'[v].turn = t, turn'[t].attempts = 1
      PROVE  Attentive(v, t)'
  <2>1. CASE Claim(w, t)
    <3>1. turn[t].status = "pending" /\ worker[w].pc = "idle" BY <2>1 DEF Claim, At
    <3>2. v = w
      <4> SUFFICES ASSUME v # w PROVE FALSE OBVIOUS
      <4>1. worker'[v] = worker[v] BY <1>1, OthersStay
      <4> QED BY <1>1, <1>6, <3>1, <4>1 DEF WorkerInv, Busy
    <3>3. Attentive(w, t)' BY <1>6, <2>1, ClaimFirst
    <3> QED BY <3>2, <3>3
  <2>2. CASE ~Claim(w, t)
    <3>1. turn[t].attempts = 1 BY <1>3, <1>6, <2>2
    <3>2. CASE v # w
      <4>1. worker'[v] = worker[v] BY <3>2, OthersStay
      <4>2. Attentive(v, t) BY <1>6, <3>1, <4>1 DEF FirstInv
      <4> QED BY <1>6, <3>2, <4>1, <4>2, AttentiveKept
    <3>3. CASE v = w
      <4>1. worker[w].pc # "idle" /\ worker[w].turn = t
        <5>1. CASE \E u \in Turns : Claim(w, u)
          <6>1. PICK u \in Turns : Claim(w, u) BY <5>1
          <6>2. worker'[w].turn = u BY <1>1, <6>1 DEF Claim, WorkerInv
          <6> QED BY <1>6, <2>2, <3>3, <6>1, <6>2
        <5>2. CASE Passes(w) \/ Takes(w) \/ RecordsManual(w) \/ HoldsHead(w)
          BY <1>6, <3>3, <5>2 DEF Passes, Takes, RecordsManual, HoldsHead, Reads, At
        <5>3. CASE Obeys(w) \/ Confirms(w) \/ ReadsNothing(w) \/ StoresBatch(w)
          BY <1>6, <3>3, <5>3 DEF Obeys, Confirms, ReadsNothing, StoresBatch, Stays, At
        <5>4. CASE \E pc : GoesOn(w, pc)
          BY <1>6, <3>3, <5>4 DEF GoesOn, Stays, Later, Answering, LoggingPcs
        <5>5. CASE Leaves(w) BY <1>6, <3>3, <5>5 DEF Leaves
        <5> QED BY <5>1, <5>2, <5>3, <5>4, <5>5 DEF TurnKinds
      <4>2. Attentive(w, t) BY <3>1, <4>1 DEF FirstInv
      <4>3. Attentive(w, t)' BY <1>6, <3>3, <4>1, <4>2, AttentiveStep
      <4> QED BY <3>3, <4>3
    <3> QED BY <3>2, <3>3
  <2> QED BY <2>1, <2>2
<1>7. \A t \in Turns : /\ turn'[t].attempts \in Nat
                       /\ turn'[t].status = "processing" => turn'[t].attempts > 0
  BY <1>2, <1>3
<1>8. ManualReplyHoldsFirstAttempt' BY <1>5 DEF ManualReplyHoldsFirstAttempt, ManualAfter
<1> QED BY <1>4, <1>6, <1>7, <1>8 DEF FirstInv

(* In its first attempt a turn never has the agent answer a message that   *)
(* the store answered by hand in the same window: a manual message empties *)
(* the batch into the history before it is recorded itself.  A later       *)
(* attempt takes the recorded one for an echo, so nothing is said of it.   *)
THEOREM ManualReplyHolds == Spec => []ManualReplyHoldsFirstAttempt
<1>1. Init => FirstInv
  <2> SUFFICES ASSUME Init PROVE FirstInv OBVIOUS
  <2>1. \A w \in Workers : worker[w].pc = "idle" BY DEF Init, Idle
  <2>2. \A t \in Turns : turn[t].attempts = 0 /\ turn[t].status = "pending"
    BY DEF Init, Turn
  <2>3. \A t \in Turns : Fresh(t) BY PayloadOf DEF Init, Fresh, Recorded, Rows
  <2>4. ManualReplyHoldsFirstAttempt BY <2>2 DEF ManualReplyHoldsFirstAttempt
  <2> QED BY <2>1, <2>2, <2>3, <2>4 DEF FirstInv
<1>2. FirstInv => ManualReplyHoldsFirstAttempt BY DEF FirstInv
<1>3. ASSUME SendInv, RecordInv, FirstInv, [Next]_vars PROVE FirstInv'
  <2>1. CASE Elsewhere
    BY <1>3, <2>1 DEF Elsewhere, FirstInv, ManualReplyHoldsFirstAttempt, Fresh, Attentive,
       Recorded, Rows
  <2> QED BY <1>3, <2>1, StepKinds, FirstStep
<1>4. SendInv /\ RecordInv /\ FirstInv /\ [Next]_vars
        => (SendInv /\ RecordInv /\ FirstInv)'
  BY <1>3, NextSend, RecordNext
<1> QED BY <1>1, <1>2, <1>4, InitSend, InitRecord, PTL DEF Spec
=============================================================================
