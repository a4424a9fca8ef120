------------------------------ MODULE Dialogue ------------------------------
(***************************************************************************)
(* One customer's conversation with the bot: which answer a turn gets      *)
(* (AgentService.respond in src/app/agent.py), from the message and the    *)
(* rows of the history a turn is given (_process_phone_batch in            *)
(* src/app/processor.py).  The rules are tried in the code's order and the *)
(* first that answers wins.  What the catalog, the payment rules and the   *)
(* language model answer is a choice among kinds of answers.               *)
(***************************************************************************)
EXTENDS Visits

CONSTANTS Messages,      \* what a customer may send
          HeldMessages,  \* what a customer may send while attended by a person
          Attendants,    \* what a person at the store may send
          ModelTexts,    \* what the language model may write
          Instants,      \* the hours at which something happens
          HistoryLimit,  \* rows of the history a turn is given
          Window         \* hours a row stays in that history

ASSUME DialogueAssumption ==
  /\ Instants \subseteq Nat /\ Instants # {} /\ IsFiniteSet(Instants)
  /\ HistoryLimit \in Nat \ {0} /\ Window \in Nat
  /\ {m.text : m \in Messages} \cup HeldMessages \cup Attendants \cup ModelTexts \subseteq Texts
  /\ \A t \in Attendants \cup ModelTexts :
       Holds(t, {"visitToday"}) => "hoje" \in ToSet(t.days)

VARIABLES rows,    \* the rows a next turn is given, oldest first
          status,  \* who answers: the bot or a person
          clock,   \* hours since the midnight that opened some Monday
          answer   \* the last turn: what was asked and what was decided
vars == <<rows, status, clock, answer>>
-----------------------------------------------------------------------------
(* What the bot says.                                                      *)
Form == Say("form", {"apple", "detailsQuestion", "device", "evaluation", "formMarker",
  "formPending", "forward", "looksTrade", "offer", "productFacts", "question", "saleWords",
  "tradeTalk", "tradeWords"})
Evaluated == Say("evaluated", {"device", "evaluation", "forward", "looksTrade", "tradeWords"})
OtherBrand == Say("otherBrand", {"apple", "device", "saleWords", "tradeOffer", "tradeTalk", "tradeWords"})
Parts == Say("parts", {"apple", "device", "evaluation", "noParts", "saleWords", "tradeTalk", "tradeWords"})
DowngradeQuestion == Say("downgrade", {"apple", "detailsQuestion", "device", "question"})
DowngradeForm == Say("downgradeForm", Form.cues \ {"saleWords"})
Purchase == Say("purchase", {"detailsQuestion", "device", "listed", "offer", "question"})
WhichModel == Say("whichModel", {"apple", "detailsQuestion", "device", "listed", "offer", "question"})
Policy == Say("policy", {"device"})
Warranty == Say("warranty", {"apple", "device", "sealedYear"})
Budget == Say("budget", {"budgetAsked", "listed", "offer"})
Payment == Say("payment", {})
Hours == Say("hours", {})
Listed == [Say("listed", {"apple", "device", "listed", "offer", "photoOffer", "priced",
  "productFacts", "question"}) EXCEPT !.models = {17}]
ListedAndForm == [Listed EXCEPT !.name = "listedAndForm", !.cues = @ \cup Form.cues]
ListedEvaluated == [Listed EXCEPT !.name = "listedEvaluated", !.cues = @ \cup Evaluated.cues]
Clarification == Say("clarification", {"question"})

Forwarding(name, more) == Say(name, {"forward"} \cup more)
Details == Transfer(Forwarding("details", {"device"}), "catalog")
PriceTalk == Transfer(Forwarding("price", {"device"}), "catalog")
ConditionTalk == Transfer(Forwarding("condition", {"device"}), "catalog")
Technical == Transfer(Forwarding("technical", {"offer", "tradeWords"}), "repair")
Forwarded == Transfer(Forwarding("forwarded", {}), "asked")
Failed == Transfer(Forwarding("failed", {}), "failed")

(* What the catalog and the payment rules answer to what they recognise.   *)
CatalogAnswers == {Answer(Listed), Details}
Payments == {Answer(Payment)}
-----------------------------------------------------------------------------
(* What a message means after the catalog's answers.                       *)
RecentProduct(h) ==
  LET last == {i \in DOMAIN h : h[i].from = "customer"}
  IN \E i \in DOMAIN h : (\A j \in last : j < i) /\ Holds(h[i].text, {"productFacts"})
SaleContext(h) == Lacks(LatestStore(h), {"tradeTalk"}) /\ Holds(LatestStore(h), {"productFacts"})
Undecided(t, h) == h # <<>> /\ ~FormSent(h) /\ ~InTradeIn(t, h)
PriceNegotiation(t, h) == Holds(t, {"haggles"}) /\ SaleContext(h) /\ Undecided(t, h)
Advice(t, h) == PurchaseAdvice(t) /\ RecentProduct(h) /\ Undecided(t, h)

BuyerDetails(t, both, h) ==
  /\ Holds(both, {"buyerDetails"}) \/ (Holds(both, {"stateAsked"}) /\ RecentProduct(h))
  /\ Lacks(both, {"hoursPhrase", "hoursMarker"}) /\ Lacks(t, {"installments"})
  /\ ~Holds(t, {"warrantyAsked", "payAsked"})
  /\ ~DeliveryAsked(both, h) \/ Holds(both, {"conditionSignal"})
  /\ ~FormSent(h) /\ ~InTradeIn(both, h)

TradeCue(t) == ExplicitCue(t) \/ IsTradeIn(t)
ExplicitContext(t, h) ==
  \/ /\ ~Holds(t, {"conditionAsked", "payAsked"}) \/ Holds(t, {"exchangePhrase"})
     /\ TradeCue(t) \/ InTradeIn(t, h)
  \/ \E e \in ToSet(FromCustomer(Recent(h))) : TradeCue(e.text)
ConditionQuestion(t, h) == Holds(t, {"conditionAsked"}) /\ ~ExplicitContext(t, h)

(* A price answered and then refused, with one message since at most.      *)
OverBudget(t, h) ==
  LET said == {i \in DOMAIN Recent(h) : Recent(h)[i].from = "customer"}
      told == {i \in DOMAIN Recent(h) : Recent(h)[i].from = "store" /\ Cardinality({j \in said : j > i}) < 2}
      refuses == \/ Holds(t, {"overBudget"})
                 \/ Holds(t, {"thanks"}) /\ Holds(Latest(FromCustomer(h)), {"overBudget"})
      decides == {i \in told : Holds(Recent(h)[i].text, {"priced"}) \/ Has(Recent(h)[i].text, {"tradeTalk"})}
  IN /\ refuses /\ decides # {}
     /\ Lacks(Recent(h)[CHOOSE i \in decides : \A j \in decides : j <= i].text, {"tradeTalk"})

ForwardAccepted(t, h) == Holds(t, {"yesForward"}) /\ Holds(Latest(FromStore(h)), {"forward"})

(* A device for an iPhone 17 asked for here or not yet answered about.     *)
Unanswered17(h) ==
  LET r == Recent(h)
      asked == {i \in DOMAIN r : r[i].from = "customer" /\ Holds(r[i].text, {"line17"})}
      at == CHOOSE i \in asked : \A j \in asked : j <= i
  IN /\ asked # {}
     /\ \A i \in DOMAIN r : i > at /\ r[i].from = "store" =>
          ~(17 \in r[i].text.models /\ Has(r[i].text, {"listed", "priced"}))
Catalog17(t, h) ==
  /\ Holds(t, {"paysFor"}) /\ Lacks(t, {"photos"})
  /\ Holds(t, {"line17"}) \/ Unanswered17(h)

(* The interpreter reads what the rules leave ambiguous.                   *)
Interpreted(both, h) ==
  /\ ~FormSent(h) /\ ~IsDowngrade(both) /\ ~NonAppleRequest(both) /\ ~InTradeIn(both, h)
  /\ \/ Holds(both, {"ambiguous"})
     \/ Holds(both, {"short"}) /\ Holds(Latest(FromStore(h)), {"question"}) /\ RecentProduct(h)
-----------------------------------------------------------------------------
(* The language model: a handover about a device waits for the form.       *)
LooksTrade(d) == Holds(d.text, {"looksTrade"})
ModelDecisions ==
  {Answer(t) : t \in ModelTexts}
    \cup {Transfer(t, IF Holds(t, {"looksTrade"}) THEN "tradeIn" ELSE "model") : t \in ModelTexts}

(* Bugs such a filter could have: a handover that does not wait for the    *)
(* form, a buyer taken for a seller.                                       *)
BadKeepsHandoff(d, t, both, h) ==
  IF NonAppleRequest(both) THEN Answer(OtherBrand)
  ELSE IF Advice(both, h) THEN Details
  ELSE IF ConditionQuestion(both, h) THEN ConditionTalk ELSE d
BadForgetsBuyers(d, t, both, h) ==
  IF NonAppleRequest(both) THEN Answer(OtherBrand)
  ELSE IF ~d.handoff \/ FormSent(h) THEN d
  ELSE IF ConditionQuestion(both, h) THEN ConditionTalk
  ELSE IF InTradeIn(both, h) \/ LooksTrade(d) THEN Answer(Form)
  ELSE d

EnsureFormBeforeHandoff(d, t, both, h) ==
  IF NonAppleRequest(both) THEN Answer(OtherBrand)
  ELSE IF ~FormSent(h) /\ Holds(t, {"buyerInterest"}) /\ Holds(both, {"product"}) /\ LooksTrade(d)
       THEN Details
  ELSE IF Advice(both, h) THEN Details
  ELSE IF PriceNegotiation(both, h) THEN PriceTalk
  ELSE IF ~FormSent(h) /\ PurchaseOnly(both, h) /\ LooksTrade(d) THEN Answer(Purchase)
  ELSE IF ~d.handoff \/ FormSent(h) THEN d
  ELSE IF ConditionQuestion(both, h) THEN ConditionTalk
  ELSE IF InTradeIn(both, h) \/ LooksTrade(d) THEN Answer(Form)
  ELSE d

ProtectCustomerDecision(d) == IF Holds(d.text, {"restricted"}) THEN Failed ELSE d
ModelAnswers(t, both, h) ==
  {ProtectCustomerDecision(EnsureFormBeforeHandoff(d, t, both, h)) : d \in ModelDecisions}
    \cup {Failed}
-----------------------------------------------------------------------------
(* The rules of a turn, in order; a group that answers nothing is empty.   *)
a ?? b == IF a # {} THEN a ELSE b
When(c, answers) == IF c THEN answers ELSE {}

Evaluation(t, h) ==
     When(Holds(t, {"filled"}),
          {Transfer(IF CatalogTarget(t) THEN ListedEvaluated ELSE Evaluated, "tradeIn")})
  ?? When(UnlabelledForm(t, h) \/ (FormSent(h) /\ IsNegotiation(t)), {Transfer(Evaluated, "tradeIn")})
  ?? When(NonAppleRequest(t) /\ ~PartsRequest(t), {Answer(OtherBrand)})
  ?? When(IsDowngrade(t), {Answer(IF FormSent(h) THEN DowngradeQuestion ELSE DowngradeForm)})
  ?? When(~FormSent(h) /\ (Catalog17(t, h) \/ CatalogTarget(t)), {Answer(ListedAndForm)})

Pictured(t, image, h) ==
     When(Holds(t, {"policyAsked"}) /\ ~PartsRequest(t) /\ ~IsTradeIn(t), {Answer(Policy)})
  ?? When(Holds(t, {"imageAsked"}) /\ image.cues # {} /\ Lacks(image, {"otherFamily"}), CatalogAnswers)
  ?? When(Holds(t, {"buyerInterest"}) /\ Holds(image, {"product"}) /\ ~FormSent(h),
          When(Holds(t, {"payAsked"}), Payments) ?? CatalogAnswers)

(* Bug: the picture is not asked for its brand.                            *)
BadBrandOfText(t, both, h) ==
     When(PartsRequest(both),
          {Answer(IF ~PurchaseOnly(both, <<>>) /\ InTradeIn(both, h) THEN Form ELSE Parts)})
  ?? When(NonAppleRequest(t), {Answer(OtherBrand)})
  ?? When(NeedsSomePhone(t, h) /\ ~IsVisit(t) /\ ~IsReservation(t), {Answer(Purchase)})

WholeDevices(t, both, h) ==
     When(PartsRequest(both),
          {Answer(IF ~PurchaseOnly(both, <<>>) /\ InTradeIn(both, h) THEN Form ELSE Parts)})
  ?? When(NonAppleRequest(both), {Answer(OtherBrand)})
  ?? When(NeedsSomePhone(t, h) /\ ~IsVisit(t) /\ ~IsReservation(t), {Answer(Purchase)})

Buyer(t, both, h) ==
     When(PriceRecall(both), {Answer(Listed), Details})
  ?? When(PriceNegotiation(both, h), {PriceTalk})
  ?? When(Advice(both, h) \/ BuyerDetails(t, both, h), {Details})

(* Bug: the question about the condition is asked too late.                *)
BadConditionLast(t, both, image, h) ==
     When(AnswersDetails(t, image, h), {Answer(Form)})
  ?? When(InTradeIn(t, h) \/ InTradeIn(both, h), {Answer(Form)})
  ?? When(Holds(both, {"assistance"}), {Technical})
  ?? When(Holds(both, {"someModel"}), {Answer(WhichModel)})

Offer(t, both, image, h) ==
     When(AnswersDetails(t, image, h), {Answer(Form)})
  ?? When(~FormSent(h) /\ ConditionQuestion(both, h), {ConditionTalk})
  ?? When(\/ InTradeIn(t, h) /\ ~PurchaseOnly(t, <<>>)
          \/ /\ InTradeIn(both, h) /\ ExplicitCue(t)
             /\ ~NonAppleRequest(t) /\ ~PurchaseOnly(t, <<>>),
          {Answer(Form)})
  ?? When(Holds(both, {"assistance"}), {Technical})
  ?? When(Holds(both, {"someModel"}), {Answer(WhichModel)})

Store(t, h, now) ==
     When(QuoteAnswered(t, h) \/ PaysOnDelivery(t, h), {DeliveryPayment(t, h)})
  ?? When(Holds(t, {"payAsked"}), Payments)
  ?? When(AsksDelivery(t, h), {DeliveryOrPickup(t, h)})
  ?? When(ForwardAccepted(t, h), {Forwarded})
  ?? When(AsksVisit(t, h), {VisitDecision(t, h, now)})
  ?? When(HoursAsked(t), {Answer(Hours)})
  ?? When(OverBudget(t, h), {Answer(Budget)})

(* Photos of a product offered, a product, the warranty, then the model.   *)
Rest(t, both, h, now) ==
  LET model == ModelAnswers(t, both, h)
      last == When(PhysicalStore(t), {Answer(TodayReply(now))})
                ?? When(Holds(t, {"warrantyAsked"}), {Answer(Warranty)}) ?? model
      catalog == When(Holds(both, {"catalogAsked"}) \/ PhotoYes(t, h), CatalogAnswers)
  IN catalog \cup last
       \cup When(Interpreted(both, h), {Answer(Clarification)} \cup {d \in model : d # Failed})

Answers(m, h, now) ==
  LET t == m.text
      both == Together(t, m.image)
  IN Evaluation(t, h)
  ?? Pictured(t, m.image, h)
  ?? WholeDevices(t, both, h)
  ?? When(DateAsked(t) \/ TodayStatus(t), {CurrentDay(t, h, now)})
  ?? Buyer(t, both, h)
  ?? Offer(t, both, m.image, h)
  ?? Store(t, h, now)
  ?? Rest(t, both, h, now)
-----------------------------------------------------------------------------
(* The conversation.                                                       *)
NoAnswer == [text |-> NoText, image |-> NoText, decision |-> Answer(NoText)]

(* The latest rows of the window, which are the last ones: rows are kept   *)
(* oldest first.  Of a picture they have the description.                  *)
Visible(s, now) ==
  LET kept == {i \in DOMAIN s : i > Len(s) - HistoryLimit /\ now - s[i].at <= Window}
  IN IF kept = {} THEN <<>> ELSE SubSeq(s, CHOOSE i \in kept : \A j \in kept : i <= j, Len(s))
Row(from, text) == [from |-> from, text |-> text, at |-> clock]
Said(m) ==
  IF m.image = NoText THEN m.text
  ELSE [m.text EXCEPT !.cues = @ \cup m.image.cues \cup IF @ = {} THEN {"photoOnly"} ELSE {},
                      !.models = @ \cup m.image.models]

Init ==
  /\ rows = <<>> /\ status = "bot" /\ answer = NoAnswer
  /\ clock = CHOOSE i \in Instants : \A j \in Instants : i <= j

Turn(m) ==
  /\ status = "bot"
  /\ \E d \in Answers(m, rows, clock) :
       /\ answer' = [text |-> m.text, image |-> m.image, decision |-> d]
       /\ rows' = Visible(rows \o <<Row("customer", Said(m)), Row("store", d.text)>>, clock)
       /\ status' = IF d.handoff THEN "attended" ELSE "bot"
  /\ UNCHANGED clock

(* A person answers instead of the bot, after a handover or on their own.  *)
CustomerWrites(t) ==
  /\ status = "attended"
  /\ rows' = Visible(Append(rows, Row("customer", t)), clock)
  /\ answer' = NoAnswer /\ UNCHANGED <<status, clock>>

AttendantWrites(t) ==
  /\ rows' = Visible(Append(rows, Row("store", t)), clock)
  /\ status' = "attended" /\ answer' = NoAnswer /\ UNCHANGED clock

Release ==
  /\ status = "attended"
  /\ status' = "bot" /\ answer' = NoAnswer /\ UNCHANGED <<rows, clock>>

TimePasses(now) ==
  /\ now > clock
  /\ clock' = now /\ rows' = Visible(rows, now)
  /\ answer' = NoAnswer /\ UNCHANGED status

Next ==
  \/ \E m \in Messages : Turn(m)
  \/ \E t \in HeldMessages : CustomerWrites(t)
  \/ \E t \in Attendants : AttendantWrites(t)
  \/ Release
  \/ \E now \in Instants : TimePasses(now)

Spec == Init /\ [][Next]_vars
-----------------------------------------------------------------------------
(* Every state is a conversation the bot can be in: the history given to   *)
(* the next turn is short and recent, and a handed over customer waits     *)
(* for a person (processor.py, recent_messages and claim_human_handoff).   *)
TypeOK ==
  /\ status \in {"bot", "attended"} /\ clock \in Instants
  /\ Len(rows) <= HistoryLimit
  /\ \A i \in DOMAIN rows : /\ rows[i].from \in {"customer", "store"}
                            /\ rows[i].at <= clock /\ clock - rows[i].at <= Window
  /\ answer.decision.handoff => status = "attended"

Reply == answer'.decision.text

(* The bot hands a customer over for an evaluation only when the form was  *)
(* filled in or is among the rows it sees, whatever the language model     *)
(* decides (_ensure_trade_in_form_before_handoff).                         *)
EvaluationOnlyWithForm ==
  [][answer'.decision.about = "tradeIn" =>
       Holds(answer'.text, {"filled"}) \/ FormSent(rows)]_vars

(* Who offers a device of another brand gets no form for it, also where    *)
(* the words alone offer an Apple device and the picture shows another     *)
(* (is_non_apple_trade_in_request of the text with the picture).  Parts,   *)
(* and words that name the iPhone wanted, have rules that come before.     *)
NoFormForAnotherBrand ==
  [][LET t == answer'.text
         both == Together(t, answer'.image)
     IN /\ NonAppleRequest(both) /\ ~PartsRequest(both)
        /\ ~CatalogTarget(t) /\ ~Catalog17(t, rows) /\ ~IsDowngrade(t)
        => Lacks(Reply, {"formMarker"})]_vars

(* A question about the condition of a device on sale goes to a person,    *)
(* unless the customer has spoken of a device of their own or the store    *)
(* has asked about it (_is_device_condition_question,                      *)
(* _has_explicit_trade_in_context).                                        *)
ConditionGoesToAttendant ==
  [][/\ ConditionQuestion(answer'.text, rows) /\ ~FormSent(rows)
     /\ Lacks(answer'.text, {"filled"}) /\ Lacks(LatestStore(rows), {"detailsQuestion"})
     => answer'.decision.handoff]_vars

(* A customer who says they only buy, and has no exchange under way in     *)
(* words or picture, is not asked to fill in a form, whatever the language *)
(* model decides (is_purchase_without_trade_in_request,                    *)
(* _ensure_trade_in_form_before_handoff): no rule sends one, and the       *)
(* filter lets only the model's own words pass.                            *)
BuyerKeepsBuying ==
  [][LET t == answer'.text
         both == Together(t, answer'.image)
     IN /\ PurchaseOnly(t, rows) /\ ~InTradeIn(t, rows) /\ ~InTradeIn(both, rows)
        /\ ~AnswersDetails(t, answer'.image, rows)
        /\ ~CatalogTarget(t) /\ ~Catalog17(t, rows) /\ ~IsDowngrade(t)
        => Lacks(Reply, {"formMarker"}) \/ Reply \in ModelTexts]_vars

(* The store offers only days on which it is open (_today_store_reply,     *)
(* _tomorrow_store_reply, _visit_day_reply, _reservation_reply); what the  *)
(* language model writes on its own is not looked at.                      *)
OfferedDayIsOpen ==
  [][Reply.cues # {} /\ Reply \notin ModelTexts /\ Holds(Reply, {"dayAsked"}) /\ HasDate(Reply) =>
       IsBusinessDay(VisitDay(Reply.days, clock))]_vars

(* A visit is registered for an open day, at the hour the message gives,   *)
(* on a day that the store or the customer named in the rows the turn sees *)
(* or in the message (a weekday may go with "próxima semana"); a day that  *)
(* is over is registered only where they wrote that very date, with its    *)
(* year (_try_visit_scheduling, _visit_date_for_request).                  *)
VisitAsAsked ==
  [][LET visit == answer'.decision.visit
         named == (UNION {ToSet(e.text.days) : e \in ToSet(rows)}) \cup
                    (IF answer' = NoAnswer THEN {} ELSE ToSet(answer'.text.days))
     IN visit # NoVisit =>
          /\ IsBusinessDay(visit.day) /\ visit.hour = answer'.text.hour
          /\ \/ visit.day >= Day(clock)
             \/ \E date \in named \cap FullDates : DateDays[date] = {visit.day}
          /\ \E word \in named :
               \/ VisitDay(<<word>>, clock) = visit.day
               \/ \E next \in named \cap NextWeek : VisitDay(<<word, next>>, clock) = visit.day]_vars

(* Who asked for a reservation, was asked for a day without being told so  *)
(* and answers without a new request, is told with the visit that the      *)
(* store keeps no device (_has_unanswered_reservation_request).            *)
VisitNeverReserves ==
  [][LET asked == {i \in DOMAIN rows : rows[i].from = "customer" /\ IsReservation(rows[i].text)}
         told == {i \in DOMAIN rows : Holds(rows[i].text, {"noReserve"})}
         open == \E i \in asked :
                   /\ i < Len(rows) /\ Holds(rows[Len(rows)].text, {"dayAsked"})
                   /\ \A j \in DOMAIN rows : j > i => j \notin told /\ rows[j].from = "store"
     IN /\ answer'.decision.about = "visit"
        /\ IsReservation(answer'.text) \/ (open /\ ~IsVisit(answer'.text))
        => Holds(Reply, {"noReserve"})]_vars

=============================================================================
