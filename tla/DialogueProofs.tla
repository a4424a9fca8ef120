---------------------------- MODULE DialogueProofs ----------------------------
(***************************************************************************)
(* What the rules of a turn never answer, for every set of messages, of    *)
(* texts of the language model and of people, every window and every hour: *)
(* a handover for an evaluation without the form, the form to who offers   *)
(* another brand or only buys, a day on which the store is closed, a visit *)
(* on a day that nobody named, and one that leaves a reservation without   *)
(* an answer.  For each group of rules a lemma says what it may answer;    *)
(* the first group that answers decides.                                   *)
(***************************************************************************)
EXTENDS Dialogue, TLAPS, WellFoundedInduction, SequenceTheorems

(* None of the decisions hands t over for an evaluation without the form.  *)
Cleared(decisions, t, h) ==
  \A d \in decisions : d.about = "tradeIn" => Holds(t, {"filled"}) \/ FormSent(h)

LEMMA AboutOf ==
  ASSUME NEW text, NEW about
  PROVE  Answer(text).about = "" /\ Transfer(text, about).about = about
BY DEF Answer, Transfer

LEMMA FirstCleared ==
  ASSUME NEW a, NEW b, NEW t, NEW h, Cleared(a, t, h), Cleared(b, t, h)
  PROVE  Cleared(a ?? b, t, h)
BY DEF Cleared, ??

LEMMA EvaluationCleared ==
  ASSUME NEW t, NEW h
  PROVE  Cleared(Evaluation(t, h), t, h)
<1> DEFINE filled == When(Holds(t, {"filled"}),
                       {Transfer(IF CatalogTarget(t) THEN ListedEvaluated ELSE Evaluated, "tradeIn")})
           lines == When(UnlabelledForm(t, h) \/ (FormSent(h) /\ IsNegotiation(t)),
                         {Transfer(Evaluated, "tradeIn")})
           other == When(NonAppleRequest(t) /\ ~PartsRequest(t), {Answer(OtherBrand)})
           down == When(IsDowngrade(t),
                        {Answer(IF FormSent(h) THEN DowngradeQuestion ELSE DowngradeForm)})
           target == When(~FormSent(h) /\ (Catalog17(t, h) \/ CatalogTarget(t)),
                          {Answer(ListedAndForm)})
<1>1. Cleared(filled, t, h) BY DEF Cleared, When
<1>2. UnlabelledForm(t, h) => FormSent(h) BY DEF UnlabelledForm
<1>3. Cleared(lines, t, h) BY <1>2 DEF Cleared, When
<1>4. Cleared(other, t, h) BY AboutOf DEF Cleared, When
<1>5. Cleared(down, t, h) BY AboutOf DEF Cleared, When
<1>6. Cleared(target, t, h) BY AboutOf DEF Cleared, When
<1>7. Evaluation(t, h) = filled ?? lines ?? other ?? down ?? target BY DEF Evaluation
<1> HIDE DEF filled, lines, other, down, target
<1> QED BY <1>1, <1>3, <1>4, <1>5, <1>6, <1>7, FirstCleared

LEMMA CatalogCleared ==
  ASSUME NEW t, NEW h
  PROVE  Cleared(CatalogAnswers, t, h) /\ Cleared(Payments, t, h) /\ Cleared({}, t, h)
BY AboutOf DEF Cleared, CatalogAnswers, Payments, Details

LEMMA PicturedCleared ==
  ASSUME NEW t, NEW image, NEW h
  PROVE  Cleared(Pictured(t, image, h), t, h)
<1> DEFINE policy == When(Holds(t, {"policyAsked"}) /\ ~PartsRequest(t) /\ ~IsTradeIn(t),
                          {Answer(Policy)})
           stock == When(Holds(t, {"imageAsked"}) /\ image.cues # {} /\ Lacks(image, {"otherFamily"}),
                         CatalogAnswers)
           paid == When(Holds(t, {"payAsked"}), Payments)
           wanted == When(Holds(t, {"buyerInterest"}) /\ Holds(image, {"product"}) /\ ~FormSent(h),
                          paid ?? CatalogAnswers)
<1>1. Cleared(policy, t, h) BY AboutOf DEF Cleared, When
<1>2. Cleared(stock, t, h) BY CatalogCleared DEF When
<1>3. Cleared(paid, t, h) BY CatalogCleared DEF When
<1>4. Cleared(paid ?? CatalogAnswers, t, h) BY <1>3, CatalogCleared, FirstCleared
<1>5. Cleared(wanted, t, h) BY <1>4, CatalogCleared DEF When
<1>6. Pictured(t, image, h) = policy ?? stock ?? wanted BY DEF Pictured
<1> HIDE DEF policy, stock, wanted
<1> QED BY <1>1, <1>2, <1>5, <1>6, FirstCleared

LEMMA WholeDevicesCleared ==
  ASSUME NEW t, NEW both, NEW h
  PROVE  Cleared(WholeDevices(t, both, h), t, h)
<1> DEFINE part == When(PartsRequest(both),
                        {Answer(IF ~PurchaseOnly(both, <<>>) /\ InTradeIn(both, h) THEN Form ELSE Parts)})
           other == When(NonAppleRequest(both), {Answer(OtherBrand)})
           phone == When(NeedsSomePhone(t, h) /\ ~IsVisit(t) /\ ~IsReservation(t), {Answer(Purchase)})
<1>1. Cleared(part, t, h) BY AboutOf DEF Cleared, When
<1>2. Cleared(other, t, h) BY AboutOf DEF Cleared, When
<1>3. Cleared(phone, t, h) BY AboutOf DEF Cleared, When
<1>4. WholeDevices(t, both, h) = part ?? other ?? phone BY DEF WholeDevices
<1> HIDE DEF part, other, phone
<1> QED BY <1>1, <1>2, <1>3, <1>4, FirstCleared

LEMMA BuyerCleared ==
  ASSUME NEW t, NEW both, NEW h
  PROVE  Cleared(Buyer(t, both, h), t, h)
<1> DEFINE recalled == When(PriceRecall(both), {Answer(Listed), Details})
           haggled == When(PriceNegotiation(both, h), {PriceTalk})
           advised == When(Advice(both, h) \/ BuyerDetails(t, both, h), {Details})
<1>1. Cleared(recalled, t, h) BY AboutOf DEF Cleared, When, Details
<1>2. Cleared(haggled, t, h) BY AboutOf DEF Cleared, When, PriceTalk
<1>3. Cleared(advised, t, h) BY AboutOf DEF Cleared, When, Details
<1>4. Buyer(t, both, h) = recalled ?? haggled ?? advised BY DEF Buyer
<1> HIDE DEF recalled, haggled, advised
<1> QED BY <1>1, <1>2, <1>3, <1>4, FirstCleared

LEMMA OfferCleared ==
  ASSUME NEW t, NEW both, NEW image, NEW h
  PROVE  Cleared(Offer(t, both, image, h), t, h)
<1> DEFINE details == When(AnswersDetails(t, image, h), {Answer(Form)})
           asked == When(~FormSent(h) /\ ConditionQuestion(both, h), {ConditionTalk})
           offered == When(\/ InTradeIn(t, h) /\ ~PurchaseOnly(t, <<>>)
                           \/ /\ InTradeIn(both, h) /\ ExplicitCue(t)
                              /\ ~NonAppleRequest(t) /\ ~PurchaseOnly(t, <<>>),
                           {Answer(Form)})
           repair == When(Holds(both, {"assistance"}), {Technical})
           model == When(Holds(both, {"someModel"}), {Answer(WhichModel)})
<1>1. Cleared(details, t, h) BY AboutOf DEF Cleared, When
<1>2. Cleared(asked, t, h) BY AboutOf DEF Cleared, When, ConditionTalk
<1>3. Cleared(offered, t, h) BY AboutOf DEF Cleared, When
<1>4. Cleared(repair, t, h) BY AboutOf DEF Cleared, When, Technical
<1>5. Cleared(model, t, h) BY AboutOf DEF Cleared, When
<1>6. Offer(t, both, image, h) = details ?? asked ?? offered ?? repair ?? model BY DEF Offer
<1> HIDE DEF details, asked, offered, repair, model
<1> QED BY <1>1, <1>2, <1>3, <1>4, <1>5, <1>6, FirstCleared
-----------------------------------------------------------------------------
(* Visits and delivery have reasons of their own.                          *)
LEMMA VisitAbout ==
  ASSUME NEW t, NEW h, NEW now
  PROVE  /\ VisitDecision(t, h, now).about \in {"", "visit"}
         /\ CurrentDay(t, h, now).about \in {"", "visit"}
<1>1. \A day, hour, reserves : Registered(day, hour, reserves).about = "visit"
  BY AboutOf DEF Registered, Transfer
<1> DEFINE answers == AnswersVisit(t, h)
           pending == answers /\ ReservationPending(h)
           reserves == IsReservation(t) \/ pending
           context == VisitContext(t, h)
           days == IF answers /\ context.timed /\ ~NamesDate(context.days) /\ OfferedToday(h)
                   THEN <<"hoje">> ELSE context.days
           asked == VisitDay(t.days, now)
           day == IF asked # NoDay THEN asked ELSE VisitDay(days, now)
           closed == IF reserves THEN ReservationReply(day, now) ELSE DayReply(day)
           offer == IF "amanha" \in ToSet(t.days) THEN Answer(TomorrowReply(now))
                    ELSE IF asked # NoDay THEN Answer(DayReply(asked))
                    ELSE Answer(TodayReply(now))
           open == IF NamesDate(days) /\ context.timed THEN Registered(day, t.hour, reserves)
                   ELSE IF reserves THEN Answer(ReservationReply(asked, now)) ELSE offer
<1>2. VisitDecision(t, h, now) =
        IF IsReservation(t) /\ ~IsVisit(t) /\ ~pending THEN Answer(ReservationReply(asked, now))
        ELSE IF day # NoDay /\ ~IsBusinessDay(day) THEN Answer(closed) ELSE open
  BY DEF VisitDecision
<1> HIDE DEF answers, pending, reserves, context, days, asked, day, closed
<1>3. offer.about = "" BY AboutOf
<1> HIDE DEF offer
<1>4. open.about \in {"", "visit"} BY <1>1, <1>3, AboutOf
<1> HIDE DEF open
<1>5. VisitDecision(t, h, now).about \in {"", "visit"} BY <1>2, <1>4, AboutOf
<1>6. CurrentDay(t, h, now).about \in {"", "visit"} BY <1>5, AboutOf DEF CurrentDay
<1> QED BY <1>5, <1>6

LEMMA StoreCleared ==
  ASSUME NEW t, NEW h, NEW now
  PROVE  Cleared(Store(t, h, now), t, h)
<1> DEFINE terms == When(QuoteAnswered(t, h) \/ PaysOnDelivery(t, h), {DeliveryPayment(t, h)})
           paid == When(Holds(t, {"payAsked"}), Payments)
           sent == When(AsksDelivery(t, h), {DeliveryOrPickup(t, h)})
           accepted == When(ForwardAccepted(t, h), {Forwarded})
           visit == When(AsksVisit(t, h), {VisitDecision(t, h, now)})
           hours == When(HoursAsked(t), {Answer(Hours)})
           budget == When(OverBudget(t, h), {Answer(Budget)})
<1>1. DeliveryPayment(t, h).about \in {"", "delivery"} BY AboutOf DEF DeliveryPayment
<1>2. DeliveryOrPickup(t, h).about \in {"", "delivery"} BY AboutOf DEF DeliveryOrPickup
<1>3. Cleared(terms, t, h) BY <1>1 DEF Cleared, When
<1>4. Cleared(paid, t, h) BY CatalogCleared DEF When
<1>5. Cleared(sent, t, h) BY <1>2 DEF Cleared, When
<1>6. Cleared(accepted, t, h) BY AboutOf DEF Cleared, When, Forwarded
<1>7. Cleared(visit, t, h) BY VisitAbout DEF Cleared, When
<1>8. Cleared(hours, t, h) BY AboutOf DEF Cleared, When
<1>9. Cleared(budget, t, h) BY AboutOf DEF Cleared, When
<1>10. Store(t, h, now) = terms ?? paid ?? sent ?? accepted ?? visit ?? hours ?? budget
  BY DEF Store
<1> HIDE DEF terms, paid, sent, accepted, visit, hours, budget
<1> QED BY <1>3, <1>4, <1>5, <1>6, <1>7, <1>8, <1>9, <1>10, FirstCleared
-----------------------------------------------------------------------------
(* The filter on the language model: what it lets pass as a handover for   *)
(* an evaluation follows a form.                                           *)
LEMMA FilterClears ==
  ASSUME NEW d \in ModelDecisions, NEW t, NEW both, NEW h,
         EnsureFormBeforeHandoff(d, t, both, h).about = "tradeIn"
  PROVE  FormSent(h)
<1> DEFINE e == EnsureFormBeforeHandoff(d, t, both, h)
<1>1. SUFFICES ASSUME ~FormSent(h) PROVE FALSE OBVIOUS
<1>2. d.about = "tradeIn" => d.handoff /\ LooksTrade(d)
  <2>1. CASE \E x \in ModelTexts : d = Answer(x) BY <2>1, AboutOf
  <2>2. CASE \E x \in ModelTexts :
               d = Transfer(x, IF Holds(x, {"looksTrade"}) THEN "tradeIn" ELSE "model")
    <3>1. PICK x \in ModelTexts :
            d = Transfer(x, IF Holds(x, {"looksTrade"}) THEN "tradeIn" ELSE "model")
      BY <2>2
    <3>2. d.handoff /\ d.text = x BY <3>1 DEF Transfer
    <3>3. d.about = "tradeIn" => Holds(x, {"looksTrade"}) BY <3>1, AboutOf
    <3> QED BY <3>2, <3>3 DEF LooksTrade
  <2> QED BY <2>1, <2>2 DEF ModelDecisions
<1>3. e = d
  BY <1>1, AboutOf DEF EnsureFormBeforeHandoff, Details, PriceTalk, ConditionTalk
<1>4. d.handoff /\ LooksTrade(d) BY <1>2, <1>3
<1>5. e \in {Answer(OtherBrand), Details, PriceTalk, Answer(Purchase), ConditionTalk, Answer(Form)}
  BY <1>1, <1>4 DEF EnsureFormBeforeHandoff
<1> QED BY <1>5, AboutOf DEF Details, PriceTalk, ConditionTalk

LEMMA ModelCleared ==
  ASSUME NEW t, NEW both, NEW h
  PROVE  Cleared(ModelAnswers(t, both, h), t, h)
<1> SUFFICES ASSUME NEW d \in ModelAnswers(t, both, h), d.about = "tradeIn"
             PROVE  FormSent(h)
  BY DEF Cleared
<1>1. Failed.about # "tradeIn" BY AboutOf DEF Failed
<1>2. PICK e \in ModelDecisions : d = EnsureFormBeforeHandoff(e, t, both, h)
  BY <1>1 DEF ModelAnswers, ProtectCustomerDecision
<1> QED BY <1>2, FilterClears

LEMMA RestCleared ==
  ASSUME NEW t, NEW both, NEW h, NEW now
  PROVE  Cleared(Rest(t, both, h, now), t, h)
<1> DEFINE model == ModelAnswers(t, both, h)
           where == When(PhysicalStore(t), {Answer(TodayReply(now))})
           warranted == When(Holds(t, {"warrantyAsked"}), {Answer(Warranty)})
           catalog == When(Holds(both, {"catalogAsked"}) \/ PhotoYes(t, h), CatalogAnswers)
           read == When(Interpreted(both, h),
                        {Answer(Clarification)} \cup {d \in model : d # Failed})
<1>1. Cleared(model, t, h) BY ModelCleared
<1>2. Cleared(where, t, h) BY AboutOf DEF Cleared, When
<1>3. Cleared(warranted, t, h) BY AboutOf DEF Cleared, When
<1>4. Cleared(catalog, t, h) BY CatalogCleared DEF When
<1>5. Cleared(read, t, h) BY <1>1, AboutOf DEF Cleared, When
<1>6. Rest(t, both, h, now) = catalog \cup (where ?? warranted ?? model) \cup read BY DEF Rest
<1> HIDE DEF model, where, warranted, catalog, read
<1>7. Cleared(where ?? warranted ?? model, t, h) BY <1>1, <1>2, <1>3, FirstCleared
<1> QED BY <1>4, <1>5, <1>6, <1>7 DEF Cleared
-----------------------------------------------------------------------------
LEMMA AnswersCleared ==
  ASSUME NEW m, NEW h, NEW now
  PROVE  Cleared(Answers(m, h, now), m.text, h)
<1> DEFINE t == m.text
           both == Together(t, m.image)
           day == When(DateAsked(t) \/ TodayStatus(t), {CurrentDay(t, h, now)})
<1>1. Cleared(day, t, h) BY VisitAbout DEF Cleared, When
<1>2. Answers(m, h, now) =
        Evaluation(t, h) ?? Pictured(t, m.image, h) ?? WholeDevices(t, both, h) ?? day
          ?? Buyer(t, both, h) ?? Offer(t, both, m.image, h) ?? Store(t, h, now)
          ?? Rest(t, both, h, now)
  BY DEF Answers
<1> HIDE DEF t, both, day
<1>3. Cleared(Answers(m, h, now), t, h)
  BY <1>1, <1>2, EvaluationCleared, PicturedCleared, WholeDevicesCleared, BuyerCleared,
     OfferCleared, StoreCleared, RestCleared, FirstCleared
<1> QED BY <1>3 DEF t

(* EvaluationOnlyWithForm: whatever customers, people and the language     *)
(* model write, the bot hands a customer over for an evaluation only with  *)
(* a form filled in, or one among the rows it sees                         *)
(* (_ensure_trade_in_form_before_handoff in agent.py).                     *)
THEOREM EvaluationNeedsForm == Spec => EvaluationOnlyWithForm
<1> DEFINE A == answer'.decision.about = "tradeIn" =>
                  Holds(answer'.text, {"filled"}) \/ FormSent(rows)
<1>1. ASSUME Next PROVE A
  <2>1. NoAnswer.decision.about # "tradeIn" BY AboutOf DEF NoAnswer
  <2>2. ASSUME NEW m \in Messages, Turn(m) PROVE A
    <3>1. PICK d \in Answers(m, rows, clock) :
            answer' = [text |-> m.text, image |-> m.image, decision |-> d]
      BY <2>2 DEF Turn
    <3> QED BY <3>1, AnswersCleared DEF Cleared
  <2>3. CASE \E t \in HeldMessages : CustomerWrites(t) BY <2>1, <2>3 DEF CustomerWrites
  <2>4. CASE \E t \in Attendants : AttendantWrites(t) BY <2>1, <2>4 DEF AttendantWrites
  <2>5. CASE Release BY <2>1, <2>5 DEF Release
  <2>6. CASE \E now \in Instants : TimePasses(now) BY <2>1, <2>6 DEF TimePasses
  <2> QED BY <1>1, <2>2, <2>3, <2>4, <2>5, <2>6 DEF Next
<1>2. [Next]_vars => [A]_vars BY <1>1
<1> QED BY <1>2, PTL DEF Spec, EvaluationOnlyWithForm
-----------------------------------------------------------------------------
(* No decision registers a visit, names a day or has one of the cues.      *)
Idle(d) == d.about # "visit" /\ d.visit = NoVisit
Free(decisions, cues) ==
  \A d \in decisions : Idle(d) /\ Lacks(d.text, cues) /\ d.text.days = <<>>

(* Texts that neither are the form nor ask for a day.                      *)
Plain ==
  {OtherBrand, Parts, Purchase, WhichModel, Policy, Warranty, Budget, Payment, Hours, Listed,
   Evaluated, ListedEvaluated, Clarification, DowngradeQuestion, Details.text, PriceTalk.text,
   ConditionTalk.text, Technical.text, Forwarded.text, Failed.text}
Forms == {Form, DowngradeForm, ListedAndForm}

LEMMA CuesOf ==
  ASSUME NEW name, NEW cues
  PROVE  Say(name, cues).cues = cues /\ Say(name, cues).days = <<>>
BY DEF Say

LEMMA TextOf ==
  ASSUME NEW text, NEW about
  PROVE  Answer(text).text = text /\ Transfer(text, about).text = text
BY DEF Answer, Transfer

LEMMA IdleOf ==
  ASSUME NEW text, NEW about
  PROVE  Idle(Answer(text)) /\ (about # "visit" => Idle(Transfer(text, about)))
<1>1. Answer(text).visit = NoVisit /\ Transfer(text, about).visit = NoVisit
  BY DEF Answer, Transfer
<1> QED BY <1>1, AboutOf DEF Idle

LEMMA FirstFree ==
  ASSUME NEW a, NEW b, NEW cues, Free(a, cues), Free(b, cues)
  PROVE  Free(a ?? b, cues)
BY DEF Free, ??

LEMMA WhenFree ==
  ASSUME NEW c, NEW a, NEW cues, c => Free(a, cues)
  PROVE  Free(When(c, a), cues)
BY DEF Free, When

LEMMA OneFree ==
  ASSUME NEW d, NEW cues, Idle(d), Lacks(d.text, cues), d.text.days = <<>>
  PROVE  Free({d}, cues)
BY DEF Free

LEMMA PlainTexts ==
  ASSUME NEW x \in Plain
  PROVE  Lacks(x, {"dayAsked", "visitToday", "formMarker"}) /\ x.days = <<>>
<1> DEFINE L(y) == y.cues \cap {"dayAsked", "visitToday", "formMarker"} = {} /\ y.days = <<>>
<1>1. L(OtherBrand) /\ L(Parts) /\ L(Purchase) /\ L(WhichModel) /\ L(Policy) /\ L(Warranty)
  BY CuesOf DEF OtherBrand, Parts, Purchase, WhichModel, Policy, Warranty
<1>2. L(Budget) /\ L(Payment) /\ L(Hours) /\ L(Evaluated) /\ L(Clarification) /\ L(DowngradeQuestion)
  BY CuesOf DEF Budget, Payment, Hours, Evaluated, Clarification, DowngradeQuestion
<1>3. Listed.cues = {"apple", "device", "listed", "offer", "photoOffer", "priced",
                     "productFacts", "question"}
  BY DEF Listed, Say
<1>4. Listed.days = <<>> /\ ListedEvaluated.days = <<>> BY DEF ListedEvaluated, Listed, Say
<1>5. ListedEvaluated.cues = Listed.cues \cup Evaluated.cues
  BY DEF ListedEvaluated, Listed, Say
<1>6. L(Listed) /\ L(ListedEvaluated) BY <1>2, <1>3, <1>4, <1>5
<1>7. /\ L(Details.text) /\ L(PriceTalk.text) /\ L(ConditionTalk.text) /\ L(Technical.text)
      /\ L(Forwarded.text) /\ L(Failed.text)
  BY CuesOf, TextOf
  DEF Details, PriceTalk, ConditionTalk, Technical, Forwarded, Failed, Forwarding
<1> HIDE DEF L
<1>8. L(x) BY <1>1, <1>2, <1>6, <1>7 DEF Plain
<1> QED BY <1>8 DEF L, Lacks

LEMMA FormTexts ==
  ASSUME NEW x \in Forms
  PROVE  Lacks(x, {"dayAsked", "visitToday"}) /\ x.days = <<>>
<1> DEFINE L(y) == y.cues \cap {"dayAsked", "visitToday"} = {} /\ y.days = <<>>
<1>1. L(Form) BY CuesOf DEF Form
<1>2. L(DowngradeForm) BY <1>1, CuesOf DEF DowngradeForm
<1>3. ListedAndForm.cues = Listed.cues \cup Form.cues /\ ListedAndForm.days = <<>>
  BY DEF ListedAndForm, Listed, Say
<1>4. L(Listed) BY PlainTexts DEF Plain, Lacks
<1>5. L(ListedAndForm) BY <1>1, <1>3, <1>4
<1> HIDE DEF L
<1>6. L(x) BY <1>1, <1>2, <1>5 DEF Forms
<1> QED BY <1>6 DEF L, Lacks

(* A rule with a plain text, a rule with the form.                         *)
LEMMA PlainAnswers ==
  ASSUME NEW x \in Plain
  PROVE  /\ Free({Answer(x)}, {"dayAsked", "visitToday"}) /\ Free({Answer(x)}, {"formMarker"})
         /\ \A about : about # "visit" =>
              /\ Free({Transfer(x, about)}, {"dayAsked", "visitToday"})
              /\ Free({Transfer(x, about)}, {"formMarker"})
<1>1. Lacks(x, {"dayAsked", "visitToday"}) /\ Lacks(x, {"formMarker"}) BY PlainTexts DEF Lacks
<1>2. x.days = <<>> BY PlainTexts
<1> QED BY <1>1, <1>2, IdleOf, TextOf, OneFree

LEMMA FormAnswers ==
  ASSUME NEW x \in Forms
  PROVE  Free({Answer(x)}, {"dayAsked", "visitToday"})
BY FormTexts, IdleOf, TextOf, OneFree

(* The groups of rules: before the visits none asks for a day, and the     *)
(* form has its reasons.                                                   *)
LEMMA EvaluationFree ==
  ASSUME NEW t, NEW h
  PROVE  /\ Free(Evaluation(t, h), {"dayAsked", "visitToday"})
         /\ ~IsDowngrade(t) /\ ~CatalogTarget(t) /\ ~Catalog17(t, h)
              => Free(Evaluation(t, h), {"formMarker"})
<1> DEFINE filled == When(Holds(t, {"filled"}),
                       {Transfer(IF CatalogTarget(t) THEN ListedEvaluated ELSE Evaluated, "tradeIn")})
           lines == When(UnlabelledForm(t, h) \/ (FormSent(h) /\ IsNegotiation(t)),
                         {Transfer(Evaluated, "tradeIn")})
           other == When(NonAppleRequest(t) /\ ~PartsRequest(t), {Answer(OtherBrand)})
           down == When(IsDowngrade(t),
                        {Answer(IF FormSent(h) THEN DowngradeQuestion ELSE DowngradeForm)})
           target == When(~FormSent(h) /\ (Catalog17(t, h) \/ CatalogTarget(t)),
                          {Answer(ListedAndForm)})
           named == ~IsDowngrade(t) /\ ~CatalogTarget(t) /\ ~Catalog17(t, h)
           D == {"dayAsked", "visitToday"}
           F == {"formMarker"}
<1>1. \A x \in {ListedEvaluated, Evaluated, OtherBrand, DowngradeQuestion} : x \in Plain
  BY DEF Plain
<1>2. DowngradeForm \in Forms /\ ListedAndForm \in Forms BY DEF Forms
<1>3. Free(filled, D) /\ Free(filled, F) BY <1>1, PlainAnswers, WhenFree
<1>4. Free(lines, D) /\ Free(lines, F) BY <1>1, PlainAnswers, WhenFree
<1>5. Free(other, D) /\ Free(other, F) BY <1>1, PlainAnswers, WhenFree
<1>6. Free(down, D) BY <1>1, <1>2, PlainAnswers, FormAnswers, WhenFree
<1>7. Free(target, D) BY <1>2, FormAnswers, WhenFree
<1>8. named => Free(down, F) /\ Free(target, F) BY DEF Free, When
<1>9. Evaluation(t, h) = filled ?? lines ?? other ?? down ?? target BY DEF Evaluation
<1> HIDE DEF filled, lines, other, down, target, D, F, named
<1>10. Free(Evaluation(t, h), D) BY <1>3, <1>4, <1>5, <1>6, <1>7, <1>9, FirstFree
<1>11. named => Free(Evaluation(t, h), F) BY <1>3, <1>4, <1>5, <1>8, <1>9, FirstFree
<1> QED BY <1>10, <1>11 DEF D, F, named

LEMMA CatalogFree ==
  ASSUME NEW S \in {{"dayAsked", "visitToday"}, {"formMarker"}}
  PROVE  Free(CatalogAnswers, S) /\ Free(Payments, S) /\ Free({Details}, S) /\ Free({}, S)
<1>1. Listed \in Plain /\ Details.text \in Plain /\ Payment \in Plain BY DEF Plain
<1>2. Free({Answer(Listed)}, S) /\ Free({Answer(Payment)}, S) BY <1>1, PlainAnswers
<1>3. Idle(Details) BY IdleOf DEF Details
<1>4. Lacks(Details.text, S) /\ Details.text.days = <<>> BY <1>1, PlainTexts DEF Lacks
<1>5. Free({Details}, S) BY <1>3, <1>4, OneFree
<1> QED BY <1>2, <1>5 DEF Free, CatalogAnswers, Payments

LEMMA TransfersFree ==
  ASSUME NEW S \in {{"dayAsked", "visitToday"}, {"formMarker"}}
  PROVE  Free({PriceTalk}, S) /\ Free({ConditionTalk}, S) /\ Free({Technical}, S)
         /\ Free({Forwarded}, S) /\ Free({Failed}, S)
<1>1. \A d \in {PriceTalk, ConditionTalk, Technical, Forwarded, Failed} :
         d.text \in Plain /\ Idle(d)
  BY IdleOf DEF Plain, PriceTalk, ConditionTalk, Technical, Forwarded, Failed
<1>2. \A d \in {PriceTalk, ConditionTalk, Technical, Forwarded, Failed} :
         Lacks(d.text, S) /\ d.text.days = <<>>
  BY <1>1, PlainTexts DEF Lacks
<1> QED BY <1>1, <1>2, OneFree

LEMMA PicturedFree ==
  ASSUME NEW t, NEW image, NEW h, NEW S \in {{"dayAsked", "visitToday"}, {"formMarker"}}
  PROVE  Free(Pictured(t, image, h), S)
<1> DEFINE policy == When(Holds(t, {"policyAsked"}) /\ ~PartsRequest(t) /\ ~IsTradeIn(t),
                          {Answer(Policy)})
           stock == When(Holds(t, {"imageAsked"}) /\ image.cues # {} /\ Lacks(image, {"otherFamily"}),
                         CatalogAnswers)
           paid == When(Holds(t, {"payAsked"}), Payments)
           wanted == When(Holds(t, {"buyerInterest"}) /\ Holds(image, {"product"}) /\ ~FormSent(h),
                          paid ?? CatalogAnswers)
<1>1. Policy \in Plain BY DEF Plain
<1>2. Free(policy, S) BY <1>1, PlainAnswers, WhenFree
<1>3. Free(stock, S) /\ Free(paid, S) BY CatalogFree, WhenFree
<1>4. Free(paid ?? CatalogAnswers, S) BY <1>3, CatalogFree, FirstFree
<1>5. Free(wanted, S) BY <1>4, WhenFree
<1>6. Pictured(t, image, h) = policy ?? stock ?? wanted BY DEF Pictured
<1> HIDE DEF policy, stock, wanted
<1> QED BY <1>2, <1>3, <1>5, <1>6, FirstFree

LEMMA WholeDevicesFree ==
  ASSUME NEW t, NEW both, NEW h
  PROVE  /\ Free(WholeDevices(t, both, h), {"dayAsked", "visitToday"})
         /\ ~InTradeIn(both, h) => Free(WholeDevices(t, both, h), {"formMarker"})
         /\ ~PartsRequest(both) /\ NonAppleRequest(both)
              => WholeDevices(t, both, h) = {Answer(OtherBrand)}
<1> DEFINE part == When(PartsRequest(both),
                        {Answer(IF ~PurchaseOnly(both, <<>>) /\ InTradeIn(both, h) THEN Form ELSE Parts)})
           other == When(NonAppleRequest(both), {Answer(OtherBrand)})
           phone == When(NeedsSomePhone(t, h) /\ ~IsVisit(t) /\ ~IsReservation(t), {Answer(Purchase)})
           D == {"dayAsked", "visitToday"}
           F == {"formMarker"}
<1>1. OtherBrand \in Plain /\ Purchase \in Plain /\ Parts \in Plain /\ Form \in Forms
  BY DEF Plain, Forms
<1>2. Free(part, D) BY <1>1, PlainAnswers, FormAnswers, WhenFree
<1>3. ~InTradeIn(both, h) => Free(part, F) BY <1>1, PlainAnswers, WhenFree
<1>4. Free(other, D) /\ Free(other, F) BY <1>1, PlainAnswers, WhenFree
<1>5. Free(phone, D) /\ Free(phone, F) BY <1>1, PlainAnswers, WhenFree
<1>6. WholeDevices(t, both, h) = part ?? other ?? phone BY DEF WholeDevices
<1>7. ~PartsRequest(both) /\ NonAppleRequest(both) => part = {} /\ other = {Answer(OtherBrand)}
  BY DEF When
<1> HIDE DEF part, other, phone, D, F
<1>8. Free(WholeDevices(t, both, h), D) BY <1>2, <1>4, <1>5, <1>6, FirstFree
<1>9. ~InTradeIn(both, h) => Free(WholeDevices(t, both, h), F)
  BY <1>3, <1>4, <1>5, <1>6, FirstFree
<1>10. ~PartsRequest(both) /\ NonAppleRequest(both)
         => WholeDevices(t, both, h) = {Answer(OtherBrand)}
  BY <1>6, <1>7 DEF ??
<1> QED BY <1>8, <1>9, <1>10 DEF D, F

LEMMA BuyerFree ==
  ASSUME NEW t, NEW both, NEW h, NEW S \in {{"dayAsked", "visitToday"}, {"formMarker"}}
  PROVE  Free(Buyer(t, both, h), S)
<1> DEFINE recalled == When(PriceRecall(both), {Answer(Listed), Details})
           haggled == When(PriceNegotiation(both, h), {PriceTalk})
           advised == When(Advice(both, h) \/ BuyerDetails(t, both, h), {Details})
<1>1. Free({Answer(Listed), Details}, S) BY CatalogFree DEF CatalogAnswers
<1>2. Free(recalled, S) BY <1>1, WhenFree
<1>3. Free(haggled, S) BY TransfersFree, WhenFree
<1>4. Free(advised, S) BY CatalogFree, WhenFree
<1>5. Buyer(t, both, h) = recalled ?? haggled ?? advised BY DEF Buyer
<1> HIDE DEF recalled, haggled, advised
<1> QED BY <1>2, <1>3, <1>4, <1>5, FirstFree

LEMMA OfferFree ==
  ASSUME NEW t, NEW both, NEW image, NEW h
  PROVE  /\ Free(Offer(t, both, image, h), {"dayAsked", "visitToday"})
         /\ ~AnswersDetails(t, image, h) /\ ~InTradeIn(t, h) /\ ~InTradeIn(both, h)
              => Free(Offer(t, both, image, h), {"formMarker"})
<1> DEFINE details == When(AnswersDetails(t, image, h), {Answer(Form)})
           asked == When(~FormSent(h) /\ ConditionQuestion(both, h), {ConditionTalk})
           offered == When(\/ InTradeIn(t, h) /\ ~PurchaseOnly(t, <<>>)
                           \/ /\ InTradeIn(both, h) /\ ExplicitCue(t)
                              /\ ~NonAppleRequest(t) /\ ~PurchaseOnly(t, <<>>),
                           {Answer(Form)})
           repair == When(Holds(both, {"assistance"}), {Technical})
           model == When(Holds(both, {"someModel"}), {Answer(WhichModel)})
           nothing == ~AnswersDetails(t, image, h) /\ ~InTradeIn(t, h) /\ ~InTradeIn(both, h)
           D == {"dayAsked", "visitToday"}
           F == {"formMarker"}
<1>1. WhichModel \in Plain /\ Form \in Forms BY DEF Plain, Forms
<1>2. Free(details, D) /\ Free(offered, D) BY <1>1, FormAnswers, WhenFree
<1>3. nothing => Free(details, F) /\ Free(offered, F) BY DEF Free, When
<1>4. Free(asked, D) /\ Free(asked, F) BY TransfersFree, WhenFree
<1>5. Free(repair, D) /\ Free(repair, F) BY TransfersFree, WhenFree
<1>6. Free(model, D) /\ Free(model, F) BY <1>1, PlainAnswers, WhenFree
<1>7. Offer(t, both, image, h) = details ?? asked ?? offered ?? repair ?? model BY DEF Offer
<1> HIDE DEF details, asked, offered, repair, model, D, F, nothing
<1>8. Free(Offer(t, both, image, h), D) BY <1>2, <1>4, <1>5, <1>6, <1>7, FirstFree
<1>9. nothing => Free(Offer(t, both, image, h), F)
  BY <1>3, <1>4, <1>5, <1>6, <1>7, FirstFree
<1> QED BY <1>8, <1>9 DEF D, F, nothing
-----------------------------------------------------------------------------
(* The calendar: a day that a text offers is read again as an open day.    *)
OpenDay(text, now) ==
  /\ text.days \in Seq(DayWords)
  /\ Holds(text, {"dayAsked"}) /\ HasDate(text) => IsBusinessDay(VisitDay(text.days, now))
  /\ Holds(text, {"visitToday"}) => "hoje" \in ToSet(text.days)

LEMMA SmallestOf ==
  ASSUME NEW S, S \subseteq Nat, S # {}
  PROVE  \E i \in S : \A j \in S : i <= j
<1>1. PICK i \in S : \A j \in S : ~(<<j, i>> \in OpToRel(<, Nat))
  BY NatLessThanWellFounded, WFMin
<1>2. \A j \in S : j < i => <<j, i>> \in OpToRel(<, Nat) BY DEF OpToRel
<1>3. \A j \in S : ~(j < i) BY <1>1, <1>2
<1> QED BY <1>3

(* The words for a day differ.                                             *)
LEMMA WeekdaysDiffer ==
  /\ DOMAIN Weekdays = 1..7
  /\ \A i, j \in 1..7 : Weekdays[i] = Weekdays[j] => i = j
  /\ \A i \in 1..7 : /\ Weekdays[i] \in DayWords /\ Weekdays[i] \in ToSet(Weekdays)
                      /\ Weekdays[i] \notin {"hoje", "amanha"} \cup NextWeek \cup DOMAIN DateDays
<1>1. DOMAIN Weekdays = 1..7 BY DEF Weekdays
<1>2. /\ Weekdays[1] = "segunda" /\ Weekdays[2] = "terca" /\ Weekdays[3] = "quarta"
      /\ Weekdays[4] = "quinta" /\ Weekdays[5] = "sexta" /\ Weekdays[6] = "sabado"
      /\ Weekdays[7] = "domingo"
  BY DEF Weekdays
<1>3. \A i \in 1..7 : i = 1 \/ i = 2 \/ i = 3 \/ i = 4 \/ i = 5 \/ i = 6 \/ i = 7 OBVIOUS
<1>4. \A i, j \in 1..7 : Weekdays[i] = Weekdays[j] => i = j BY <1>2, <1>3
<1>5. \A i \in 1..7 : Weekdays[i] \notin {"hoje", "amanha"} \cup NextWeek BY <1>2, <1>3 DEF NextWeek
<1>6. \A i \in 1..7 : Weekdays[i] \in ToSet(Weekdays) BY <1>1 DEF ToSet
<1>7. \A i \in 1..7 : Weekdays[i] \in OtherDayWords BY <1>6 DEF OtherDayWords
<1> QED BY <1>1, <1>4, <1>5, <1>6, <1>7, DateAssumption DEF DayWords

LEMMA DatesDiffer ==
  \A w \in DOMAIN DateDays : w \notin {"hoje", "amanha"} \cup ToSet(Weekdays)
BY DateAssumption DEF OtherDayWords

LEMMA OneWord ==
  ASSUME NEW w
  PROVE  DOMAIN <<w>> = {1} /\ <<w>>[1] = w /\ <<w>> # <<>> /\ ToSet(<<w>>) = {w}
BY SMTT(30) DEF ToSet

LEMMA TwoWords ==
  ASSUME NEW v, NEW w
  PROVE  ToSet(<<v, w>>) = {v, w} /\ <<v, w>> \in Seq({v, w})
<1>1. DOMAIN <<v, w>> = {1, 2} /\ <<v, w>>[1] = v /\ <<v, w>>[2] = w BY SMTT(30)
<1> QED BY <1>1 DEF ToSet

LEMMA FirstOfSaid ==
  ASSUME NEW W, NEW days \in Seq(W), NEW words, ToSet(days) \cap words # {}
  PROVE  FirstOf(days, words) \in ToSet(days) \cap words
<1> DEFINE said == {i \in DOMAIN days : days[i] \in words}
           first == CHOOSE i \in said : \A j \in said : i <= j
<1>1. said \subseteq Nat OBVIOUS
<1>2. said # {} BY DEF ToSet
<1>3. first \in said BY <1>1, <1>2, SmallestOf
<1>4. FirstOf(days, words) = days[first] BY DEF FirstOf
<1> HIDE DEF first
<1> QED BY <1>3, <1>4 DEF ToSet

(* The day of a date, and of a weekday.                                    *)
LEMMA DateDayIs ==
  ASSUME NEW w \in DOMAIN DateDays, NEW now \in Nat
  PROVE  /\ DateDay(w, now) \in Int
         /\ DateDay(w, now) # NoDay =>
              /\ DateDay(w, now) >= Day(now) \/ w \in FullDates
              /\ DateDay(w, now) \in DateDays[w]
<1> DEFINE due == {d \in DateDays[w] : w \in FullDates \/ d >= Day(now)}
           next == CHOOSE d \in due : \A e \in due : d <= e
<1>1. due \subseteq Nat BY DateAssumption
<1>2. DateDay(w, now) = IF due = {} THEN NoDay ELSE next BY DEF DateDay
<1>3. due # {} => next \in due BY <1>1, SmallestOf
<1>4. due # {} => next \in DateDays[w] /\ (w \in FullDates \/ next >= Day(now)) BY <1>3
<1> HIDE DEF due, next
<1>5. CASE due = {}
  <2>1. DateDay(w, now) = NoDay BY <1>2, <1>5
  <2> QED BY <2>1 DEF NoDay
<1>6. CASE due # {}
  <2>1. DateDay(w, now) = next /\ next \in Nat BY <1>1, <1>2, <1>3, <1>6
  <2> QED BY <1>4, <1>6, <2>1
<1> QED BY <1>5, <1>6

LEMMA WeekdayDayIs ==
  ASSUME NEW k \in 1..7, NEW said, NEW now \in Nat
  PROVE  /\ WeekdayDay(Weekdays[k], said, now) \in Int
         /\ WeekdayDay(Weekdays[k], said, now) >= Day(now)
         /\ said \cap NextWeek = {} =>
              WeekdayDay(Weekdays[k], said, now) = Day(now) + ((k - 1 - Day(now)) % 7)
<1> DEFINE n == CHOOSE i \in 1..7 : Weekdays[i] = Weekdays[k]
           D == Day(now)
           ahead == IF said \cap NextWeek # {} THEN 7 - (D % 7) + (n - 1) ELSE ((n - 1) - D) % 7
<1>1. n \in 1..7 /\ Weekdays[n] = Weekdays[k] OBVIOUS
<1>2. n = k BY <1>1, WeekdaysDiffer
<1>3. WeekdayDay(Weekdays[k], said, now) = D + ahead BY DEF WeekdayDay
<1>4. D \in Int BY DEF Day
<1> HIDE DEF n, D
<1>5. D % 7 \in 0..6 /\ (k - 1 - D) % 7 \in 0..6 BY <1>4
<1> DEFINE next == said \cap NextWeek # {}
<1>6. ahead = IF next THEN 7 - (D % 7) + (k - 1) ELSE (k - 1 - D) % 7 BY <1>2
<1>7. next <=> said \cap NextWeek # {} OBVIOUS
<1> HIDE DEF ahead, next
<1>8. ahead \in Nat /\ (~next => ahead = (k - 1 - D) % 7) BY <1>5, <1>6
<1>9. D + ahead \in Int /\ D + ahead >= D BY <1>4, <1>8
<1> QED BY <1>3, <1>7, <1>8, <1>9 DEF D

(* The day that one word names, and a weekday with another one.            *)
LEMMA WordDay ==
  ASSUME NEW now \in Nat
  PROVE  /\ VisitDay(<<"hoje">>, now) = Day(now) /\ VisitDay(<<"amanha">>, now) = Day(now) + 1
         /\ \A w \in DOMAIN DateDays : VisitDay(<<w>>, now) = DateDay(w, now)
         /\ \A w \in ToSet(Weekdays) : VisitDay(<<w>>, now) = WeekdayDay(w, {w}, now)
         /\ \A w \in ToSet(Weekdays) : \A next \in NextWeek :
              VisitDay(<<w, next>>, now) = WeekdayDay(w, {w, next}, now)
<1>1. ToSet(<<"hoje">>) = {"hoje"} /\ ToSet(<<"amanha">>) = {"amanha"} BY OneWord
<1>2. \A w, words : w \in words => FirstOf(<<w>>, words) = w
  <2> SUFFICES ASSUME NEW w, NEW words, w \in words PROVE FirstOf(<<w>>, words) = w OBVIOUS
  <2>1. <<w>> \in Seq({w}) /\ ToSet(<<w>>) = {w} BY OneWord
  <2> QED BY <2>1, FirstOfSaid
<1>3. ASSUME NEW w \in DOMAIN DateDays PROVE VisitDay(<<w>>, now) = DateDay(w, now)
  <2>1. w \notin {"hoje", "amanha"} BY DatesDiffer
  <2>2. ToSet(<<w>>) = {w} /\ FirstOf(<<w>>, DOMAIN DateDays) = w BY <1>2, OneWord
  <2> QED BY <2>1, <2>2 DEF VisitDay
<1>4. \A w \in ToSet(Weekdays) : w \notin {"hoje", "amanha"} \cup NextWeek \cup DOMAIN DateDays
  BY WeekdaysDiffer DEF ToSet
<1>5. ASSUME NEW w \in ToSet(Weekdays) PROVE VisitDay(<<w>>, now) = WeekdayDay(w, {w}, now)
  <2>1. ToSet(<<w>>) = {w} /\ FirstOf(<<w>>, ToSet(Weekdays)) = w BY <1>2, OneWord
  <2> QED BY <1>4, <2>1 DEF VisitDay
<1>6. ASSUME NEW w \in ToSet(Weekdays), NEW next \in NextWeek
      PROVE  VisitDay(<<w, next>>, now) = WeekdayDay(w, {w, next}, now)
  <2>1. ToSet(<<w, next>>) = {w, next} /\ <<w, next>> \in Seq({w, next}) BY TwoWords
  <2>2. next \in OtherDayWords /\ next \notin {"hoje", "amanha"} BY DEF NextWeek, OtherDayWords
  <2>3. next \notin DOMAIN DateDays BY <2>2, DateAssumption
  <2>4. next \notin ToSet(Weekdays) BY <1>4
  <2>5. FirstOf(<<w, next>>, ToSet(Weekdays)) \in {w, next} \cap ToSet(Weekdays)
    BY <2>1, FirstOfSaid
  <2>6. FirstOf(<<w, next>>, ToSet(Weekdays)) = w BY <2>4, <2>5
  <2> QED BY <1>4, <2>1, <2>2, <2>3, <2>6 DEF VisitDay
<1> QED BY <1>1, <1>3, <1>5, <1>6 DEF VisitDay

LEMMA VisitDayIsInt ==
  ASSUME NEW days \in Seq(DayWords), NEW now \in Nat
  PROVE  VisitDay(days, now) \in Int
<1> DEFINE said == ToSet(days)
           date == FirstOf(days, DOMAIN DateDays)
           weekday == FirstOf(days, ToSet(Weekdays))
<1>1. Day(now) \in Int /\ Day(now) + 1 \in Int /\ NoDay \in Int BY DEF Day, NoDay
<1>2. said \cap DOMAIN DateDays # {} => DateDay(date, now) \in Int BY FirstOfSaid, DateDayIs
<1>3. said \cap ToSet(Weekdays) # {} => WeekdayDay(weekday, said, now) \in Int
  <2> SUFFICES ASSUME said \cap ToSet(Weekdays) # {} PROVE WeekdayDay(weekday, said, now) \in Int
    OBVIOUS
  <2>1. weekday \in ToSet(Weekdays) BY FirstOfSaid
  <2>2. PICK k \in 1..7 : weekday = Weekdays[k] BY <2>1, WeekdaysDiffer DEF ToSet
  <2> QED BY <2>2, WeekdayDayIs
<1>4. VisitDay(days, now) \in {Day(now), Day(now) + 1, NoDay}
      \/ (said \cap DOMAIN DateDays # {} /\ VisitDay(days, now) = DateDay(date, now))
      \/ (said \cap ToSet(Weekdays) # {} /\ VisitDay(days, now) = WeekdayDay(weekday, said, now))
  BY DEF VisitDay
<1> QED BY <1>1, <1>2, <1>3, <1>4

LEMMA OfferedDay ==
  ASSUME NEW name, NEW cues, NEW w
  PROVE  Offering(name, cues, w).days = <<w>> /\ Offering(name, cues, w).cues = cues
         /\ Say(name, cues).days = <<>>
BY DEF Offering, Say

(* A text that offers no day, and one that offers the day of a word.       *)
LEMMA DaylessOpen ==
  ASSUME NEW x, x.days = <<>>, Lacks(x, {"visitToday"}), NEW now
  PROVE  OpenDay(x, now)
<1>1. x.days \in Seq(DayWords) /\ ~HasDate(x) BY DEF HasDate, NamesDate, ToSet
<1> QED BY <1>1 DEF OpenDay, Holds, Lacks

LEMMA WordOpen ==
  ASSUME NEW x, NEW w \in DayWords, x.days = <<w>>, NEW now \in Nat,
         IsBusinessDay(VisitDay(<<w>>, now)), Lacks(x, {"visitToday"}) \/ w = "hoje"
  PROVE  OpenDay(x, now)
<1>1. x.days \in Seq(DayWords) /\ ToSet(x.days) = {w} BY OneWord
<1> QED BY <1>1 DEF OpenDay, Holds, Lacks

LEMMA SomeDayOpen ==
  ASSUME NEW name, NEW now
  PROVE  OpenDay(SomeDay(name), now)
<1>1. SomeDay(name).days = <<>> /\ SomeDay(name).cues = {"dayAsked", "question"}
  BY CuesOf DEF SomeDay
<1>2. Lacks(SomeDay(name), {"visitToday"}) BY <1>1 DEF Lacks
<1> QED BY <1>1, <1>2, DaylessOpen

LEMMA SomeDayOfferedOpen ==
  ASSUME NEW name, NEW w \in DayWords, NEW now \in Nat, IsBusinessDay(VisitDay(<<w>>, now))
  PROVE  OpenDay(SomeDayOffered(name, w), now)
<1>1. /\ SomeDayOffered(name, w).days = <<w>>
      /\ SomeDayOffered(name, w).cues = {"dayAsked", "question"}
  BY OfferedDay DEF SomeDayOffered
<1>2. Lacks(SomeDayOffered(name, w), {"visitToday"}) BY <1>1 DEF Lacks
<1> QED BY <1>1, <1>2, WordOpen

LEMMA RepliesOpen ==
  ASSUME NEW now \in Nat, NEW day \in Int
  PROVE  /\ OpenDay(TodayReply(now), now) /\ OpenDay(TomorrowReply(now), now)
         /\ OpenDay(DayReply(day), now)
<1>1. Day(now) \in Int BY DEF Day
<1>2. "hoje" \in DayWords /\ "amanha" \in DayWords BY DEF DayWords, OtherDayWords
<1>3. OpenDay(TomorrowReply(now), now)
  <2>1. IsBusinessDay(Day(now) + 1) => IsBusinessDay(VisitDay(<<"amanha">>, now)) BY WordDay
  <2>2. IsBusinessDay(Day(now) + 1) => OpenDay(SomeDayOffered("tomorrow", "amanha"), now)
    BY <1>2, <2>1, SomeDayOfferedOpen
  <2> QED BY <2>2, SomeDayOpen DEF TomorrowReply
<1>4. OpenDay(TodayReply(now), now)
  <2>1. IsBusinessDay(Day(now)) => IsBusinessDay(VisitDay(<<"hoje">>, now)) BY WordDay
  <2>2. TodayOffer.days = <<"hoje">> BY OfferedDay DEF TodayOffer
  <2>3. IsBusinessDay(Day(now)) => OpenDay(TodayOffer, now) BY <1>2, <2>1, <2>2, WordOpen
  <2> QED BY <1>3, <2>3, SomeDayOpen DEF TodayReply
<1>5. OpenDay(DayReply(day), now)
  <2>1. CASE ~IsBusinessDay(day) BY <2>1, SomeDayOpen DEF DayReply
  <2>2. CASE IsBusinessDay(day)
    <3> DEFINE k == (day % 7) + 1
               D == Day(now)
    <3>1. k \in 1..7 /\ k - 1 < 5 BY <2>2 DEF IsBusinessDay
    <3>2. DayReply(day) = SomeDayOffered("day", Weekdays[k]) BY <2>2 DEF DayReply, WeekdayOf
    <3>3. VisitDay(<<Weekdays[k]>>, now) = D + ((k - 1 - D) % 7)
      <4>1. Weekdays[k] \in ToSet(Weekdays) /\ {Weekdays[k]} \cap NextWeek = {}
        BY <3>1, WeekdaysDiffer
      <4>2. VisitDay(<<Weekdays[k]>>, now) = WeekdayDay(Weekdays[k], {Weekdays[k]}, now)
        BY <4>1, WordDay
      <4> HIDE DEF k
      <4>3. WeekdayDay(Weekdays[k], {Weekdays[k]}, now) = Day(now) + ((k - 1 - Day(now)) % 7)
        BY <3>1, <4>1, WeekdayDayIs
      <4> QED BY <4>2, <4>3
    <3>4. \A r \in 0..6, e \in Int : (e + ((r - e) % 7)) % 7 = r OBVIOUS
    <3>5. (D + ((k - 1 - D) % 7)) % 7 = k - 1
      <4>1. k - 1 \in 0..6 BY <3>1
      <4> HIDE DEF k, D
      <4> QED BY <1>1, <3>4, <4>1 DEF D
    <3> HIDE DEF k, D
    <3>6. IsBusinessDay(VisitDay(<<Weekdays[k]>>, now)) BY <3>1, <3>3, <3>5 DEF IsBusinessDay
    <3>7. Weekdays[k] \in DayWords BY <3>1, WeekdaysDiffer
    <3> QED BY <3>2, <3>6, <3>7, SomeDayOfferedOpen
  <2> QED BY <2>1, <2>2
<1> QED BY <1>3, <1>4, <1>5

(* What is offered with a reservation or a visit.                          *)
LEMMA ReservationOpen ==
  ASSUME NEW now \in Nat, NEW day, day \in Int \/ ~IsBusinessDay(day)
  PROVE  OpenDay(ReservationReply(day, now), now) /\ OpenDay(DayReply(day), now)
<1> DEFINE next == IF day # NoDay THEN DayReply(day) ELSE TodayReply(now)
<1>1. OpenDay(DayReply(day), now)
  <2>1. CASE ~IsBusinessDay(day)
    BY <2>1, SomeDayOpen DEF DayReply
  <2> QED BY <2>1, RepliesOpen
<1>2. OpenDay(next, now) BY <1>1, 0 \in Int, RepliesOpen
<1>3. ReservationReply(day, now) = [next EXCEPT !.cues = @ \cup {"noReserve", "device"}]
  BY DEF ReservationReply
<1>4. next = [next EXCEPT !.cues = @] /\ DOMAIN next = {"name", "cues", "models", "days", "hour"}
  BY DEF DayReply, TodayReply, TomorrowReply, TodayOffer, SomeDayOffered, SomeDay, Offering, Say
<1> HIDE DEF next
<1>5. /\ ReservationReply(day, now).days = next.days
      /\ ReservationReply(day, now).cues = next.cues \cup {"noReserve", "device"}
  BY <1>3, <1>4
<1>6. \A c \in {"dayAsked", "visitToday"} :
         Holds(ReservationReply(day, now), {c}) <=> Holds(next, {c})
  BY <1>5 DEF Holds
<1>7. OpenDay(ReservationReply(day, now), now) BY <1>2, <1>5, <1>6 DEF OpenDay, HasDate
<1> QED BY <1>1, <1>7

(* No reply about a day is the form.                                       *)
LEMMA RepliesFormless ==
  ASSUME NEW now, NEW day
  PROVE  /\ Lacks(TodayReply(now), {"formMarker"}) /\ Lacks(TomorrowReply(now), {"formMarker"})
         /\ Lacks(DayReply(day), {"formMarker"}) /\ Lacks(ReservationReply(day, now), {"formMarker"})
<1> DEFINE C == {{"dayAsked", "question"}, {"dayAsked", "question", "visitToday"}}
           next == IF day # NoDay THEN DayReply(day) ELSE TodayReply(now)
<1>1. TomorrowReply(now).cues \in C BY CuesOf, OfferedDay DEF TomorrowReply, SomeDayOffered, SomeDay
<1>2. TodayReply(now).cues \in C
  BY <1>1, CuesOf, OfferedDay DEF TodayReply, TodayOffer, SomeDay
<1>3. DayReply(day).cues \in C BY CuesOf, OfferedDay DEF DayReply, SomeDayOffered, SomeDay
<1>4. next.cues \in C BY <1>2, <1>3
<1>5. DOMAIN next = {"name", "cues", "models", "days", "hour"}
  BY DEF DayReply, TodayReply, TomorrowReply, TodayOffer, SomeDayOffered, SomeDay, Offering, Say
<1>6. ReservationReply(day, now) = [next EXCEPT !.cues = @ \cup {"noReserve", "device"}]
  BY DEF ReservationReply
<1> HIDE DEF next
<1>7. ReservationReply(day, now).cues = next.cues \cup {"noReserve", "device"} BY <1>5, <1>6
<1> QED BY <1>1, <1>2, <1>3, <1>4, <1>7 DEF Lacks

LEMMA RegisteredText ==
  ASSUME NEW day, NEW hour, NEW reserves
  PROVE  /\ Registered(day, hour, reserves).text.cues =
              {"forward"} \cup IF reserves THEN {"noReserve", "device"} ELSE {}
         /\ Registered(day, hour, reserves).about = "visit"
         /\ Registered(day, hour, reserves).text.days = <<>>
<1> DEFINE text == Say("registered", {"forward"} \cup IF reserves THEN {"noReserve", "device"} ELSE {})
           d == Transfer(text, "visit")
<1>1. d.text = text /\ d.about = "visit" BY TextOf, AboutOf
<1>2. /\ text.cues = {"forward"} \cup IF reserves THEN {"noReserve", "device"} ELSE {}
      /\ text.days = <<>>
  BY CuesOf
<1>3. /\ Registered(day, hour, reserves).text = d.text
      /\ Registered(day, hour, reserves).about = d.about
  BY DEF Registered, Transfer
<1> QED BY <1>1, <1>2, <1>3

(* One decision about a visit.                                             *)
LEMMA VisitSays ==
  ASSUME NEW t, NEW h, NEW now \in Nat, t.days \in Seq(DayWords)
  PROVE  LET d == VisitDecision(t, h, now)
         IN /\ Lacks(d.text, {"formMarker"}) /\ OpenDay(d.text, now)
            /\ d.about = "visit" \/ Idle(d)
            /\ d.about = "visit" /\ (IsReservation(t) \/ (AnswersVisit(t, h) /\ ReservationPending(h)))
                 => Holds(d.text, {"noReserve"})
<1> DEFINE d == VisitDecision(t, h, now)
           Good(e) == Lacks(e.text, {"formMarker"}) /\ OpenDay(e.text, now)
           answers == AnswersVisit(t, h)
           pending == answers /\ ReservationPending(h)
           reserves == IsReservation(t) \/ pending
           context == VisitContext(t, h)
           days == IF answers /\ context.timed /\ ~NamesDate(context.days) /\ OfferedToday(h)
                   THEN <<"hoje">> ELSE context.days
           asked == VisitDay(t.days, now)
           day == IF asked # NoDay THEN asked ELSE VisitDay(days, now)
           first == Answer(ReservationReply(asked, now))
           closed == Answer(IF reserves THEN ReservationReply(day, now) ELSE DayReply(day))
           registered == Registered(day, t.hour, reserves)
           offer == IF "amanha" \in ToSet(t.days) THEN Answer(TomorrowReply(now))
                    ELSE IF asked # NoDay THEN Answer(DayReply(asked))
                    ELSE Answer(TodayReply(now))
<1>1. d = IF IsReservation(t) /\ ~IsVisit(t) /\ ~pending THEN first
          ELSE IF day # NoDay /\ ~IsBusinessDay(day) THEN closed
          ELSE IF NamesDate(days) /\ context.timed THEN registered
          ELSE IF reserves THEN first ELSE offer
  BY DEF VisitDecision
<1>2. asked \in Int BY VisitDayIsInt
<1> HIDE DEF answers, context, days, asked, day
<1>3. Good(first) /\ Idle(first)
  BY <1>2, IdleOf, TextOf, ReservationOpen, RepliesFormless
<1>4. Good(offer) /\ Idle(offer)
  BY <1>2, IdleOf, TextOf, RepliesOpen, RepliesFormless
<1>5. Idle(closed) /\ (~IsBusinessDay(day) => Good(closed))
  <2> DEFINE reply == IF reserves THEN ReservationReply(day, now) ELSE DayReply(day)
  <2>1. Idle(closed) /\ closed.text = reply BY IdleOf, TextOf
  <2>2. Lacks(reply, {"formMarker"}) BY RepliesFormless
  <2>3. ~IsBusinessDay(day) => OpenDay(reply, now) BY ReservationOpen
  <2> HIDE DEF reply, closed
  <2> QED BY <2>1, <2>2, <2>3
<1>6. Good(registered)
  <2>1. Lacks(registered.text, {"formMarker"}) /\ Lacks(registered.text, {"visitToday"})
    BY RegisteredText DEF Lacks
  <2>2. registered.text.days = <<>> BY RegisteredText
  <2> QED BY <2>1, <2>2, DaylessOpen
<1>7. reserves => Holds(registered.text, {"noReserve"}) BY RegisteredText DEF Holds
<1> HIDE DEF first, closed, registered, offer, Good
<1>8. Good(d) BY <1>1, <1>3, <1>4, <1>5, <1>6
<1>9. d = registered \/ Idle(d) BY <1>1, <1>3, <1>4, <1>5
<1>10. registered.about = "visit" BY RegisteredText DEF registered
<1> QED BY <1>7, <1>8, <1>9, <1>10 DEF Good, Idle, reserves, pending, answers

(* What groups of rules may say about days and visits.                     *)
Visiting(decisions, t, h, now) ==
  \A d \in decisions :
    /\ Lacks(d.text, {"formMarker"}) /\ OpenDay(d.text, now)
    /\ \/ Idle(d)
       \/ d.about = "visit" /\ d = VisitDecision(t, h, now) /\ AsksVisit(t, h)

LEMMA FirstVisiting ==
  ASSUME NEW a, NEW b, NEW t, NEW h, NEW now, Visiting(a, t, h, now), Visiting(b, t, h, now)
  PROVE  Visiting(a ?? b, t, h, now)
BY DEF Visiting, ??

LEMMA FreeOpen ==
  ASSUME NEW D, NEW d \in D, NEW now, Free(D, {"dayAsked", "visitToday"})
  PROVE  OpenDay(d.text, now) /\ Idle(d)
<1>1. Idle(d) /\ Lacks(d.text, {"visitToday"}) /\ d.text.days = <<>> BY DEF Free, Lacks
<1> QED BY <1>1, DaylessOpen

LEMMA FreeVisiting ==
  ASSUME NEW D, NEW t, NEW h, NEW now, Free(D, {"dayAsked", "visitToday"}), Free(D, {"formMarker"})
  PROVE  Visiting(D, t, h, now)
<1>1. \A d \in D : Lacks(d.text, {"formMarker"}) BY DEF Free
<1> QED BY <1>1, FreeOpen DEF Visiting

LEMMA CurrentDayVisiting ==
  ASSUME NEW t, NEW h, NEW now \in Nat, t.days \in Seq(DayWords)
  PROVE  Visiting({CurrentDay(t, h, now)}, t, h, now)
<1> DEFINE date == Answer(Say("date", {}))
           today == Answer(TodayReply(now))
           d == CurrentDay(t, h, now)
<1>1. d = IF IsVisit(t) \/ IsReservation(t) THEN VisitDecision(t, h, now)
          ELSE IF DateAsked(t) THEN date ELSE today
  BY DEF CurrentDay
<1>2. /\ Idle(date) /\ Lacks(date.text, {"formMarker"}) /\ OpenDay(date.text, now)
  <2>1. Idle(date) BY IdleOf
  <2>2. date.text.cues = {} /\ date.text.days = <<>> BY CuesOf, TextOf
  <2>3. Lacks(date.text, {"formMarker"}) /\ Lacks(date.text, {"visitToday"}) BY <2>2 DEF Lacks
  <2> HIDE DEF date
  <2> QED BY <2>1, <2>2, <2>3, DaylessOpen
<1>3. /\ Idle(today) /\ Lacks(today.text, {"formMarker"}) /\ OpenDay(today.text, now)
  <2>1. Idle(today) /\ today.text = TodayReply(now) BY IdleOf, TextOf
  <2>2. Lacks(TodayReply(now), {"formMarker"}) BY RepliesFormless
  <2>3. OpenDay(TodayReply(now), now) BY RepliesOpen
  <2> HIDE DEF today
  <2> QED BY <2>1, <2>2, <2>3
<1> HIDE DEF date, today, d
<1>4. IsVisit(t) \/ IsReservation(t) => AsksVisit(t, h) BY DEF AsksVisit
<1>5. Visiting({d}, t, h, now) BY <1>1, <1>2, <1>3, <1>4, VisitSays DEF Visiting
<1> QED BY <1>5 DEF d

LEMMA DeliveryVisiting ==
  ASSUME NEW t, NEW h, NEW now
  PROVE  Visiting({DeliveryPayment(t, h)}, t, h, now) /\ Visiting({DeliveryOrPickup(t, h)}, t, h, now)
<1> DEFINE D == {"dayAsked", "visitToday", "formMarker"}
<1>1. Idle(DeliveryPayment(t, h)) BY IdleOf DEF DeliveryPayment
<1>2. Idle(DeliveryOrPickup(t, h)) BY IdleOf DEF DeliveryOrPickup
<1>3. DeliveryPayment(t, h).text.cues \cap D = {} /\ DeliveryPayment(t, h).text.days = <<>>
  BY CuesOf, TextOf DEF DeliveryPayment, DeliveryTerms
<1>4. DeliveryOrPickup(t, h).text.cues \cap D = {} /\ DeliveryOrPickup(t, h).text.days = <<>>
  BY CuesOf, TextOf DEF DeliveryOrPickup
<1>5. \A d \in {DeliveryPayment(t, h), DeliveryOrPickup(t, h)} :
         /\ Idle(d) /\ d.text.days = <<>>
         /\ Lacks(d.text, {"dayAsked", "visitToday"}) /\ Lacks(d.text, {"formMarker"})
  BY <1>1, <1>2, <1>3, <1>4 DEF Lacks
<1>6. /\ Free({DeliveryPayment(t, h)}, {"dayAsked", "visitToday"})
      /\ Free({DeliveryPayment(t, h)}, {"formMarker"})
      /\ Free({DeliveryOrPickup(t, h)}, {"dayAsked", "visitToday"})
      /\ Free({DeliveryOrPickup(t, h)}, {"formMarker"})
  BY <1>5, OneFree
<1> QED BY <1>6, FreeVisiting

LEMMA StoreVisiting ==
  ASSUME NEW t, NEW h, NEW now \in Nat, t.days \in Seq(DayWords)
  PROVE  Visiting(Store(t, h, now), t, h, now)
<1> DEFINE terms == When(QuoteAnswered(t, h) \/ PaysOnDelivery(t, h), {DeliveryPayment(t, h)})
           paid == When(Holds(t, {"payAsked"}), Payments)
           sent == When(AsksDelivery(t, h), {DeliveryOrPickup(t, h)})
           accepted == When(ForwardAccepted(t, h), {Forwarded})
           visit == When(AsksVisit(t, h), {VisitDecision(t, h, now)})
           hours == When(HoursAsked(t), {Answer(Hours)})
           budget == When(OverBudget(t, h), {Answer(Budget)})
<1>1. Visiting(terms, t, h, now) /\ Visiting(sent, t, h, now)
  BY DeliveryVisiting DEF Visiting, When
<1>2. Hours \in Plain /\ Budget \in Plain BY DEF Plain
<1>3. Visiting(paid, t, h, now) BY CatalogFree, WhenFree, FreeVisiting
<1>4. Visiting(accepted, t, h, now) BY TransfersFree, WhenFree, FreeVisiting
<1>5. Visiting(hours, t, h, now) /\ Visiting(budget, t, h, now)
  BY <1>2, PlainAnswers, WhenFree, FreeVisiting
<1>6. Visiting(visit, t, h, now) BY VisitSays DEF Visiting, When
<1>7. Store(t, h, now) = terms ?? paid ?? sent ?? accepted ?? visit ?? hours ?? budget
  BY DEF Store
<1> HIDE DEF terms, paid, sent, accepted, visit, hours, budget
<1> QED BY <1>1, <1>3, <1>4, <1>5, <1>6, <1>7, FirstVisiting
-----------------------------------------------------------------------------
(* The language model says its own words, or what the filter puts in their *)
(* place: the form only where words or picture offer a device.             *)
Own(d) == d.text \in ModelTexts

LEMMA ModelDecision ==
  ASSUME NEW d \in ModelDecisions
  PROVE  Own(d) /\ Idle(d)
<1>1. CASE \E x \in ModelTexts : d = Answer(x) BY <1>1, IdleOf, TextOf DEF Own
<1>2. CASE \E x \in ModelTexts :
             d = Transfer(x, IF Holds(x, {"looksTrade"}) THEN "tradeIn" ELSE "model")
  <2>1. PICK x \in ModelTexts :
          d = Transfer(x, IF Holds(x, {"looksTrade"}) THEN "tradeIn" ELSE "model")
    BY <1>2
  <2>2. d.text = x BY <2>1, TextOf
  <2>3. Idle(d) BY <2>1, IdleOf
  <2> QED BY <2>2, <2>3 DEF Own
<1> QED BY <1>1, <1>2 DEF ModelDecisions

LEMMA FilterSays ==
  ASSUME NEW t, NEW both, NEW h, NEW d
  PROVE  LET e == EnsureFormBeforeHandoff(d, t, both, h)
             plain == {Answer(OtherBrand), Details, PriceTalk, Answer(Purchase), ConditionTalk, d}
         IN /\ e \in plain \cup {Answer(Form)}
            /\ PurchaseOnly(both, h) /\ ~InTradeIn(both, h) => e \in plain
BY DEF EnsureFormBeforeHandoff

LEMMA ModelSays ==
  ASSUME NEW t, NEW both, NEW h, NEW d \in ModelAnswers(t, both, h), ~Own(d)
  PROVE  /\ Free({d}, {"dayAsked", "visitToday"})
         /\ PurchaseOnly(both, h) /\ ~InTradeIn(both, h) => Free({d}, {"formMarker"})
<1> DEFINE D == {"dayAsked", "visitToday"}
           F == {"formMarker"}
           plain == {Answer(OtherBrand), Details, PriceTalk, Answer(Purchase), ConditionTalk}
           buys == PurchaseOnly(both, h) /\ ~InTradeIn(both, h)
<1>1. OtherBrand \in Plain /\ Purchase \in Plain /\ Form \in Forms BY DEF Plain, Forms
<1>2. \A e \in plain : Free({e}, D) /\ Free({e}, F)
  BY <1>1, PlainAnswers, CatalogFree, TransfersFree
<1>3. Free({Answer(Form)}, D) BY <1>1, FormAnswers
<1>4. Free({Failed}, D) /\ Free({Failed}, F) BY TransfersFree
<1>5. d = Failed \/ \E e \in ModelDecisions : d = EnsureFormBeforeHandoff(e, t, both, h)
  BY DEF ModelAnswers, ProtectCustomerDecision
<1>6. CASE \E e \in ModelDecisions : d = EnsureFormBeforeHandoff(e, t, both, h)
  <2>1. PICK e \in ModelDecisions : d = EnsureFormBeforeHandoff(e, t, both, h) BY <1>6
  <2>2. d # e BY ModelDecision
  <2>3. d \in plain \cup {Answer(Form)} /\ (buys => d \in plain) BY <2>1, <2>2, FilterSays
  <2> HIDE DEF plain, buys, D, F
  <2>4. Free({d}, D) /\ (buys => Free({d}, F)) BY <1>2, <1>3, <2>3
  <2> QED BY <2>4 DEF D, F, buys
<1> QED BY <1>4, <1>5, <1>6

LEMMA RestSays ==
  ASSUME NEW t, NEW both, NEW h, NEW now \in Nat, NEW d \in Rest(t, both, h, now), ~Own(d)
  PROVE  /\ OpenDay(d.text, now) /\ Idle(d)
         /\ PurchaseOnly(both, h) /\ ~InTradeIn(both, h) => Lacks(d.text, {"formMarker"})
<1> DEFINE model == ModelAnswers(t, both, h)
           where == When(PhysicalStore(t), {Answer(TodayReply(now))})
           warranted == When(Holds(t, {"warrantyAsked"}), {Answer(Warranty)})
           catalog == When(Holds(both, {"catalogAsked"}) \/ PhotoYes(t, h), CatalogAnswers)
           read == When(Interpreted(both, h),
                        {Answer(Clarification)} \cup {e \in model : e # Failed})
           buys == PurchaseOnly(both, h) /\ ~InTradeIn(both, h)
           D == {"dayAsked", "visitToday"}
           F == {"formMarker"}
<1>1. Warranty \in Plain /\ Clarification \in Plain BY DEF Plain
<1>2. Rest(t, both, h, now) = catalog \cup (where ?? warranted ?? model) \cup read BY DEF Rest
<1>3. d \in catalog \/ d = Answer(TodayReply(now)) \/ d = Answer(Warranty) \/ d \in model
      \/ d = Answer(Clarification)
  BY <1>2 DEF ??, When
<1>4. d \in catalog => Free({d}, D) /\ Free({d}, F) BY CatalogFree DEF When, Free
<1>5. /\ Free({Answer(Warranty)}, D) /\ Free({Answer(Warranty)}, F)
      /\ Free({Answer(Clarification)}, D) /\ Free({Answer(Clarification)}, F)
  BY <1>1, PlainAnswers
<1>6. d \in model => Free({d}, D) /\ (buys => Free({d}, F)) BY ModelSays
<1>7. Free({d}, D) => OpenDay(d.text, now) /\ Idle(d) BY FreeOpen
<1>8. Free({d}, F) => Lacks(d.text, F) BY DEF Free
<1> HIDE DEF catalog, model, buys, D
<1>9. d # Answer(TodayReply(now)) => Free({d}, D) /\ (buys => Free({d}, F))
  BY <1>3, <1>4, <1>5, <1>6
<1>10. CASE d = Answer(TodayReply(now))
  <2>1. Idle(d) /\ d.text = TodayReply(now) BY <1>10, IdleOf, TextOf
  <2>2. Lacks(TodayReply(now), F) BY RepliesFormless
  <2>3. OpenDay(TodayReply(now), now) BY RepliesOpen
  <2> QED BY <2>1, <2>2, <2>3
<1> QED BY <1>7, <1>8, <1>9, <1>10 DEF buys

LEMMA RestRegistersNothing ==
  ASSUME NEW t, NEW both, NEW h, NEW now, NEW d \in Rest(t, both, h, now)
  PROVE  Idle(d)
<1> DEFINE model == ModelAnswers(t, both, h)
           where == When(PhysicalStore(t), {Answer(TodayReply(now))})
           warranted == When(Holds(t, {"warrantyAsked"}), {Answer(Warranty)})
           catalog == When(Holds(both, {"catalogAsked"}) \/ PhotoYes(t, h), CatalogAnswers)
           read == When(Interpreted(both, h),
                        {Answer(Clarification)} \cup {e \in model : e # Failed})
<1>1. Rest(t, both, h, now) = catalog \cup (where ?? warranted ?? model) \cup read BY DEF Rest
<1>2. \/ d \in {Answer(TodayReply(now)), Answer(Warranty), Answer(Clarification)}
      \/ d \in catalog \/ d \in model
  BY <1>1 DEF ??, When
<1>3. d \in catalog => Idle(d) BY CatalogFree DEF When, Free
<1>4. d \in {Answer(TodayReply(now)), Answer(Warranty), Answer(Clarification)} => Idle(d)
  BY IdleOf
<1>5. ASSUME d \in model PROVE Idle(d)
  <2>1. Idle(Failed) BY TransfersFree DEF Free
  <2>2. CASE Own(d) /\ d # Failed
    <3>1. PICK e \in ModelDecisions : d = EnsureFormBeforeHandoff(e, t, both, h)
      BY <1>5, <2>2 DEF ModelAnswers, ProtectCustomerDecision
    <3>2. d \in {Answer(OtherBrand), Details, PriceTalk, Answer(Purchase), ConditionTalk, e, Answer(Form)}
      BY <3>1, FilterSays
    <3>3. Idle(e) BY ModelDecision
    <3>4. Idle(Details) /\ Idle(PriceTalk) /\ Idle(ConditionTalk)
      BY CatalogFree, TransfersFree DEF Free
    <3> QED BY <3>2, <3>3, <3>4, IdleOf
  <2>3. ~Own(d) => Idle(d) BY <1>5, ModelSays DEF Free
  <2> QED BY <2>1, <2>2, <2>3
<1> HIDE DEF model, where, warranted, catalog, read
<1> QED BY <1>2, <1>3, <1>4, <1>5

(* Who buys with words alone still buys when a picture offers nothing.     *)
LEMMA BuysWithPicture ==
  ASSUME NEW t, NEW image, NEW h, PurchaseOnly(t, h), ~InTradeIn(Together(t, image), h)
  PROVE  PurchaseOnly(Together(t, image), h)
<1> DEFINE both == Together(t, image)
<1>1. ~IsTradeIn(both)
  <2>1. IsTradeIn(both) => InTradeIn(both, h) BY DEF InTradeIn
  <2> QED BY <2>1
<1>2. \A S : Holds(t, S) => Holds(both, S) BY DEF Holds, Together
<1>3. NeedsSomePhone(t, h) => NeedsSomePhone(both, h)
  <2> HIDE DEF both
  <2> QED BY <1>1, <1>2 DEF NeedsSomePhone
<1> HIDE DEF both
<1>4. PurchaseOnly(both, h) BY <1>1, <1>2, <1>3 DEF PurchaseOnly
<1> QED BY <1>4 DEF both
-----------------------------------------------------------------------------
(* The groups of rules in their order.                                     *)
LEMMA EitherOne ==
  ASSUME NEW a, NEW b, NEW d \in a ?? b
  PROVE  d \in a \/ d \in b
BY DEF ??

LEMMA NeverBeyond ==
  ASSUME NEW a, NEW b, a # {}
  PROVE  a ?? b = a /\ b ?? a # {}
BY DEF ??

LEMMA AnswerFrom ==
  ASSUME NEW m, NEW h, NEW now, NEW d \in Answers(m, h, now)
  PROVE  LET t == m.text
             both == Together(t, m.image)
         IN /\ \/ d \in Evaluation(t, h) \/ d \in Pictured(t, m.image, h)
               \/ d \in WholeDevices(t, both, h)
               \/ /\ WholeDevices(t, both, h) = {}
                  /\ \/ d = CurrentDay(t, h, now) \/ d \in Buyer(t, both, h)
                     \/ d \in Offer(t, both, m.image, h) \/ d \in Store(t, h, now)
                     \/ d \in Rest(t, both, h, now)
<1> DEFINE t == m.text
           both == Together(t, m.image)
           day == When(DateAsked(t) \/ TodayStatus(t), {CurrentDay(t, h, now)})
           E == Evaluation(t, h)
           P == Pictured(t, m.image, h)
           W == WholeDevices(t, both, h)
           B == Buyer(t, both, h)
           O == Offer(t, both, m.image, h)
           S == Store(t, h, now)
           R == Rest(t, both, h, now)
<1>1. Answers(m, h, now) = E ?? P ?? W ?? day ?? B ?? O ?? S ?? R BY DEF Answers
<1>2. day \subseteq {CurrentDay(t, h, now)} BY DEF When
<1> HIDE DEF E, P, W, day, B, O, S, R, t, both
<1>3. CASE W = {}
  <2>1. d \in E \/ d \in P \/ d \in W \/ d \in day \/ d \in B \/ d \in O \/ d \in S \/ d \in R
    BY <1>1, EitherOne
  <2> QED BY <1>2, <1>3, <2>1 DEF E, P, W, B, O, S, R, t, both
<1>4. CASE W # {}
  <2>1. E ?? P ?? W # {} BY <1>4, NeverBeyond
  <2>2. Answers(m, h, now) = E ?? P ?? W BY <1>1, <2>1, NeverBeyond
  <2>3. d \in E \/ d \in P \/ d \in W BY <2>2, EitherOne
  <2> QED BY <2>3 DEF E, P, W, t, both
<1> QED BY <1>3, <1>4

(* The words name the iPhone wanted, whose rules come first.               *)
NamesTarget(t, h) == CatalogTarget(t) \/ Catalog17(t, h) \/ IsDowngrade(t)
OffersOther(t, image, h) ==
  /\ NonAppleRequest(Together(t, image)) /\ ~PartsRequest(Together(t, image))
  /\ ~NamesTarget(t, h)
OnlyBuys(t, image, h) ==
  /\ PurchaseOnly(t, h) /\ ~InTradeIn(t, h) /\ ~InTradeIn(Together(t, image), h)
  /\ ~AnswersDetails(t, image, h) /\ ~NamesTarget(t, h)

LEMMA AnswersSay ==
  ASSUME NEW m, m.text.days \in Seq(DayWords), NEW h, NEW now \in Nat, NEW d \in Answers(m, h, now)
  PROVE  /\ OffersOther(m.text, m.image, h) => Lacks(d.text, {"formMarker"})
         /\ OnlyBuys(m.text, m.image, h) => Lacks(d.text, {"formMarker"}) \/ Own(d)
         /\ OpenDay(d.text, now) \/ Own(d)
         /\ \/ Idle(d)
            \/ d.about = "visit" /\ d = VisitDecision(m.text, h, now) /\ AsksVisit(m.text, h)
<1> DEFINE t == m.text
           both == Together(t, m.image)
           named == NamesTarget(t, h)
           other == OffersOther(t, m.image, h)
           buys == OnlyBuys(t, m.image, h)
           Formless == Lacks(d.text, {"formMarker"})
           Visit == \/ Idle(d)
                    \/ d.about = "visit" /\ d = VisitDecision(t, h, now) /\ AsksVisit(t, h)
           Dayless == OpenDay(d.text, now) /\ Visit
           Says == /\ other => Formless
                   /\ buys => Formless \/ Own(d)
                   /\ OpenDay(d.text, now) \/ Own(d)
                   /\ Visit
<1> SUFFICES Says OBVIOUS
<1>0. /\ other => NonAppleRequest(both) /\ ~PartsRequest(both) /\ ~named
      /\ buys => /\ PurchaseOnly(t, h) /\ ~InTradeIn(t, h) /\ ~InTradeIn(both, h)
                 /\ ~AnswersDetails(t, m.image, h) /\ ~named
      /\ ~named => ~IsDowngrade(t) /\ ~CatalogTarget(t) /\ ~Catalog17(t, h)
  BY DEF OffersOther, OnlyBuys, NamesTarget
<1>1. \A D : d \in D /\ Free(D, {"dayAsked", "visitToday"}) => Dayless
  BY FreeOpen
<1>2. \A D : d \in D /\ Free(D, {"formMarker"}) => Formless BY DEF Free
<1>3. \A D : d \in D /\ Visiting(D, t, h, now) => Formless /\ Dayless BY DEF Visiting
<1>4. OtherBrand \in Plain BY DEF Plain
<1>5. CASE d \in Evaluation(t, h)
  <2>1. Dayless /\ (~named => Formless) BY <1>0, <1>1, <1>2, <1>5, EvaluationFree
  <2> QED BY <1>0, <2>1
<1>6. CASE d \in Pictured(t, m.image, h)
  <2>1. Dayless /\ Formless BY <1>1, <1>2, <1>6, PicturedFree
  <2> QED BY <2>1
<1>7. CASE d \in WholeDevices(t, both, h)
  <2>1. Dayless BY <1>1, <1>7, WholeDevicesFree
  <2>2. other => Formless BY <1>0, <1>2, <1>4, <1>7, WholeDevicesFree, PlainAnswers
  <2>3. buys => Formless BY <1>0, <1>2, <1>7, WholeDevicesFree
  <2> QED BY <2>1, <2>2, <2>3
<1>8. CASE /\ WholeDevices(t, both, h) = {}
           /\ \/ d = CurrentDay(t, h, now) \/ d \in Buyer(t, both, h)
              \/ d \in Offer(t, both, m.image, h) \/ d \in Store(t, h, now)
              \/ d \in Rest(t, both, h, now)
  <2>1. ~other BY <1>0, <1>8, WholeDevicesFree
  <2>2. CASE d = CurrentDay(t, h, now)
    <3>1. Formless /\ Dayless BY <1>3, <2>2, CurrentDayVisiting
    <3> QED BY <3>1
  <2>3. CASE d \in Buyer(t, both, h)
    <3>1. Formless /\ Dayless BY <1>1, <1>2, <2>3, BuyerFree
    <3> QED BY <3>1
  <2>4. CASE d \in Offer(t, both, m.image, h)
    <3>1. Dayless /\ (buys => Formless) BY <1>0, <1>1, <1>2, <2>4, OfferFree
    <3> QED BY <2>1, <3>1
  <2>5. CASE d \in Store(t, h, now)
    <3>1. Formless /\ Dayless BY <1>3, <2>5, StoreVisiting
    <3> QED BY <3>1
  <2>6. CASE d \in Rest(t, both, h, now)
    <3>1. Visit BY <2>6, RestRegistersNothing
    <3>2. ~Own(d) => OpenDay(d.text, now) BY <2>6, RestSays
    <3>3. ~Own(d) /\ buys => Formless BY <1>0, <2>6, RestSays, BuysWithPicture
    <3> QED BY <2>1, <3>1, <3>2, <3>3
  <2> QED BY <1>8, <2>2, <2>3, <2>4, <2>5, <2>6
<1>9. Says BY <1>5, <1>6, <1>7, <1>8, AnswerFrom
<1> QED BY <1>9
-----------------------------------------------------------------------------
(* The clock counts from its start, and the rows are a sequence, cut at    *)
(* the front, of texts with the day words they name; what the store said   *)
(* of a visit today names today.                                           *)
ClockInv == clock \in Nat
NamesToday(t) == Holds(t, {"visitToday"}) => "hoje" \in ToSet(t.days)
Known(r) == r.text.days \in Seq(DayWords) /\ (r.from = "store" => NamesToday(r.text))
IsRows(s) == \E S : s \in Seq(S) /\ \A r \in S : Known(r)
RowsInv == IsRows(rows)

LEMMA ClockInvariant == Spec => []ClockInv
<1>1. Init => ClockInv
  <2>1. Instants \subseteq Nat /\ Instants # {} BY DialogueAssumption
  <2>2. \E i \in Instants : \A j \in Instants : i <= j BY <2>1, SmallestOf
  <2>3. (CHOOSE i \in Instants : \A j \in Instants : i <= j) \in Instants BY <2>2
  <2> QED BY <2>1, <2>3 DEF Init, ClockInv
<1>2. ClockInv /\ [Next]_vars => ClockInv'
  <2> SUFFICES ASSUME ClockInv, Next PROVE ClockInv' BY DEF vars, ClockInv
  <2>1. CASE UNCHANGED clock BY <2>1 DEF ClockInv
  <2>2. CASE \E now \in Instants : TimePasses(now)
    BY <2>2, DialogueAssumption DEF TimePasses, ClockInv
  <2> QED BY <2>1, <2>2 DEF Next, Turn, CustomerWrites, AttendantWrites, Release
<1> QED BY <1>1, <1>2, PTL DEF Spec

LEMMA VisibleRows ==
  ASSUME NEW s, NEW now, IsRows(s)
  PROVE  IsRows(Visible(s, now))
<1>1. PICK S : s \in Seq(S) /\ \A r \in S : Known(r) BY DEF IsRows
<1> DEFINE kept == {i \in DOMAIN s : i > Len(s) - HistoryLimit /\ now - s[i].at <= Window}
           k == CHOOSE i \in kept : \A j \in kept : i <= j
<1>2. Visible(s, now) = IF kept = {} THEN <<>> ELSE SubSeq(s, k, Len(s)) BY DEF Visible
<1>3. CASE kept = {}
  <2>1. Visible(s, now) \in Seq(S) BY <1>2, <1>3
  <2> QED BY <1>1, <2>1 DEF IsRows
<1>4. CASE kept # {}
  <2>1. kept \subseteq 1..Len(s) /\ Len(s) \in Nat BY <1>1
  <2>2. kept \subseteq Nat BY <2>1
  <2>3. k \in kept BY <1>4, <2>2, SmallestOf
  <2> HIDE DEF k
  <2>4. k \in 1..Len(s) BY <2>1, <2>3
  <2> HIDE DEF kept
  <2>5. SubSeq(s, k, Len(s)) \in Seq(S) BY <1>1, <2>1, <2>4, SubSeqProperties
  <2> QED BY <1>1, <1>2, <1>4, <2>5 DEF IsRows
<1> QED BY <1>3, <1>4

LEMMA LongerRows ==
  ASSUME NEW s, IsRows(s), NEW a, NEW b, Known(a), Known(b)
  PROVE  IsRows(Append(s, a)) /\ IsRows(s \o <<a, b>>)
<1>1. PICK S : s \in Seq(S) /\ \A r \in S : Known(r) BY DEF IsRows
<1> DEFINE T == S \cup {a, b}
<1>0. \A r \in T : Known(r) BY <1>1
<1>2. s \in Seq(T)
  <2>1. \A i \in 1..Len(s) : s[i] \in T BY <1>1
  <2> QED BY <1>1, <2>1
<1>3. <<a, b>> \in Seq(T) OBVIOUS
<1>4. Append(s, a) \in Seq(T) /\ s \o <<a, b>> \in Seq(T) BY <1>2, <1>3
<1> HIDE DEF T
<1> QED BY <1>0, <1>4 DEF IsRows

LEMMA RowKnown ==
  ASSUME NEW t, t.days \in Seq(DayWords)
  PROVE  Known(Row("customer", t)) /\ (NamesToday(t) => Known(Row("store", t)))
BY DEF Known, Row

LEMMA MessageKnown ==
  ASSUME NEW m \in Messages
  PROVE  Said(m).days = m.text.days /\ m.text.days \in Seq(DayWords)
<1>1. m.text \in Texts BY DialogueAssumption
<1>2. [m.text EXCEPT !.cues = @ \cup m.image.cues \cup IF @ = {} THEN {"photoOnly"} ELSE {},
                     !.models = @ \cup m.image.models].days = m.text.days
  BY <1>1 DEF Texts
<1> QED BY <1>1, <1>2 DEF Said, Texts

LEMMA WrittenKnown ==
  /\ \A t \in HeldMessages : t.days \in Seq(DayWords)
  /\ \A t \in Attendants \cup ModelTexts : t.days \in Seq(DayWords) /\ NamesToday(t)
BY DialogueAssumption DEF Texts, NamesToday

LEMMA AnswerKnown ==
  ASSUME ClockInv, NEW m \in Messages, NEW h, NEW d \in Answers(m, h, clock)
  PROVE  d.text.days \in Seq(DayWords) /\ NamesToday(d.text)
<1>1. OpenDay(d.text, clock) \/ Own(d) BY MessageKnown, AnswersSay DEF ClockInv
<1> QED BY <1>1, WrittenKnown DEF OpenDay, Own, NamesToday

LEMMA RowsInvariant == Spec => []RowsInv
<1>1. Init => RowsInv
  <2>1. <<>> \in Seq({}) OBVIOUS
  <2> QED BY <2>1 DEF Init, RowsInv, IsRows
<1>2. ClockInv /\ RowsInv /\ [Next]_vars => RowsInv'
  <2> SUFFICES ASSUME ClockInv, RowsInv, Next PROVE IsRows(rows') BY DEF vars, RowsInv
  <2>1. IsRows(rows) BY DEF RowsInv
  <2>2. ASSUME NEW m \in Messages, Turn(m) PROVE IsRows(rows')
    <3>1. PICK d \in Answers(m, rows, clock) :
            rows' = Visible(rows \o <<Row("customer", Said(m)), Row("store", d.text)>>, clock)
      BY <2>2 DEF Turn
    <3>2. Known(Row("customer", Said(m))) BY MessageKnown, RowKnown
    <3>3. Known(Row("store", d.text)) BY AnswerKnown, RowKnown
    <3> QED BY <2>1, <3>1, <3>2, <3>3, LongerRows, VisibleRows
  <2>3. ASSUME NEW t \in HeldMessages, CustomerWrites(t) PROVE IsRows(rows')
    <3>1. Known(Row("customer", t)) BY WrittenKnown, RowKnown
    <3> QED BY <2>1, <2>3, <3>1, LongerRows, VisibleRows DEF CustomerWrites
  <2>4. ASSUME NEW t \in Attendants, AttendantWrites(t) PROVE IsRows(rows')
    <3>1. Known(Row("store", t)) BY WrittenKnown, RowKnown
    <3> QED BY <2>1, <2>4, <3>1, LongerRows, VisibleRows DEF AttendantWrites
  <2>5. CASE Release BY <2>1, <2>5 DEF Release
  <2>6. CASE \E now \in Instants : TimePasses(now) BY <2>1, <2>6, VisibleRows DEF TimePasses
  <2> QED BY <2>2, <2>3, <2>4, <2>5, <2>6 DEF Next
<1> QED BY <1>1, <1>2, ClockInvariant, PTL DEF Spec

(* A reservation asked for last, and the question for a day since.         *)
AskedForReservation(h) ==
  LET asked == {i \in DOMAIN h : h[i].from = "customer" /\ IsReservation(h[i].text)}
      told == {i \in DOMAIN h : Holds(h[i].text, {"noReserve"})}
  IN \E i \in asked : /\ i < Len(h) /\ Holds(h[Len(h)].text, {"dayAsked"})
                      /\ \A j \in DOMAIN h : j > i => j \notin told /\ h[j].from = "store"

LEMMA LastOfSuffix ==
  ASSUME NEW S, NEW h \in Seq(S), NEW i \in 1..Len(h), i < Len(h)
  PROVE  /\ SubSeq(h, i + 1, Len(h)) # <<>>
         /\ SubSeq(h, i + 1, Len(h))[Len(SubSeq(h, i + 1, Len(h)))] = h[Len(h)]
<1> DEFINE n == Len(h)
           a == SubSeq(h, i + 1, Len(h))
<1>1. n \in Nat /\ \A j \in 1..n : h[j] \in S OBVIOUS
<1> HIDE DEF n
<1>2. i + 1 \in Int /\ n \in Int /\ i + 1 <= n /\ \A j \in (i + 1)..n : h[j] \in S
  BY <1>1 DEF n
<1>3. a = SubSeq(h, i + 1, n) BY DEF n
<1>4. Len(a) = n - (i + 1) + 1 /\ \A j \in 1..(n - (i + 1) + 1) : a[j] = h[(i + 1) + j - 1]
  BY <1>2, <1>3, SubSeqProperties
<1> HIDE DEF a
<1>5. /\ n - (i + 1) + 1 = n - i /\ n - i \in 1..(n - (i + 1) + 1) /\ (i + 1) + (n - i) - 1 = n
  BY <1>1, <1>2
<1>6. Len(a) = n - i /\ a[n - i] = h[n] BY <1>4, <1>5
<1>7. n - i # 0 BY <1>5
<1>8. a # <<>> BY <1>6, <1>7
<1> QED BY <1>6, <1>8 DEF n, a

LEMMA StillPending ==
  ASSUME NEW h, IsRows(h), AskedForReservation(h)
  PROVE  ReservationPending(h)
<1>1. PICK S : h \in Seq(S) BY DEF IsRows
<1>2. Len(h) \in Nat /\ DOMAIN h = 1..Len(h) BY <1>1
<1> DEFINE said == {j \in DOMAIN h : h[j].from = "customer"}
           at == CHOOSE j \in said : \A l \in said : l <= j
           after == SubSeq(h, at + 1, Len(h))
<1>3. PICK i \in DOMAIN h :
        /\ h[i].from = "customer" /\ IsReservation(h[i].text)
        /\ i < Len(h) /\ Holds(h[Len(h)].text, {"dayAsked"})
        /\ \A j \in DOMAIN h : j > i => ~Holds(h[j].text, {"noReserve"}) /\ h[j].from = "store"
  BY DEF AskedForReservation
<1>4. i \in said /\ \A j \in said : j <= i BY <1>2, <1>3
<1>5. at = i
  <2>1. at \in said /\ \A j \in said : j <= at BY <1>4
  <2> HIDE DEF at
  <2> QED BY <1>2, <1>4, <2>1
<1>6. after # <<>> /\ Latest(after) = h[Len(h)].text
  <2>1. after = SubSeq(h, i + 1, Len(h)) BY <1>5
  <2>2. i \in 1..Len(h) BY <1>2
  <2> HIDE DEF after
  <2>3. after # <<>> /\ after[Len(after)] = h[Len(h)] BY <1>1, <1>3, <2>1, <2>2, LastOfSuffix
  <2> QED BY <2>3 DEF Latest
<1>7. /\ ~Holds(h[Len(h)].text, {"noReserve"}) /\ Holds(h[Len(h)].text, {"dayAsked"})
  BY <1>2, <1>3
<1> HIDE DEF after
<1>8. Lacks(Latest(after), {"noReserve"}) /\ Has(Latest(after), {"dayAsked", "visitToday"})
  BY <1>6, <1>7 DEF Lacks, Holds, Has
<1>9. said # {} /\ IsReservation(h[at].text) BY <1>3, <1>4, <1>5
<1> QED BY <1>6, <1>8, <1>9 DEF ReservationPending, after
-----------------------------------------------------------------------------
(* A step is a turn with one of its answers, or says nothing.              *)
LEMMA StepAnswers ==
  ASSUME Next
  PROVE  \/ answer' = NoAnswer
         \/ \E m \in Messages : \E d \in Answers(m, rows, clock) :
              answer' = [text |-> m.text, image |-> m.image, decision |-> d]
BY DEF Next, Turn, CustomerWrites, AttendantWrites, Release, TimePasses

LEMMA SilenceSays ==
  ASSUME answer' = NoAnswer
  PROVE  Reply.cues = {} /\ answer'.decision.about # "visit"
<1>1. NoAnswer.decision.about # "visit" BY AboutOf DEF NoAnswer
<1>2. NoAnswer.decision.text = NoText BY TextOf DEF NoAnswer
<1>3. NoText.cues = {} BY DEF NoText
<1> QED BY <1>1, <1>2, <1>3 DEF Reply

LEMMA StepSays ==
  ASSUME ClockInv, Next
  PROVE  LET t == answer'.text
             image == answer'.image
         IN /\ OffersOther(t, image, rows) => Lacks(Reply, {"formMarker"})
            /\ OnlyBuys(t, image, rows) => Lacks(Reply, {"formMarker"}) \/ Reply \in ModelTexts
            /\ \/ Reply.cues = {} \/ OpenDay(Reply, clock) \/ Reply \in ModelTexts
            /\ answer'.decision.about = "visit" =>
                 /\ AsksVisit(t, rows)
                 /\ IsReservation(t) \/ (AnswersVisit(t, rows) /\ ReservationPending(rows))
                      => Holds(Reply, {"noReserve"})
<1>1. CASE answer' = NoAnswer BY <1>1, SilenceSays DEF Lacks
<1>2. ASSUME NEW m \in Messages, NEW d \in Answers(m, rows, clock),
             answer' = [text |-> m.text, image |-> m.image, decision |-> d]
      PROVE  /\ OffersOther(m.text, m.image, rows) => Lacks(d.text, {"formMarker"})
             /\ OnlyBuys(m.text, m.image, rows) => Lacks(d.text, {"formMarker"}) \/ d.text \in ModelTexts
             /\ OpenDay(d.text, clock) \/ d.text \in ModelTexts
             /\ d.about = "visit" =>
                  /\ AsksVisit(m.text, rows)
                  /\ IsReservation(m.text) \/ (AnswersVisit(m.text, rows) /\ ReservationPending(rows))
                       => Holds(d.text, {"noReserve"})
  <2>1. clock \in Nat /\ m.text.days \in Seq(DayWords) BY MessageKnown DEF ClockInv
  <2>2. d.about = "visit" => d = VisitDecision(m.text, rows, clock) /\ AsksVisit(m.text, rows)
    BY <2>1, AnswersSay DEF Idle
  <2>3. /\ OffersOther(m.text, m.image, rows) => Lacks(d.text, {"formMarker"})
        /\ OnlyBuys(m.text, m.image, rows) => Lacks(d.text, {"formMarker"}) \/ d.text \in ModelTexts
        /\ OpenDay(d.text, clock) \/ d.text \in ModelTexts
    BY <2>1, AnswersSay DEF Own
  <2>4. d.about = "visit" /\ d = VisitDecision(m.text, rows, clock) =>
          (IsReservation(m.text) \/ (AnswersVisit(m.text, rows) /\ ReservationPending(rows))
             => Holds(d.text, {"noReserve"}))
    BY <2>1, VisitSays
  <2> QED BY <2>2, <2>3, <2>4
<1> QED BY <1>1, <1>2, StepAnswers DEF Reply

(* NoFormForAnotherBrand: whoever offers a device of another brand, in     *)
(* words or in a picture, is sent no form by any rule, by the catalog or   *)
(* by the language model (respond and is_non_apple_trade_in_request).      *)
THEOREM OtherBrandsGetNoForm == Spec => NoFormForAnotherBrand
<1> DEFINE A == LET t == answer'.text
                    both == Together(t, answer'.image)
                IN /\ NonAppleRequest(both) /\ ~PartsRequest(both)
                   /\ ~CatalogTarget(t) /\ ~Catalog17(t, rows) /\ ~IsDowngrade(t)
                   => Lacks(Reply, {"formMarker"})
<1>1. ASSUME ClockInv, Next PROVE A
  BY <1>1, StepSays DEF OffersOther, NamesTarget
<1>2. ClockInv /\ [Next]_vars => [A]_vars BY <1>1
<1> QED BY <1>2, ClockInvariant, PTL DEF Spec, NoFormForAnotherBrand

(* BuyerKeepsBuying: who says they only buy gets no form from any rule,    *)
(* with any history and any picture                                        *)
(* (is_purchase_without_trade_in_request).                                 *)
THEOREM BuyersGetNoForm == Spec => BuyerKeepsBuying
<1> DEFINE A == LET t == answer'.text
                    both == Together(t, answer'.image)
                IN /\ PurchaseOnly(t, rows) /\ ~InTradeIn(t, rows) /\ ~InTradeIn(both, rows)
                   /\ ~AnswersDetails(t, answer'.image, rows)
                   /\ ~CatalogTarget(t) /\ ~Catalog17(t, rows) /\ ~IsDowngrade(t)
                   => Lacks(Reply, {"formMarker"}) \/ Reply \in ModelTexts
<1>1. ASSUME ClockInv, Next PROVE A
  BY <1>1, StepSays DEF OnlyBuys, NamesTarget
<1>2. ClockInv /\ [Next]_vars => [A]_vars BY <1>1
<1> QED BY <1>2, ClockInvariant, PTL DEF Spec, BuyerKeepsBuying

(* OfferedDayIsOpen: at every hour of every week, the day a rule offers is *)
(* one on which the store is open, also once the day of the conversation   *)
(* is over (_today_store_reply, _tomorrow_store_reply, _visit_day_reply).  *)
THEOREM OfferedDaysAreOpen == Spec => OfferedDayIsOpen
<1> DEFINE A == Reply.cues # {} /\ Reply \notin ModelTexts /\ Holds(Reply, {"dayAsked"})
                  /\ HasDate(Reply) => IsBusinessDay(VisitDay(Reply.days, clock))
<1>1. ASSUME ClockInv, Next PROVE A
  BY <1>1, StepSays DEF OpenDay
<1>2. ClockInv /\ [Next]_vars => [A]_vars BY <1>1
<1> QED BY <1>2, ClockInvariant, PTL DEF Spec, OfferedDayIsOpen

(* VisitNeverReserves: a visit registered for who asked for a reservation, *)
(* with this message or with the one before the store asked for a day,     *)
(* comes with the notice that the store keeps no device                    *)
(* (_has_unanswered_reservation_request).                                  *)
THEOREM ReservationsAreRefused == Spec => VisitNeverReserves
<1> DEFINE A == LET asked == {i \in DOMAIN rows : rows[i].from = "customer" /\ IsReservation(rows[i].text)}
                    told == {i \in DOMAIN rows : Holds(rows[i].text, {"noReserve"})}
                    open == \E i \in asked :
                              /\ i < Len(rows) /\ Holds(rows[Len(rows)].text, {"dayAsked"})
                              /\ \A j \in DOMAIN rows : j > i => j \notin told /\ rows[j].from = "store"
                IN /\ answer'.decision.about = "visit"
                   /\ IsReservation(answer'.text) \/ (open /\ ~IsVisit(answer'.text))
                   => Holds(Reply, {"noReserve"})
<1>1. ASSUME ClockInv, RowsInv, Next
      PROVE  /\ answer'.decision.about = "visit"
             /\ IsReservation(answer'.text) \/ (AskedForReservation(rows) /\ ~IsVisit(answer'.text))
             => Holds(Reply, {"noReserve"})
  <2>1. AskedForReservation(rows) => ReservationPending(rows) BY <1>1, StillPending DEF RowsInv
  <2> QED BY <1>1, <2>1, StepSays DEF AsksVisit
<1>2. ASSUME ClockInv, RowsInv, Next PROVE A BY <1>1, <1>2 DEF AskedForReservation
<1>3. ClockInv /\ RowsInv /\ [Next]_vars => [A]_vars BY <1>2
<1> QED BY <1>3, ClockInvariant, RowsInvariant, PTL DEF Spec, VisitNeverReserves
-----------------------------------------------------------------------------
(* The words for a day that a history names, and those a visit is read     *)
(* from: the store's offer, the customer's texts and the message.          *)
WordsOf(h) == UNION {ToSet(e.text.days) : e \in ToSet(h)}
WordsFor(t, h) == (WordsOf(h) \cup ToSet(t.days)) \cap DayWords

LEMMA LargestOf ==
  ASSUME NEW n \in Nat, NEW S, S \subseteq 1..n, S # {}
  PROVE  \E i \in S : \A j \in S : j <= i
<1> DEFINE T == {n - j : j \in S}
<1>0. \A j \in 1..n : n - j \in Nat OBVIOUS
<1>1. T \subseteq Nat /\ T # {} BY <1>0
<1>2. PICK k \in T : \A l \in T : k <= l BY <1>1, SmallestOf
<1>3. PICK i \in S : k = n - i BY <1>2
<1>4. \A j \in S : n - i <= n - j BY <1>2, <1>3
<1> QED BY <1>4

LEMMA WordsOfRow ==
  ASSUME NEW h, IsRows(h), NEW t, NEW i \in DOMAIN h
  PROVE  h[i].text.days \in Seq(WordsFor(t, h)) /\ Known(h[i])
<1>1. PICK S : h \in Seq(S) /\ \A r \in S : Known(r) BY DEF IsRows
<1>2. h[i] \in S /\ h[i] \in ToSet(h) BY <1>1 DEF ToSet
<1>3. h[i].text.days \in Seq(DayWords) BY <1>1, <1>2 DEF Known
<1>4. ToSet(h[i].text.days) \subseteq WordsFor(t, h)
  <2>1. ToSet(h[i].text.days) \subseteq DayWords BY <1>3 DEF ToSet
  <2>2. ToSet(h[i].text.days) \subseteq WordsOf(h) BY <1>2 DEF WordsOf
  <2> QED BY <2>1, <2>2 DEF WordsFor
<1>5. \A s \in Seq(DayWords) : \A W : ToSet(s) \subseteq W => s \in Seq(W) BY DEF ToSet
<1> QED BY <1>1, <1>2, <1>3, <1>4, <1>5

LEMMA WordsOfMessage ==
  ASSUME NEW h, NEW t, t.days \in Seq(DayWords)
  PROVE  t.days \in Seq(WordsFor(t, h))
<1>1. ToSet(t.days) \subseteq WordsFor(t, h) BY DEF WordsFor, ToSet
<1> QED BY <1>1 DEF ToSet

LEMMA ContextWords ==
  ASSUME NEW h, IsRows(h), NEW t, t.days \in Seq(DayWords)
  PROVE  VisitContext(t, h).days \in Seq(WordsFor(t, h))
<1> DEFINE W == WordsFor(t, h)
           told == {i \in DOMAIN h : h[i].from = "store"}
           at == CHOOSE i \in told : \A j \in told : j <= i
<1>1. PICK S : h \in Seq(S) BY DEF IsRows
<1>2. \A i \in DOMAIN h : h[i].text.days \in Seq(W) BY WordsOfRow
<1>3. <<>> \in Seq(W) OBVIOUS
<1> HIDE DEF W
<1>4. LatestOffer(h) \in Seq(W)
  <2>1. told \subseteq 1..Len(h) /\ Len(h) \in Nat BY <1>1
  <2>2. told # {} => at \in DOMAIN h
    <3> HIDE DEF told
    <3>1. told # {} => at \in told BY <2>1, LargestOf
    <3> QED BY <3>1 DEF told
  <2>3. LatestOffer(h) = IF told # {} /\ Holds(h[at].text, {"dayAsked"}) THEN h[at].text.days ELSE <<>>
    BY DEF LatestOffer
  <2> HIDE DEF told, at
  <2> QED BY <1>2, <1>3, <2>2, <2>3
<1>5. \A k : DaysFromLast(h, k) \in Seq(W)
  <2> SUFFICES ASSUME NEW k PROVE DaysFromLast(h, k) \in Seq(W) OBVIOUS
  <2>1. FromLast(h, k) \subseteq DOMAIN h BY DEF FromLast, Plans
  <2>2. FromLast(h, k) # {} => (CHOOSE i \in FromLast(h, k) : TRUE) \in DOMAIN h BY <2>1
  <2> QED BY <1>2, <1>3, <2>2 DEF DaysFromLast
<1>6. t.days \in Seq(W) BY WordsOfMessage DEF W
<1>7. VisitContext(t, h).days = LatestOffer(h) \o DaysFromLast(h, 3) \o DaysFromLast(h, 2)
                                  \o DaysFromLast(h, 1) \o DaysFromLast(h, 0) \o t.days
  BY DEF VisitContext
<1>8. \A a, b \in Seq(W) : a \o b \in Seq(W) OBVIOUS
<1>9. VisitContext(t, h).days \in Seq(W) BY <1>4, <1>5, <1>6, <1>7, <1>8
<1> QED BY <1>9 DEF W

(* The day that words name: one of them names it, or one with "próxima     *)
(* semana", and it is over only where a date with its year names it.       *)
Names(words, day, now) ==
  /\ \E w \in words : \/ VisitDay(<<w>>, now) = day
                      \/ \E next \in words \cap NextWeek : VisitDay(<<w, next>>, now) = day
  /\ day >= Day(now) \/ \E date \in words \cap FullDates : DateDays[date] = {day}

LEMMA VisitWord ==
  ASSUME NEW W, W \subseteq DayWords, NEW days \in Seq(W), NEW now \in Nat,
         VisitDay(days, now) # NoDay
  PROVE  Names(W, VisitDay(days, now), now)
<1> DEFINE said == ToSet(days)
           D == Day(now)
           day == VisitDay(days, now)
           date == FirstOf(days, DOMAIN DateDays)
           weekday == FirstOf(days, ToSet(Weekdays))
<1>1. D \in Int BY DEF Day
<1>2. day = IF "hoje" \in said THEN D
            ELSE IF "amanha" \in said THEN D + 1
            ELSE IF said \cap DOMAIN DateDays # {} THEN DateDay(date, now)
            ELSE IF said \cap ToSet(Weekdays) = {} THEN NoDay
            ELSE WeekdayDay(weekday, said, now)
  BY DEF VisitDay
<1>3. said \subseteq W BY DEF ToSet
<1>4. said \cap DOMAIN DateDays # {} => date \in said \cap DOMAIN DateDays BY FirstOfSaid
<1>5. said \cap ToSet(Weekdays) # {} => weekday \in said \cap ToSet(Weekdays) BY FirstOfSaid
<1> HIDE DEF said, day, date, weekday
<1>6. CASE "hoje" \in said
  <2>1. "hoje" \in W /\ day = D /\ VisitDay(<<"hoje">>, now) = D BY <1>2, <1>3, <1>6, WordDay
  <2> HIDE DEF D
  <2>2. day >= D BY <1>1, <2>1
  <2> QED BY <2>1, <2>2 DEF Names, D, day
<1>7. CASE "hoje" \notin said /\ "amanha" \in said
  <2>1. "amanha" \in W /\ day = D + 1 /\ VisitDay(<<"amanha">>, now) = D + 1
    BY <1>2, <1>3, <1>7, WordDay
  <2> HIDE DEF D
  <2>2. day >= D BY <1>1, <2>1
  <2> QED BY <2>1, <2>2 DEF Names, D, day
<1>8. CASE "hoje" \notin said /\ "amanha" \notin said /\ said \cap DOMAIN DateDays # {}
  <2>1. date \in W /\ date \in DOMAIN DateDays /\ day = DateDay(date, now)
    BY <1>2, <1>3, <1>4, <1>8
  <2>2. VisitDay(<<date>>, now) = day BY <2>1, WordDay
  <2>3. day \in DateDays[date] /\ (day >= D \/ date \in FullDates)
    BY <2>1, DateDayIs DEF day
  <2>4. date \in FullDates => DateDays[date] = {day} BY <2>3, DateAssumption
  <2> HIDE DEF D
  <2> QED BY <2>1, <2>2, <2>3, <2>4 DEF Names, D, day
<1>9. CASE "hoje" \notin said /\ "amanha" \notin said /\ said \cap DOMAIN DateDays = {}
  <2>1. said \cap ToSet(Weekdays) # {} BY <1>2, <1>9 DEF day
  <2>2. day = WeekdayDay(weekday, said, now) BY <1>2, <1>9, <2>1
  <2>3. weekday \in W /\ weekday \in ToSet(Weekdays) BY <1>3, <1>5, <2>1
  <2>4. PICK k \in 1..7 : weekday = Weekdays[k] BY <2>3, WeekdaysDiffer DEF ToSet
  <2>5. day >= D BY <2>2, <2>4, WeekdayDayIs
  <2>6. CASE said \cap NextWeek = {}
    <3>1. {weekday} \cap NextWeek = {} BY <2>4, WeekdaysDiffer
    <3>2. WeekdayDay(weekday, said, now) = WeekdayDay(weekday, {weekday}, now)
      BY <2>6, <3>1 DEF WeekdayDay
    <3>3. VisitDay(<<weekday>>, now) = day BY <2>2, <2>3, <3>2, WordDay
    <3> QED BY <2>3, <2>5, <3>3 DEF Names, day
  <2>7. CASE said \cap NextWeek # {}
    <3>1. PICK next \in said \cap NextWeek : TRUE BY <2>7
    <3>2. {weekday, next} \cap NextWeek # {} BY <3>1
    <3>3. WeekdayDay(weekday, said, now) = WeekdayDay(weekday, {weekday, next}, now)
      BY <2>7, <3>2 DEF WeekdayDay
    <3>4. VisitDay(<<weekday, next>>, now) = day BY <2>2, <2>3, <3>1, <3>3, WordDay
    <3>5. next \in W \cap NextWeek BY <1>3, <3>1
    <3> QED BY <2>3, <2>5, <3>4, <3>5 DEF Names, day
  <2> QED BY <2>6, <2>7
<1> QED BY <1>6, <1>7, <1>8, <1>9 DEF day

(* The day and the hour of a visit that a decision registers.              *)
AsAsked(visit, hour, words, now) ==
  IsBusinessDay(visit.day) /\ visit.hour = hour /\ Names(words, visit.day, now)

LEMMA VisitIsAsked ==
  ASSUME NEW h, IsRows(h), NEW t, t.days \in Seq(DayWords), NEW now \in Nat,
         VisitDecision(t, h, now).visit # NoVisit
  PROVE  AsAsked(VisitDecision(t, h, now).visit, t.hour, WordsOf(h) \cup ToSet(t.days), now)
<1> DEFINE d == VisitDecision(t, h, now)
           W == WordsFor(t, h)
           answers == AnswersVisit(t, h)
           pending == answers /\ ReservationPending(h)
           reserves == IsReservation(t) \/ pending
           context == VisitContext(t, h)
           days == IF answers /\ context.timed /\ ~NamesDate(context.days) /\ OfferedToday(h)
                   THEN <<"hoje">> ELSE context.days
           asked == VisitDay(t.days, now)
           day == IF asked # NoDay THEN asked ELSE VisitDay(days, now)
           first == Answer(ReservationReply(asked, now))
           closed == Answer(IF reserves THEN ReservationReply(day, now) ELSE DayReply(day))
           registered == Registered(day, t.hour, reserves)
           offer == IF "amanha" \in ToSet(t.days) THEN Answer(TomorrowReply(now))
                    ELSE IF asked # NoDay THEN Answer(DayReply(asked))
                    ELSE Answer(TodayReply(now))
<1>1. d = IF IsReservation(t) /\ ~IsVisit(t) /\ ~pending THEN first
          ELSE IF day # NoDay /\ ~IsBusinessDay(day) THEN closed
          ELSE IF NamesDate(days) /\ context.timed THEN registered
          ELSE IF reserves THEN first ELSE offer
  BY DEF VisitDecision
<1>2. days \in Seq(W)
  <2>1. ASSUME OfferedToday(h) PROVE "hoje" \in W
    <3>1. PICK i \in DOMAIN h : h[i].from = "store" /\ Holds(h[i].text, {"visitToday"})
      BY <2>1 DEF OfferedToday
    <3>2. h[i].text.days \in Seq(W) /\ Known(h[i]) BY WordsOfRow
    <3>3. "hoje" \in ToSet(h[i].text.days) BY <3>1, <3>2 DEF Known, NamesToday
    <3> HIDE DEF W
    <3> QED BY <3>2, <3>3 DEF ToSet
  <2>2. context.days \in Seq(W) BY ContextWords
  <2> HIDE DEF W, context, answers
  <2>3. OfferedToday(h) => <<"hoje">> \in Seq(W) BY <2>1
  <2> QED BY <2>2, <2>3
<1>3. t.days \in Seq(W) BY WordsOfMessage
<1>4. W \subseteq DayWords /\ W \subseteq WordsOf(h) \cup ToSet(t.days) BY DEF WordsFor
<1>5. first.visit = NoVisit /\ closed.visit = NoVisit /\ offer.visit = NoVisit
  <2>1. \A x : Answer(x).visit = NoVisit BY IdleOf DEF Idle
  <2> QED BY <2>1
<1>6. registered.visit = IF day # NoDay /\ t.hour # 0 THEN [day |-> day, hour |-> t.hour] ELSE NoVisit
  BY DEF Registered, Transfer
<1> HIDE DEF W, pending, reserves, context, days, asked, first, closed, registered, offer
<1>7. /\ d.visit = [day |-> day, hour |-> t.hour]
      /\ day # NoDay /\ IsBusinessDay(day)
  BY <1>1, <1>5, <1>6
<1>8. d.visit.day = day /\ d.visit.hour = t.hour BY <1>7
<1>9. Names(W, day, now) BY <1>2, <1>3, <1>4, <1>7, VisitWord DEF asked
<1> HIDE DEF day
<1>10. Names(WordsOf(h) \cup ToSet(t.days), day, now) BY <1>4, <1>9 DEF Names
<1> QED BY <1>7, <1>8, <1>10 DEF d, AsAsked

(* VisitAsAsked: a visit that any turn registers is on an open day, at the *)
(* message's hour, named by a word of the rows or of the message, alone or *)
(* with "próxima semana", and over only where that very date was written   *)
(* with its year (VisitContext reads the words of several texts as one).   *)
THEOREM VisitsAsAsked == Spec => VisitAsAsked
<1> DEFINE A == LET visit == answer'.decision.visit
                    named == (UNION {ToSet(e.text.days) : e \in ToSet(rows)}) \cup
                               (IF answer' = NoAnswer THEN {} ELSE ToSet(answer'.text.days))
                IN visit # NoVisit =>
                     /\ IsBusinessDay(visit.day) /\ visit.hour = answer'.text.hour
                     /\ \/ visit.day >= Day(clock)
                        \/ \E date \in named \cap FullDates : DateDays[date] = {visit.day}
                     /\ \E word \in named :
                          \/ VisitDay(<<word>>, clock) = visit.day
                          \/ \E next \in named \cap NextWeek :
                               VisitDay(<<word, next>>, clock) = visit.day
<1>1. NoAnswer.decision.visit = NoVisit BY IdleOf DEF NoAnswer, Idle
<1>2. ASSUME ClockInv, RowsInv, NEW m \in Messages, NEW d \in Answers(m, rows, clock),
             answer' = [text |-> m.text, image |-> m.image, decision |-> d], d.visit # NoVisit
      PROVE  AsAsked(d.visit, m.text.hour, WordsOf(rows) \cup ToSet(m.text.days), clock)
  <2>1. clock \in Nat /\ m.text.days \in Seq(DayWords) /\ IsRows(rows)
    BY <1>2, MessageKnown DEF ClockInv, RowsInv
  <2>2. d = VisitDecision(m.text, rows, clock) BY <1>2, <2>1, AnswersSay DEF Idle
  <2> QED BY <1>2, <2>1, <2>2, VisitIsAsked
<1>3. ASSUME ClockInv, RowsInv, Next PROVE A
  <2>1. CASE answer' = NoAnswer BY <1>1, <2>1
  <2>2. ASSUME NEW m \in Messages, NEW d \in Answers(m, rows, clock), answer' # NoAnswer,
               answer' = [text |-> m.text, image |-> m.image, decision |-> d]
        PROVE  A
    <3>1. answer'.decision = d /\ answer'.text = m.text BY <2>2
    <3>2. d.visit # NoVisit =>
            AsAsked(d.visit, m.text.hour, WordsOf(rows) \cup ToSet(m.text.days), clock)
      BY <1>2, <1>3, <2>2
    <3> QED BY <2>2, <3>1, <3>2 DEF WordsOf, AsAsked, Names
  <2> QED BY <1>3, <2>1, <2>2, StepAnswers
<1>4. ClockInv /\ RowsInv /\ [Next]_vars => [A]_vars BY <1>3
<1> QED BY <1>4, ClockInvariant, RowsInvariant, PTL DEF Spec, VisitAsAsked
=============================================================================
