------------------------------- MODULE Visits -------------------------------
(***************************************************************************)
(* The store itself (src/app/agent_rules/store.py and                      *)
(* agent_handlers/store.py): its calendar, which day and hour a message    *)
(* asks for when it is read with the history, the answer, and delivery.    *)
(* A text carries, in order, the day words it matches ("data" stands for   *)
(* "dia 10" and "esta semana", which the calendar reads as no day) and the *)
(* hour it names, 0 when none; a text of the store carries the day it      *)
(* offers.                                                                 *)
(***************************************************************************)
EXTENDS TradeIn

CONSTANTS DateDays,  \* of a date in numbers, its days in the years looked at
          FullDates  \* the dates written with their year

Weekdays == <<"segunda", "terca", "quarta", "quinta", "sexta", "sabado", "domingo">>
NextWeek == {"proximaSemana", "semanaQueVem"}
OtherDayWords == {"hoje", "amanha", "data"} \cup NextWeek \cup ToSet(Weekdays)
DayWords == OtherDayWords \cup DOMAIN DateDays

ASSUME DateAssumption ==
  /\ FullDates \subseteq DOMAIN DateDays /\ OtherDayWords \cap DOMAIN DateDays = {}
  /\ \A w \in DOMAIN DateDays : DateDays[w] \subseteq Nat
  /\ \A w \in FullDates : \A d, e \in DateDays[w] : d = e

Texts == [name : STRING, cues : SUBSET STRING, models : SUBSET Nat, days : Seq(DayWords), hour : 0..23]
Say(name, cues) == [name |-> name, cues |-> cues, models |-> {}, days |-> <<>>, hour |-> 0]
Offering(name, cues, day) == [Say(name, cues) EXCEPT !.days = <<day>>]

(* The store's clock, in hours since the midnight that opens a Monday.     *)
Day(now) == now \div 24
Hour(now) == now % 24
WeekdayOf(day) == Weekdays[(day % 7) + 1]
IsBusinessDay(day) == day % 7 < 5
NoDay == -1

(* The first of some words that a text says.                               *)
FirstOf(days, words) ==
  LET said == {i \in DOMAIN days : days[i] \in words}
  IN days[CHOOSE i \in said : \A j \in said : i <= j]

(* A date without its year is the next one; a full date may be over.       *)
DateDay(date, now) ==
  LET due == {d \in DateDays[date] : date \in FullDates \/ d >= Day(now)}
  IN IF due = {} THEN NoDay ELSE CHOOSE d \in due : \A e \in due : d <= e

(* A weekday from today on, or in the week that opens next Monday.         *)
WeekdayDay(w, said, now) ==
  LET n == (CHOOSE i \in 1..7 : Weekdays[i] = w) - 1
  IN Day(now) + IF said \cap NextWeek # {} THEN 7 - (Day(now) % 7) + n ELSE (n - Day(now)) % 7

(* "hoje" before "amanha", before the first date in numbers, before the    *)
(* first weekday.                                                          *)
VisitDay(days, now) ==
  LET said == ToSet(days)
  IN IF "hoje" \in said THEN Day(now)
     ELSE IF "amanha" \in said THEN Day(now) + 1
     ELSE IF said \cap DOMAIN DateDays # {} THEN DateDay(FirstOf(days, DOMAIN DateDays), now)
     ELSE IF said \cap ToSet(Weekdays) = {} THEN NoDay
     ELSE WeekdayDay(FirstOf(days, ToSet(Weekdays)), said, now)
-----------------------------------------------------------------------------
(* What one message asks.                                                  *)
NamesDate(days) == ToSet(days) \ {"semanaQueVem"} # {}
HasDate(t) == NamesDate(t.days)
HasHour(t) == t.hour # 0

CannotVisit(t) == Holds(t, {"cannotVisit"}) /\ Lacks(t, {"visitPlan"})
IsVisit(t) ==
  /\ ~CannotVisit(t)
  /\ Holds(t, {"visit"}) \/ (Holds(t, {"mark"}) /\ (HasDate(t) \/ HasHour(t)))
IsReservation(t) == Holds(t, {"reserve"})
DateAsked(t) == Holds(t, {"whatDay"})
HoursAsked(t) ==
  /\ "hoje" \notin ToSet(t.days)
  /\ \/ Holds(t, {"hoursPhrase"})
     \/ Holds(t, {"hoursMarker"}) /\ ToSet(t.days) \cap ToSet(Weekdays) # {}
TodayStatus(t) ==
  /\ Holds(t, {"statusMarker"})
  /\ "hoje" \in ToSet(t.days) \/ (Holds(t, {"openNow"}) /\ ~HoursAsked(t))
PhysicalStore(t) == Holds(t, {"address"})
-----------------------------------------------------------------------------
(* What the store says.                                                    *)
TodayOffer == Offering("today", {"dayAsked", "question", "visitToday"}, "hoje")
SomeDay(name) == Say(name, {"dayAsked", "question"})
SomeDayOffered(name, day) == Offering(name, {"dayAsked", "question"}, day)
BadTomorrowReply(now) == SomeDayOffered("tomorrow", "amanha")   \* the day after a Friday is offered
TomorrowReply(now) ==
  IF IsBusinessDay(Day(now) + 1) THEN SomeDayOffered("tomorrow", "amanha")
  ELSE SomeDay("closedTomorrow")
TodayReply(now) ==
  IF ~IsBusinessDay(Day(now)) THEN SomeDay("closedToday")
  ELSE IF Hour(now) >= 18 THEN TomorrowReply(now) ELSE TodayOffer
DayReply(day) ==
  IF IsBusinessDay(day) THEN SomeDayOffered("day", WeekdayOf(day)) ELSE SomeDay("closedDay")
ReservationReply(day, now) ==
  LET next == IF day # NoDay THEN DayReply(day) ELSE TodayReply(now)
  IN [next EXCEPT !.cues = @ \cup {"noReserve", "device"}]
-----------------------------------------------------------------------------
(* The message read with the history.                                      *)
AskedForDay(h) == \E e \in ToSet(FromStore(h)) : Holds(e.text, {"dayAsked"})
BadOfferedToday(h) == AskedForDay(h)   \* any question for a day offers today
OfferedToday(h) == \E i \in DOMAIN h : h[i].from = "store" /\ Holds(h[i].text, {"visitToday"})

(* The day of the store's last message, if that offers one.                *)
LatestOffer(h) ==
  LET told == {i \in DOMAIN h : h[i].from = "store"}
      at == CHOOSE i \in told : \A j \in told : j <= i
  IN IF told # {} /\ Holds(h[at].text, {"dayAsked"}) THEN h[at].text.days ELSE <<>>

(* A reservation asked for last and not refused.                           *)
BadReservationPending(h) == FALSE   \* the request before the answer is forgotten
ReservationPending(h) ==
  LET asked == {i \in DOMAIN h : h[i].from = "customer"}
      at == CHOOSE i \in asked : \A j \in asked : j <= i
      after == SubSeq(h, at + 1, Len(h))
  IN /\ asked # {} /\ IsReservation(h[at].text) /\ after # <<>>
     /\ Lacks(Latest(after), {"noReserve"}) /\ Has(Latest(after), {"dayAsked", "visitToday"})

(* An answer to the question for a day; a new request wins over it.        *)
AnswersVisit(t, h) ==
  /\ AskedForDay(h) /\ t.cues # {} /\ ~CannotVisit(t)
  /\ ~(DateAsked(t) \/ TodayStatus(t) \/ HoursAsked(t) \/ PhysicalStore(t))
  /\ Lacks(t, {"otherAsk"})
  /\ HasDate(t) \/ HasHour(t) \/ Holds(t, {"yesDay"})

(* The day offered, then the customer's last four texts that do not ask    *)
(* about today, oldest first, then the message.                            *)
Plans(h) == {i \in DOMAIN h : h[i].from = "customer" /\ ~TodayStatus(h[i].text)}
FromLast(h, k) == {i \in Plans(h) : Cardinality({j \in Plans(h) : j > i}) = k}
DaysFromLast(h, k) ==
  IF FromLast(h, k) = {} THEN <<>> ELSE h[CHOOSE i \in FromLast(h, k) : TRUE].text.days
VisitContext(t, h) ==
  [days |-> LatestOffer(h) \o DaysFromLast(h, 3) \o DaysFromLast(h, 2)
              \o DaysFromLast(h, 1) \o DaysFromLast(h, 0) \o t.days,
   timed |-> HasHour(t) \/ \E k \in 0..3 : \E i \in FromLast(h, k) : HasHour(h[i].text)]

NoVisit == [day |-> NoDay, hour |-> 0]
Answer(text) == [text |-> text, handoff |-> FALSE, about |-> "", visit |-> NoVisit]
Transfer(text, about) == [text |-> text, handoff |-> TRUE, about |-> about, visit |-> NoVisit]
Registered(day, hour, reserves) ==
  [Transfer(Say("registered", {"forward"} \cup IF reserves THEN {"noReserve", "device"} ELSE {}), "visit") EXCEPT
     !.visit = IF day # NoDay /\ hour # 0 THEN [day |-> day, hour |-> hour] ELSE NoVisit]

AsksVisit(t, h) == IsVisit(t) \/ IsReservation(t) \/ AnswersVisit(t, h)

VisitDecision(t, h, now) ==
  LET answers == AnswersVisit(t, h)
      pending == answers /\ ReservationPending(h)
      reserves == IsReservation(t) \/ pending
      context == VisitContext(t, h)
      days == IF answers /\ context.timed /\ ~NamesDate(context.days) /\ OfferedToday(h)
              THEN <<"hoje">> ELSE context.days
      asked == VisitDay(t.days, now)
      day == IF asked # NoDay THEN asked ELSE VisitDay(days, now)
  IN IF IsReservation(t) /\ ~IsVisit(t) /\ ~pending THEN Answer(ReservationReply(asked, now))
     ELSE IF day # NoDay /\ ~IsBusinessDay(day)
          THEN Answer(IF reserves THEN ReservationReply(day, now) ELSE DayReply(day))
     ELSE IF NamesDate(days) /\ context.timed THEN Registered(day, t.hour, reserves)
     ELSE IF reserves THEN Answer(ReservationReply(asked, now))
     ELSE IF "amanha" \in ToSet(t.days) THEN Answer(TomorrowReply(now))
     ELSE IF asked # NoDay THEN Answer(DayReply(asked))
     ELSE Answer(TodayReply(now))

(* Of the handlers that inform about the day: the visit asked for with it. *)
CurrentDay(t, h, now) ==
  IF IsVisit(t) \/ IsReservation(t) THEN VisitDecision(t, h, now)
  ELSE IF DateAsked(t) THEN Answer(Say("date", {})) ELSE Answer(TodayReply(now))
-----------------------------------------------------------------------------
(* Delivery and pickup.                                                    *)
DeliveryContext(h) == \E e \in ToSet(FromStore(h)) : Holds(e.text, {"deliveryInfo"})
FeeAsked(t, h) == Holds(t, {"fee"}) \/ (Holds(t, {"feeHere"}) /\ DeliveryContext(h))
PickupScheduled(t) == Holds(t, {"pickupVerb"}) /\ HasDate(t) /\ HasHour(t)
DeliveryAsked(t, h) ==
  Has(t, {"delivery", "pickup"}) \/ (Holds(t, {"sendTo"}) /\ DeliveryContext(h))

DeliveryTerms == Say("deliveryTerms", {"asksPlace", "deliveryInfo", "question"})
QuoteAnswered(t, h) == Holds(t, {"place"}) /\ Holds(Latest(FromStore(h)), {"asksPlace"})
PaysOnDelivery(t, h) == Holds(t, {"deliveryPay"}) \/ (CannotVisit(t) /\ DeliveryContext(h))
DeliveryPayment(t, h) ==
  IF QuoteAnswered(t, h) THEN Transfer(Say("quoted", {"forward"}), "delivery")
  ELSE IF FeeAsked(t, h) THEN Transfer(DeliveryTerms, "delivery") ELSE Answer(DeliveryTerms)

DeliveryOrPickup(t, h) ==
  IF FeeAsked(t, h) THEN Transfer(Say("fee", {"forward"}), "delivery")
  ELSE IF PickupScheduled(t) THEN Answer(Say("pickup", {}))
  ELSE Answer(Say("delivery", IF Holds(t, {"delivery"}) \/ Holds(t, {"sendTo"})
                              THEN {"deliveryInfo"} ELSE {}))
AsksDelivery(t, h) ==
  /\ DeliveryAsked(t, h) \/ FeeAsked(t, h) \/ PickupScheduled(t)
  /\ Lacks(t, {"human", "address"})
=============================================================================
