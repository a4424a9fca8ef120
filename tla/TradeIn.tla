------------------------------ MODULE TradeIn ------------------------------
(***************************************************************************)
(* What the bot takes for an offer of the customer's own device            *)
(* (src/app/trade_in.py).  A text is the set of the patterns it matches,   *)
(* its "cues", with the iPhone generations it names; texts read together   *)
(* match the patterns of each.  Where the code compares the positions of   *)
(* two matches, a cue of its own stands for the comparison.                *)
(***************************************************************************)
EXTENDS Integers, Sequences, SequencesExt, FiniteSets

CONSTANT RecentLimit   \* messages of the history a follow-up is read against
ASSUME RecentLimitAssumption == RecentLimit \in Nat \ {0}

Holds(t, S) == S \subseteq t.cues
Has(t, S) == t.cues \cap S # {}
Lacks(t, S) == t.cues \cap S = {}

NoText == [cues |-> {}, models |-> {}]
(* A description of a picture counts as one only where it opens the text.  *)
Joined(s) ==
  LET all == UNION {e.text.cues : e \in ToSet(s)}
  IN [cues |-> IF s # <<>> /\ "photoOnly" \in s[1].text.cues THEN all ELSE all \ {"photoOnly"},
      models |-> UNION {e.text.models : e \in ToSet(s)}]
Together(t, u) == [cues |-> t.cues \cup u.cues, models |-> t.models \cup u.models]

(* The history: the messages of the window, and of their end what a        *)
(* follow-up reads.                                                        *)
Recent(h) == SubSeq(h, IF Len(h) > RecentLimit THEN Len(h) - RecentLimit + 1 ELSE 1, Len(h))
FromCustomer(h) == SelectSeq(h, LAMBDA e : e.from = "customer")
FromStore(h) == SelectSeq(h, LAMBDA e : e.from = "store")
CustomerContext(h) == Joined(FromCustomer(Recent(h)))
Latest(s) == IF s = <<>> THEN NoText ELSE s[Len(s)].text
LatestStore(h) == Latest(FromStore(Recent(h)))
SomeStore(h, S) == \E e \in ToSet(FromStore(Recent(h))) : Holds(e.text, S)
Catalog(e) == Holds(e.text, {"apple", "offer"})
-----------------------------------------------------------------------------
(* One message.                                                            *)
AbbreviatedProfile(t) ==
  /\ Holds(t, {"storeTakesModel"})
  /\ Holds(t, {"mine", "batteryPercent"}) \/ Holds(t, {"ownedBare", "replacedDetail"})
  /\ Lacks(t, {"nonApple", "repair", "negation"})

ExchangeContext(t) == Has(t, {"exchange", "followup", "ownedTarget", "difference"})

CatalogTarget(t) ==
  /\ Lacks(t, {"negation"})
  /\ \/ Holds(t, {"ownedTarget"})
     \/ Holds(t, {"availableTarget"}) /\ Lacks(t, {"nonApple"})

CompactOffer(t) ==
  Holds(t, {"compact"}) /\ ExchangeContext(t) /\ Lacks(t, {"nonApple", "negation", "repairRequest"})

PersonalReference(t) == Has(t, {"ownedApple", "personal"}) \/ Holds(t, {"bought", "followup"})

OwnedProfile(t) ==
  /\ PersonalReference(t)
  /\ Holds(t, {"apple", "capacity", "detail"}) /\ Lacks(t, {"nonApple"})

UpgradeOffer(t) ==
  LET owned == Holds(t, {"owned"}) \/ OwnedProfile(t)
  IN /\ \/ Has(t, {"multiTrade", "describedExchange"})
        \/ Holds(t, {"buybackPrice", "apple", "detail", "exchangeTarget"})
        \/ owned /\ Holds(t, {"buyback", "upgrade", "upgradeDetail"}) /\ Lacks(t, {"software"})
        \/ owned /\ Has(t, {"thinkingTarget", "genericUpgrade", "sizeDown", "modelForModel"})
        \/ owned /\ Holds(t, {"upgradeTarget", "upgradeDetail"})
        \/ owned /\ Holds(t, {"deviceEntry", "model", "upgradeDetail"})
     /\ Lacks(t, {"nonApple"})
     /\ Lacks(t, {"repairRequest"}) \/ ExchangeContext(t)

PriceRecall(t) == Holds(t, {"recall", "amount"})
PurchaseAdvice(t) == Holds(t, {"advice"}) /\ Lacks(t, {"ownSide"})

(* With an Apple product named too, the one the offer is about decides.    *)
NonAppleRequest(t) ==
  /\ Holds(t, {"nonApple"}) /\ Has(t, {"buyback", "exchange"})
  /\ Lacks(t, {"apple"}) \/ Holds(t, {"nonAppleOffered"})

ExplicitCue(t) == Has(t, {"buyback", "exchange"})
ComponentRepair(t) == Has(t, {"repair", "repairRequest"}) /\ Lacks(t, {"replacedPart"})
PurchaseObservation(t) == Holds(t, {"apple", "liked", "future"}) /\ Lacks(t, {"ownedCatalog"})
BoxQuestion(t) == Holds(t, {"box", "boxAsked"}) /\ Lacks(t, {"ownedBox", "ownedVariant"})

DetailedEntry(t) ==
  Holds(t, {"entryBack", "detail"}) /\ Has(t, {"apple", "model"}) /\ Lacks(t, {"nonApple"})
BusinessOffer(t) == Holds(t, {"owned", "model", "business"}) /\ Lacks(t, {"nonApple"})

(* A device offered, not a means of payment.                               *)
DeviceOffer(t) ==
  LET named == Has(t, {"model", "modelExchange", "device"}) /\ Holds(t, {"detail"})
      apple == Lacks(t, {"nonApple"})
  IN IF Has(t, {"ownedTarget", "entryGiven"}) THEN apple
     ELSE \/ DetailedEntry(t) \/ BusinessOffer(t) \/ UpgradeOffer(t)
          \/ Has(t, {"bareEntry", "exchangeOffer", "discount"}) /\ apple
          \/ Holds(t, {"quote", "apple"}) /\ PersonalReference(t) /\ apple
          \/ Holds(t, {"interested", "apple"})
          \/ Holds(t, {"modelTaken"}) /\ Lacks(t, {"wantsToBuy"}) /\ apple
          \/ Has(t, {"exchanging"}) /\ (PersonalReference(t) \/ (named /\ apple))
          \/ Has(t, {"toSell", "wantsToTrade", "worth"}) /\ Holds(t, {"device"})
          \/ Has(t, {"asEntry", "takesMine", "takesIt"})

SaleOffer(t) == Holds(t, {"sellsApple"}) /\ DeviceOffer(t) /\ Lacks(t, {"nonApple"})

(* The customer asks whether the store buys devices.                       *)
StoreBuyback(t) ==
  LET named == Has(t, {"device", "storeIphones"})
      personal == PersonalReference(t)
  IN /\ Lacks(t, {"buysFromApple"}) /\ ~Holds(t, {"catalogPrice", "payWays"})
     /\ Lacks(t, {"payMethod"}) \/ Holds(t, {"device"})
     /\ \/ Holds(t, {"buybackPrice", "device", "detail"})
        \/ named /\ Holds(t, {"buysService"})
        \/ /\ named /\ (Lacks(t, {"aPurchase"}) \/ personal)
           /\ \/ Holds(t, {"takesVerb"})
              \/ Holds(t, {"storeTakes"}) /\ (Lacks(t, {"atStore"}) \/ personal)
        \/ Holds(t, {"takesUsed"})

(* A part that describes a whole device is no offer of the part.           *)
WholeDevice(t) ==
  \/ AbbreviatedProfile(t) \/ UpgradeOffer(t) \/ BusinessOffer(t) \/ DetailedEntry(t)
  \/ /\ Holds(t, {"model", "detail", "buyback"})
     /\ Lacks(t, {"takesPart", "partOnly", "nonApple", "repairRequest"})
  \/ /\ Holds(t, {"ownedVariant", "detail", "buyback"})
     /\ Lacks(t, {"takesPart", "repairRequest", "negation", "nonApple"})
  \/ Holds(t, {"exchangeOffer"}) /\ Lacks(t, {"nonApple"})
  \/ Holds(t, {"modelExchange", "detail"}) \/ Holds(t, {"ownedComplete", "buyback"})
  \/ Holds(t, {"wholeDevice"})

Listing(t) == Holds(t, {"sale", "modelCapacity", "device"})
PartsRequest(t) ==
  Holds(t, {"part", "partBuyback"}) /\ ~WholeDevice(t) /\ ~Listing(t)

WholeDeviceSale(t) == OwnedProfile(t) /\ (StoreBuyback(t) \/ Holds(t, {"forSale"}))
OnlyRepair(t) ==
  /\ Holds(t, {"repair"})
  /\ ~(UpgradeOffer(t) \/ WholeDeviceSale(t) \/ SaleOffer(t) \/ WholeDevice(t))
  /\ ~OwnedProfile(t) \/ Holds(t, {"repairRequest"})

IsTradeIn(t) ==
  /\ t.cues # {} /\ Lacks(t, {"photoOnly"}) /\ ~PriceRecall(t) /\ ~PurchaseAdvice(t)
  /\ \/ Holds(t, {"filled"}) \/ CatalogTarget(t) \/ AbbreviatedProfile(t)
     \/ /\ ~PartsRequest(t) /\ ~OnlyRepair(t) /\ Lacks(t, {"negation", "onlyBuying"})
        /\ Lacks(t, {"fromApple"}) \/ ExchangeContext(t)
        /\ ~PurchaseObservation(t)
        /\ \/ DeviceOffer(t)
           \/ /\ Lacks(t, {"stock", "toBuy", "payMoney"})
              /\ Lacks(t, {"nonApple"}) \/ Holds(t, {"apple"})
              /\ \/ Holds(t, {"ownedVariant", "detail"}) /\ Lacks(t, {"nonApple"})
                 \/ OwnedProfile(t) /\ ~BoxQuestion(t)
                 \/ IF StoreBuyback(t) THEN Lacks(t, {"daApple"})
                    ELSE Has(t, {"evaluates", "sendEvaluate", "otherEntry"})

IsDowngrade(t) == Holds(t, {"downgrade"}) /\ Lacks(t, {"software", "nonApple"})
IsNegotiation(t) == Holds(t, {"closing"}) /\ Has(t, {"money", "dealWords"})
-----------------------------------------------------------------------------
(* A message read with the history.                                        *)
FormSent(h) == \E e \in ToSet(FromStore(h)) : Holds(e.text, {"formMarker"})

(* The customer needs "a phone", having said before that they would buy.   *)
NeedsSomePhone(t, h) ==
  LET before == CustomerContext(h)
  IN /\ Holds(t, {"someDevice"}) /\ ~IsTradeIn(t)
     /\ Holds(before, {"wantsToBuy"}) /\ ~IsTradeIn(before)

PurchaseOnly(t, h) ==
  /\ ~IsTradeIn(t)
  /\ \/ Holds(t, {"sum", "pickupPayment", "device"}) \/ Holds(t, {"wantsToBuy"})
     \/ NeedsSomePhone(t, h)

PhotoOffer(t) == Holds(t, {"photoOffer"}) /\ Lacks(t, {"formMarker", "saleWords"})
PhotoYes(t, h) ==
  /\ Holds(t, {"yes"})
  /\ \A e \in ToSet(FromCustomer(Recent(h))) : ~IsTradeIn(e.text)
  /\ PhotoOffer(LatestStore(h))

UnlabelledForm(t, h) ==
  Holds(t, {"formLines"}) /\ FormSent(h) /\ Lacks(t, {"repairRequest", "deviceRepair"})

(* The answer to a question about the device to evaluate.                  *)
AnswersDetails(t, image, h) ==
  /\ ~FormSent(h) /\ Holds(LatestStore(h), {"evaluation", "detailsQuestion", "apple"})
  /\ ~PartsRequest(t) /\ ~NonAppleRequest(t) /\ Lacks(t, {"deviceRepair", "activeRepair"})
  /\ Holds(image, {"device"}) \/ Has(t, {"modelAnswer", "capacityAnswer", "condition"})

AppleOffer(e) == IsTradeIn(e.text) /\ ~NonAppleRequest(e.text) /\ ~PartsRequest(e.text)
AsksForForm(t, h) ==
  Holds(t, {"form"}) /\ (FormSent(h) \/ \E e \in ToSet(FromCustomer(h)) : AppleOffer(e))
AsksFormFields(t, h) ==
  /\ Holds(t, {"fields"}) /\ SomeStore(h, {"formPending"})
  /\ \E e \in ToSet(FromCustomer(Recent(h))) : AppleOffer(e)

WholeAfterParts(t, h) ==
  LET before == CustomerContext(h)
  IN /\ ~FormSent(h) /\ Holds(t, {"complete"}) /\ Lacks(t, {"notComplete"})
     /\ Holds(LatestStore(h), {"noParts"})
     /\ Holds(before, {"model", "detail", "buyback"})
     /\ Lacks(before, {"takesPart", "partOnly", "nonApple"})

AnswersOfferQuestion(t, h) ==
  /\ Holds(LatestStore(h), {"offerQuestion", "tradeWords"})
  /\ Holds(t, {"apple"}) /\ Lacks(t, {"negation", "nonApple"})
  /\ ~ComponentRepair(t) /\ ~PartsRequest(t)

(* The device described in one message, the offer made in another.         *)
DetailAfterOffer(t, before, both) ==
  /\ IsTradeIn(before) /\ Holds(before, {"apple"}) /\ Holds(t, {"detail"})
  /\ Lacks(both, {"negation", "nonApple"}) /\ Lacks(t, {"repair", "repairRequest"})
  /\ ~ComponentRepair(both) /\ ~PartsRequest(both)
PriceInPieces(t, before, both) ==
  /\ Holds(before, {"buybackPrice"}) /\ Holds(both, {"model", "capacity", "detail"})
  /\ Holds(t, {"acquired"}) /\ ~PartsRequest(both)
  /\ Lacks(both, {"negation", "repair", "repairRequest", "nonApple", "software"})
OfferAfterDevice(t, before, both) ==
  /\ Holds(before, {"ownedApple", "apple"}) /\ ExplicitCue(t)
  /\ Lacks(t, {"negation", "repair"}) /\ ~PartsRequest(t) /\ Lacks(both, {"nonApple"})
DifferenceAfterOffer(t, before, both) ==
  /\ Holds(t, {"back"}) /\ CompactOffer(before)
  /\ Lacks(both, {"repair", "nonApple"}) /\ ~PartsRequest(t)
ProfileAfterUpgrade(t, before, both) ==
  /\ Holds(before, {"upgradeOfDevice"}) /\ Holds(t, {"profileOfDevice", "capacity", "detail"})
  /\ Lacks(both, {"software", "nonApple"}) /\ Lacks(t, {"repair", "repairRequest", "negation"})
  /\ ~PartsRequest(t)

(* From the latest question about a discount for the customer's device on. *)
DiscountContext(t, h) ==
  LET said == Append(FromCustomer(Recent(h)), [from |-> "customer", text |-> t])
      asked == {i \in DOMAIN said : Holds(said[i].text, {"discountQuote"})}
  IN IF asked = {} THEN NoText
     ELSE Joined(SubSeq(said, CHOOSE i \in asked : \A j \in asked : j <= i, Len(said)))
DiscountOffer(t, h, catalog) ==
  LET all == DiscountContext(t, h)
  IN /\ ~FormSent(h) /\ ~catalog
     /\ Holds(all, {"discountQuote", "apple", "capacity", "condition"})
     /\ Lacks(all, {"negation", "repair", "nonApple", "wantsToBuy", "stock", "storeStock"})

(* After a catalog answer, a model named alone is a device offered for it. *)
QuotedModels(h) ==
  LET r == Recent(h)
      asked == {i \in DOMAIN r : /\ r[i].from = "customer" /\ r[i].text.models # {}
                                 /\ Holds(r[i].text, {"priceAsked"})}
      at == CHOOSE i \in asked : \A j \in asked : j <= i
      told == {i \in DOMAIN r : i > at /\ r[i].from = "store" /\ Catalog(r[i])}
  IN IF asked = {} THEN {}
     ELSE r[at].text.models \cap UNION {r[i].text.models : i \in told}

AfterCatalog(t, h, before, both) ==
  \/ /\ SomeStore(h, {"apple", "offer", "budgetAsked"}) /\ Holds(t, {"givesMine"})
     /\ Lacks(both, {"negation", "nonApple"}) /\ Lacks(t, {"repair", "repairRequest"})
     /\ ~PartsRequest(t)
  \/ /\ \E e \in ToSet(FromCustomer(Recent(h))) :
          ExplicitCue(e.text) /\ ~ComponentRepair(e.text) /\ Holds(e.text, {"exchangeWords"})
     /\ Holds(t, {"owned", "detail"}) /\ Lacks(both, {"negation", "nonApple"})
     /\ Lacks(t, {"repair", "repairRequest"}) /\ ~PartsRequest(t)
  \/ /\ Holds(t, {"modelPrice"}) /\ Lacks(t, {"negation", "nonApple"})
     /\ \E quoted \in QuotedModels(h), offered \in t.models : quoted > offered
  \/ /\ \/ Has(t, {"ownedOffered", "partOfValue"})
        \/ Holds(t, {"owned", "capacity", "detail", "buyback"})
        \/ Holds(before, {"ownedOffered"}) /\ Has(t, {"followup", "partPayment"})
     /\ Lacks(both, {"negation", "repair", "nonApple"})

WarrantyOfMany(t, h, before) ==
  /\ Holds(before, {"multiTrade"}) /\ Holds(t, {"owned", "warranty"})
  /\ Holds(LatestStore(h), {"sealedYear"})
  /\ Lacks(t, {"repair", "nonApple"}) /\ Lacks(before, {"nonApple"})
UpgradeAfterCatalog(t, h) ==
  /\ Holds(t, {"owned", "upgrade"}) /\ Lacks(t, {"software", "repair", "nonApple"})
  /\ ~PartsRequest(t) /\ SomeStore(h, {"apple", "listed"})
FollowsOffer(t, before, both) ==
  /\ Holds(t, {"followup"}) /\ Lacks(t, {"negation", "repair"})
  /\ Lacks(t, {"payMethod"}) \/ Holds(t, {"tradeFor"}) \/ DeviceOffer(t)
  /\ IsTradeIn(before) /\ Lacks(both, {"nonApple"})
SmallerOne(both) == Holds(both, {"owned", "sizeDown"}) /\ Lacks(both, {"negation", "nonApple"})

(* The store spoke of an evaluation or of a trade and was not answered.    *)
OfferPending(h) ==
  \E e \in ToSet(FromStore(Recent(h))) :
    Lacks(e.text, {"formMarker"}) /\ Holds(e.text, {"device"}) /\ Has(e.text, {"tradeOffer", "evaluation"})

EntryAfterDevice(t, before) ==
  /\ Holds(t, {"entryFollowup"}) /\ Holds(before, {"apple", "ownedComplete"})
  /\ Lacks(before, {"nonApple"})
PriceWithOwned(t, h) ==
  /\ Holds(t, {"ownsNumber", "valueAsked"}) /\ Lacks(t, {"years"})
  /\ Lacks(t, {"catalogPrice"}) \/ Holds(t, {"givingIt"})
  /\ Holds(Joined(Recent(h)), {"apple"})

(* A message that continues an offer, or begins one the history explains.  *)
InTradeIn(t, h) ==
  LET before == CustomerContext(h)
      both == Together(before, t)
      catalog == \E e \in ToSet(FromStore(Recent(h))) : Catalog(e)
  IN \/ IsTradeIn(t)
     \/ /\ t.cues # {} /\ h # <<>>
        /\ \/ AsksForForm(t, h) \/ AsksFormFields(t, h)
           \/ /\ ~PhotoYes(t, h)
              /\ \/ WholeAfterParts(t, h) \/ AnswersOfferQuestion(t, h)
                 \/ Holds(t, {"theEntry"}) /\ Holds(Joined(Recent(h)), {"apple"})
                 \/ DetailAfterOffer(t, before, both) \/ PriceInPieces(t, before, both)
                 \/ OfferAfterDevice(t, before, both) \/ DifferenceAfterOffer(t, before, both)
                 \/ ProfileAfterUpgrade(t, before, both) \/ DiscountOffer(t, h, catalog)
                 \/ catalog /\ AfterCatalog(t, h, before, both)
                 \/ AbbreviatedProfile(before) \/ WarrantyOfMany(t, h, before)
                 \/ UpgradeAfterCatalog(t, h) \/ FollowsOffer(t, before, both)
                 \/ SmallerOne(both)
                 \/ IF Holds(t, {"yes"}) THEN OfferPending(h)
                    ELSE EntryAfterDevice(t, before) \/ PriceWithOwned(t, h)
=============================================================================
