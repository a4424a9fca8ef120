----------------------------- MODULE MCDialogue -----------------------------
(***************************************************************************)
(* Instances of Dialogue: what the customer, the store's people and the    *)
(* language model may write, as the cues of real texts.  A cue that no     *)
(* rule can combine with another one of its message is left out.           *)
(***************************************************************************)
EXTENDS Dialogue

LOCAL Naming(name, cues, models) == [Say(name, cues) EXCEPT !.models = models]
LOCAL Dated(name, cues, days, hour) == [Say(name, cues) EXCEPT !.days = days, !.hour = hour]
LOCAL Only(text) == [text |-> text, image |-> NoText]
LOCAL Seen(text, cues, models) == [text |-> text, image |-> [cues |-> cues, models |-> models]]

(* About devices.                                                          *)
DeviceMessages == {
  \* Vocês aceitam iPhone na troca?
  Only(Say("asksTrade", {"apple", "buyback", "catalogAsked", "device", "exchange",
    "exchangePhrase", "exchangeWords", "exchanging", "followup", "ownedCatalog", "partBuyback",
    "product", "storeTakes", "takesMine", "takesVerb", "words"})),
  \* Tenho um iPhone 13 128gb bateria 88%
  Only(Say("profile", {"apple", "batteryPercent", "capacity", "catalogAsked", "condition",
    "conditionSignal", "detail", "device", "mine", "modelCapacity", "owned", "ownedApple",
    "ownedCatalog", "ownedComplete", "ownsNumber", "part", "personal", "product",
    "upgradeDetail", "words"})),
  \* Tenho 14, quanto ficaria?
  Only(Say("bareModel", {"mine", "owned", "ownsNumber", "priceAsked", "valueAsked", "words"})),
  \* 85% de bateria, sem marcas de uso
  Only(Say("detail", {"condition", "conditionAsked", "conditionSignal", "detail", "part",
    "upgradeDetail", "words"})),
  \* na troca?
  Only(Say("inTrade", {"exchange", "exchangePhrase", "exchangeWords", "exchanging", "followup",
    "ownedCatalog", "words"})),
  \* sim
  Only(Say("yes", {"short", "words", "yes", "yesDay", "yesForward"})),
  \* Qual modelo de iPhone? / R: iPhone 13 / Gb: 128 / Cor: preto / Comp...
  Only(Say("filled", {"apple", "assistance", "batteryPercent", "buyerDetails", "capacity",
    "catalogAsked", "conditionAsked", "conditionSignal", "detail", "device", "exchangeWords",
    "filled", "liked", "ownedCatalog", "part", "priceAsked", "product", "upgradeDetail",
    "warranty", "warrantyAsked", "words"})),
  \* iPhone 13 / 128gb preto / novo / com caixa / sem marcas de uso / na...
  Only(Say("lines", {"apple", "capacity", "catalogAsked", "condition", "conditionAsked",
    "conditionSignal", "detail", "device", "formLines", "modelCapacity", "ownedCatalog",
    "product", "stateAsked", "upgradeDetail", "warranty", "warrantyAsked", "words"})),
  \* Aceitam Samsung S22 na troca?
  Only(Say("samsung", {"buyback", "exchange", "exchangePhrase", "exchangeWords", "exchanging",
    "followup", "nonApple", "ownedCatalog", "words"})),
  \* Compram a tela quebrada do iPhone 13?
  Only(Say("part", {"apple", "assistance", "buyback", "catalogAsked", "conditionAsked",
    "conditionSignal", "device", "liked", "ownedCatalog", "part", "partBuyback", "product",
    "takesPart", "takesVerb", "upgradeDetail", "words"})),
  \* Quanto custa o iPhone 17 Pro?
  Only(Naming("price17", {"apple", "catalogAsked", "catalogPrice", "device", "model", "otherAsk",
    "priceAsked", "product", "words"}, {17})),
  \* E o 14 Pro, pega por quanto?
  Only(Naming("takes14", {"buyback", "catalogAsked", "model", "pickupVerb", "priceAsked",
    "product", "words"}, {14})),
  \* Quero trocar meu iPhone 13 por um iPhone 17 Pro
  Only(Naming("target", {"apple", "catalogAsked", "device", "mine", "model", "owned",
    "ownedApple", "ownedBare", "ownedCatalog", "ownedComplete", "ownedTarget", "personal",
    "product", "wantsToTrade", "words"}, {17})),
  \* Quero fazer downgrade do meu iPhone 16
  Only(Say("downgrade", {"apple", "catalogAsked", "device", "downgrade", "mine", "owned",
    "ownedApple", "ownedBare", "ownedCatalog", "ownedComplete", "personal", "product",
    "words"})),
  \* Fechado, aceito esse valor
  Only(Say("closes", {"closing", "dealWords", "place", "priceAsked", "short", "words"})),
  \* Quero comprar um iPhone 15
  Only(Say("buys", {"apple", "catalogAsked", "device", "liked", "otherAsk", "product", "toBuy",
    "wantsToBuy", "words"})),
  \* preciso de um celular até sexta
  Only(Dated("needs", {"device", "someDevice", "words"}, <<"sexta">>, 0)),
  \* Vocês trocam a bateria do iPhone 12?
  Only(Say("repair", {"apple", "assistance", "catalogAsked", "conditionSignal", "device",
    "ownedCatalog", "part", "product", "repair", "upgradeDetail", "words"})),
  \* Tem marcas de uso?
  Only(Say("condition", {"conditionAsked", "detail", "words"})),
  \* Consegue fazer um desconto no valor?
  Only(Say("haggles", {"haggles", "priceAsked", "words"})),
  \* compensa pegar esse?
  Only(Say("advice", {"advice", "pickupVerb", "short", "words"})),
  \* Quais as formas de pagamento?
  Only(Say("pays", {"payAsked", "payWays", "words"})),
  \* Me manda o formulário de avaliação
  Only(Say("askForm", {"exchangeWords", "form", "ownedCatalog", "words"})),
  \* O que preciso preencher?
  Only(Say("askFields", {"fields", "words"})),
  \* dar o 11 de entrada
  Only(Say("gives11", {"exchange", "exchangePhrase", "exchangeWords", "exchanging", "followup",
    "ownedCatalog", "theEntry", "words"})),
  \* iPhone 13 128gb
  Only(Say("answersModel", {"apple", "capacity", "catalogAsked", "device", "modelAnswer",
    "modelCapacity", "otherAsk", "product", "upgradeDetail", "words"})),
  \* A tela já foi trocada?
  Only(Say("state", {"assistance", "conditionAsked", "conditionSignal", "ownedCatalog", "part",
    "replacedDetail", "stateAsked", "upgradeDetail", "words"})),
  \* a picture alone [iPhone 13 com bateria 88%]
  Seen(Say("picture", {}), {"apple", "batteryPercent", "catalogAsked", "condition",
    "conditionSignal", "detail", "device", "otherAsk", "part", "product", "upgradeDetail",
    "words"}, {}),
  \* na troca? [Celular Samsung Galaxy]
  Seen(Say("pictureOther", {"exchange", "exchangePhrase", "exchangeWords", "exchanging",
    "followup", "ownedCatalog", "words"}), {"device", "nonApple", "words"}, {}),
  \* tenho interesse nesse [iPhone 15 Pro 256gb lacrado]
  Seen(Say("pictureWants", {"buyerInterest", "mine", "place", "words"}), {"apple", "capacity",
    "catalogAsked", "device", "model", "otherAsk", "product", "upgradeDetail", "words"}, {15}),
  \* tem algum desses disponível ainda? [iPhone 15 Pro 256gb lacrado]
  Seen(Say("pictureStock", {"future", "imageAsked", "words"}), {"apple", "capacity",
    "catalogAsked", "device", "model", "otherAsk", "product", "upgradeDetail", "words"}, {15}),
  \* está fora do meu orçamento
  Only(Say("overBudget", {"mine", "overBudget", "words"})),
  \* obrigado
  Only(Say("thanks", {"thanks", "words"})),
  \* Quero comprar o 17 Pro Max disponível, quanto dariam em um iPhone 1...
  Only(Naming("seventeen", {"apple", "buybackPrice", "capacity", "catalogAsked", "condition",
    "conditionSignal", "detail", "device", "future", "liked", "line17", "model", "modelCapacity",
    "otherAsk", "part", "paysFor", "priceAsked", "product", "stock", "toBuy", "upgradeDetail",
    "wantsToBuy", "words"}, {17})),
  \* Quero comprar o 17 Pro Max, tem disponível?
  Only(Naming("line17", {"catalogAsked", "future", "liked", "line17", "model", "otherAsk",
    "product", "toBuy", "wantsToBuy", "words"}, {17})),
  \* Quanto dariam em um iPhone 14 128gb com 90% de bateria?
  Only(Say("paysFor", {"apple", "buybackPrice", "capacity", "catalogAsked", "condition",
    "conditionSignal", "detail", "device", "modelCapacity", "part", "paysFor", "priceAsked",
    "product", "upgradeDetail", "words"})),
  \* estava vendo um iPhone com vocês, era 4500
  Only(Say("recall", {"amount", "apple", "catalogAsked", "device", "product", "recall", "sale",
    "sellsApple", "words", "worth"})),
  \* vocês só trabalham com seminovos?
  Only(Say("policy", {"device", "policyAsked", "words"})),
  \* Qual a garantia?
  Only(Say("warranty", {"warranty", "warrantyAsked", "words"})),
  \* é meu primeiro iPhone e pretendo comprar um
  Only(Say("someModel", {"apple", "catalogAsked", "device", "liked", "mine", "personal",
    "product", "someModel", "toBuy", "wantsToBuy", "words"})),
  \* 13 ou 14 Pro, qual foto vocês têm com entrada?
  Only(Naming("two", {"ambiguous", "catalogAsked", "exchangeWords", "model", "photos", "product",
    "words"}, {14}))}

(* About the store.                                                        *)
StoreMessages == {
  \* sim
  Only(Say("yes", {"short", "words", "yes", "yesDay", "yesForward"})),
  \* Posso ir na loja amanhã?
  Only(Dated("mayGo", {"address", "visit", "words"}, <<"amanha">>, 0)),
  \* na verdade sexta-feira
  Only(Dated("friday", {"words"}, <<"sexta">>, 0)),
  \* às 10h
  Only(Dated("at10", {"words"}, <<>>, 10)),
  \* vocês estão abertos hoje?
  Only(Dated("openToday", {"statusMarker", "words"}, <<"hoje">>, 0)),
  \* consegue reservar pra mim?
  Only(Say("reserve", {"reserve", "words"})),
  \* sábado às 10h
  Only(Dated("saturday", {"words"}, <<"sabado">>, 10)),
  \* onde fica a loja?
  Only(Say("where", {"address", "words"})),
  \* não dá tempo de ir na loja
  Only(Say("cannot", {"cannotVisit", "short", "words"})),
  \* dia 15 às 10h
  Only(Dated("dated", {"words"}, <<"data">>, 10)),
  \* pode reservar pra sexta às 15h?
  Only(Dated("reserveFriday", {"reserve", "words"}, <<"sexta">>, 15)),
  \* vocês entregam?
  Only(Say("delivery", {"delivery", "words"})),
  \* qual a taxa de entrega?
  Only(Say("fee", {"delivery", "fee", "words"})),
  \* moro no Batel
  Only(Say("batel", {"place", "words"})),
  \* posso retirar sexta às 10h?
  Only(Dated("pickup", {"pickupVerb", "words"}, <<"sexta">>, 10)),
  \* que dia é hoje?
  Only(Dated("whatDay", {"whatDay", "words"}, <<"hoje">>, 0)),
  \* Posso ir na loja 03/11/2026 às 10h?
  Only(Dated("mayGoDate", {"address", "visit", "words"}, <<"03/11/2026">>, 10)),
  \* 12h30 / 11/11
  Only(Dated("shortDate", {"words"}, <<"11/11">>, 12)),
  \* 31/11 às 10h
  Only(Dated("noDate", {"words"}, <<"31/11">>, 10)),
  \* pode reservar pra segunda da próxima semana às 15h?
  Only(Dated("reserveMonday", {"reserve", "words"}, <<"segunda", "proximaSemana">>, 15)),
  \* segunda da semana que vem
  Only(Dated("nextMonday", {"words"}, <<"segunda", "semanaQueVem">>, 0))}

(* The dates in numbers that they write.  Day 0 is Monday 02/11/2026, and  *)
(* there is no 31/11.                                                      *)
StoreDates == "03/11/2026" :> {1} @@ "11/11" :> {9, 374} @@ "31/11" :> {}
StoreFullDates == {"03/11/2026"}

(* What is written without the bot: a device offered, a                    *)
(* reservation asked for; by the store the form and a question for the day. *)
HeldTexts == {m.text : m \in {n \in DeviceMessages \cup StoreMessages : n.text.name \in {"profile"}}}
HeldDays == {m.text : m \in {n \in StoreMessages : n.text.name \in {"reserve"}}}
PeopleOnDevices == {Form}
PeopleOnVisits == {SomeDay("whichDay")}

(* What the language model may write about devices and about the store.    *)
ModelOnDevices == {
  \* Claro! Como posso ajudar?
  Say("talk", {"question"}),
  \* Podemos avaliar seu iPhone e usar como entrada.
  Say("valued", {"apple", "device", "evaluation", "looksTrade", "saleWords", "tradeOffer",
    "tradeTalk", "tradeWords"}),
  \* Qual aparelho você quer oferecer na troca?
  Say("offerQuestion", {"device", "offerQuestion", "question", "tradeTalk", "tradeWords"}),
  \* Para avaliar seu iPhone, qual é o modelo e a capacidade?
  Say("detailsQuestion", {"apple", "detailsQuestion", "device", "evaluation", "looksTrade",
    "productFacts", "question"}),
  \* Posso enviar as fotos do aparelho?
  Say("photos", {"device", "photoOffer", "question"}),
  \* Para concluir, preencha os dados da lista de avaliação com suas respostas.
  Say("list", {"evaluation", "formPending", "tradeWords"}),
  \* ... IMEI ...
  Say("secret", {"restricted"})}
ModelOnVisits == {
  \* Qual dia você prefere vir à loja?
  SomeDay("modelDay"),
  \* Posso encaminhar você para um atendente?
  Say("modelForward", {"forward", "question"})}
=============================================================================
