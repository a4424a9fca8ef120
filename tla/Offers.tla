------------------------------- MODULE Offers -------------------------------
(***************************************************************************)
(* The answers about one product: instalment tables and photos             *)
(* (src/app/agent_handlers/payments.py, photos.py).  A turn takes the      *)
(* product from the message and the history, asks the catalog, one or      *)
(* several times, and while it waits the stock changes, prices change and  *)
(* the photo lookups of other turns come back.                             *)
(***************************************************************************)
EXTENDS CatalogQuery, Installments, SequencesExt

CONSTANTS
  Conversations,
  Messages,     \* [wants, both, entry, words, parts]: what a customer may send, and
                \* the parts of its words when separators tell several models apart;
                \* wants is "table", "photos", "sealed" (photos of a device made to
                \* order) or "promotion" (photos of the iPhones on sale)
  Stock,        \* the rows of the stock and of the sheet at the start
  Filed,        \* rows whose photos were fetched before
  NewPrices,    \* what a unit may be repriced to
  MaxTurns,     \* messages answered
  MaxChanges    \* sales, returns and price changes

ASSUME OffersAssumption ==
  /\ IsFiniteSet(Stock) /\ NewPrices \subseteq Nat
  /\ \A r \in Stock :
       /\ r = [id |-> r.id, model |-> r.model, capacity |-> r.capacity, colour |-> r.colour,
               battery |-> r.battery, sealed |-> r.sealed, sheet |-> r.sheet, price |-> r.price,
               sale |-> r.sale]
       /\ r.price \in Nat
       /\ \A u \in Stock : r.id = u.id => r = u
  /\ \A m \in Messages :
       /\ m = [wants |-> m.wants, both |-> m.both, entry |-> m.entry, words |-> m.words,
               parts |-> m.parts]
       /\ m.entry \in Nat
       /\ \A w \in m.parts \cup {m.words} :
            /\ Unsaid \notin w.capacities
            /\ w.condition = Unsaid <=> w.conditions = {}
       /\ IsFiniteSet(m.parts)
       /\ \A part \in m.parts : part.models # {} /\ part.conditions \subseteq m.words.conditions

VARIABLES rows, filed, failed, history, turn, answer, turns, changes
vars == <<rows, filed, failed, history, turn, answer, turns, changes>>

NoMessage == [wants |-> "nothing", both |-> FALSE, entry |-> 0, words |-> NoWords, parts |-> {}]
Idle == [step |-> "idle", msg |-> NoMessage, todo |-> <<>>, found |-> {}, left |-> {},
         urls |-> {}, blank |-> {}, shown |-> {}, sections |-> <<>>]
NoAnswer == [kind |-> "none", msg |-> NoMessage, query |-> NoWords, found |-> {},
             sections |-> <<>>, rows |-> {}, unseen |-> {}, blank |-> {}]

Init ==
  /\ rows = Stock /\ filed = Filed /\ failed = {}
  /\ history = [c \in Conversations |-> <<>>]
  /\ turn = [c \in Conversations |-> Idle]
  /\ answer = [c \in Conversations |-> NoAnswer]
  /\ turns = 0 /\ changes = 0
-----------------------------------------------------------------------------
(* What the history says of the product.                                   *)
Said(h) == {i \in DOMAIN h : h[i].from = "customer"}
Told(h) == {i \in DOMAIN h : h[i].from = "store"}
Sole(capacities) == IF Cardinality(capacities) = 1 THEN CHOOSE c \in capacities : TRUE ELSE Unsaid

(* The customer's last condition for a product that is still the one meant. *)
LastCondition(w, h) ==
  LET Read(acc, e) ==
        LET customer == e.from = "customer"
            names == e.words.models # {}
            models == IF names /\ (customer \/ acc.models = {}) THEN e.words.models ELSE acc.models
            chosen == IF "sealed" \in e.words.conditions THEN "sealed" ELSE "used"
        IN [models |-> models,
            condition |-> IF customer /\ e.words.conditions # {}
                          THEN IF w.models \cap models # {} THEN chosen ELSE Unsaid
                          ELSE IF customer /\ names THEN Unsaid ELSE acc.condition]
  IN FoldLeft(Read, [models |-> {}, condition |-> Unsaid], h).condition
HistoryCondition(w, h) ==
  IF w.conditions # {} \/ w.models = {} THEN Unsaid ELSE LastCondition(w, h)

(* The card of the one offer whose price the customer quoted, if any.      *)
SelectedOffer(h) ==
  LET quotes == {i \in Said(h) : h[i].words.prices # {}}
      at == Max(quotes)
      Quoted(j) == {card \in h[j].cards : card.prices = h[at].words.prices}
      offers == {j \in Told(h) : j < at /\ Quoted(j) # {}}
  IN IF \/ quotes = {} \/ offers = {}
        \/ \E i \in Said(h) : i > at /\ h[i].words.models # {}
        \/ Cardinality(Quoted(Max(offers))) # 1
     THEN {} ELSE Quoted(Max(offers))

(* The last message of the customer that picked one model in some detail.  *)
Picked(h) ==
  {i \in Said(h) :
     LET w == h[i].words
     IN /\ Cardinality(w.models) = 1
        /\ Cardinality(w.capacities) = 1 \/ w.battery # 0 \/ w.colours # {} \/ w.conditions # {}}

(* All that the customer's last four messages say.                         *)
Lately(h) ==
  LET customers == SelectSeq(h, LAMBDA e : e.from = "customer")
      last == SubSeq(customers, Max({1, Len(customers) - 3}), Len(customers))
  IN FoldRight(LAMBDA e, acc : Then(e.words, acc), last, NoWords)

InstallmentContextQuery(w, h) ==
  LET hint == Hint(Sole(w.capacities))
      offer == SelectedOffer(h)
      shown == {i \in Told(h) : h[i].words.models # {}}
      seen == IF shown = {} THEN NoWords ELSE h[Max(shown)].words
  IN IF w.models # {} THEN Then(hint, Then(w, InCondition(HistoryCondition(w, h))))
     ELSE IF offer # {} THEN Then(hint, Then(CHOOSE card \in offer : TRUE, w))
     ELSE IF Picked(h) # {}
     THEN LET p == h[Max(Picked(h))].words
              size == Either(Sole(w.capacities),
                             Either(Sole(p.capacities), Sole(seen.capacities), Unsaid), Unsaid)
          IN Then(Hint(size), Then(p, Then(InCondition(HistoryCondition(p, h)), w)))
     ELSE IF shown # {}
     THEN Then(Hint(Either(Sole(w.capacities), Sole(seen.capacities), Unsaid)), Then(seen, w))
     ELSE Then(hint, Then(Lately(h), w))

Recalled(entries, h) ==
  FoldRight(LAMBDA i, acc : Then(h[i].words, acc), SetToSortSeq(entries, <), NoWords)

(* The customer's product and the store's answer about it, as far as the   *)
(* last six of these texts reach (the message is one of them); the capacity *)
(* and the colour of the message itself come first.  No message here picks *)
(* a row of a list, a price, a variant left open or one of several models  *)
(* by a word alone, which the code looks for before.                       *)
ProductContextQuery(w, h, strip) ==
  LET anchors == {i \in Said(h) : h[i].words.models # {}}
      anchor == IF anchors = {} THEN 1 ELSE Max(anchors)
      cards == {i \in Told(h) : i >= anchor /\ h[i].words.models # {}}
      card == IF strip THEN [h[Max(cards)].words EXCEPT !.conditions = {}, !.condition = Unsaid]
              ELSE h[Max(cards)].words
      users == {i \in Said(h) : i > anchor \/ (i = anchor /\ (cards = {} \/ Cardinality(h[i].words.models) = 1))}
      last == {i \in users : Cardinality({j \in users : j > i}) < 5}
      context == IF w.models # {} THEN w
                 ELSE Then(Recalled(last, h), w)
  IN Then(Mark(Sole(w.colours)),
          Then(Hint(Sole(w.capacities)),
               IF w.models # {} \/ cards = {} \/ Cardinality(users) > 4 THEN context
               ELSE Then(card, context)))
-----------------------------------------------------------------------------
(* What a text of the store says when it is read again.                    *)
Written(model) == {[model |-> model, brand |-> TRUE]}
Label(r) == [Capacity(r.capacity) EXCEPT !.models = {r.model}, !.names = Written(r.model)]
Card(r) == [Then(InCondition(Unsaid), Capacity(r.capacity)) EXCEPT
              !.models = {r.model}, !.names = Written(r.model), !.colours = {r.colour},
              !.battery = r.battery, !.prices = {r.price}]
Wording(r) == IF IsSealed(r) THEN "sealed" ELSE "used"
Labelled(r) == [Then(Card(r), InCondition(Wording(r))) EXCEPT !.colours = {}]
Header(r) == [Label(r) EXCEPT !.prices = {0, r.price}]
(* Of the labels "Opcao seminova (bateria 90%)" and "Opcao novo lacrado por *)
(* encomenda" only the second one reads as a condition.                    *)
ConditionLabel(r) ==
  IF IsSealed(r) THEN InCondition("sealed") ELSE [NoWords EXCEPT !.battery = r.battery]
Picture(r) == [Label(r) EXCEPT !.colours = {r.colour}]

Cards(said) ==
  CASE said.kind = "which" -> {Card(r) : r \in said.rows}
    [] said.kind = "tables" -> {Labelled(r) : r \in UNION {s.of : s \in Range(said.sections)}}
    [] OTHER -> {}

(* Texts one below the other, in the order in which the answer has them.   *)
Together(texts) == {FoldLeft(Then, NoWords, order) : order \in SetToSeqs(texts)}
Headers(said) == {Header(s.row) : s \in Range(said.sections)}
Headed(said) ==
  UNION {{Then(IF said.kind = "tables" THEN Labelled(r) ELSE ConditionLabel(r), Header(s.row)) :
            r \in s.of} : s \in Range(said.sections)}
(* A part of the message that got no table is named in its own sentence.   *)
Untabled(said) ==
  {[NoWords EXCEPT !.models = part.models, !.names = UNION {Written(m) : m \in part.models}] :
     part \in {p \in said.msg.parts : \A s \in Range(said.sections) : s.row.model \notin p.models}}
Bullets(said) ==
  IF said.msg.wants = "photos"
  THEN {Then([text EXCEPT !.models = {r.model}, !.names = Written(r.model)], InCondition(Wording(r))) :
          text \in Together({Picture(u) : u \in said.rows}), r \in said.rows}
  ELSE {[text EXCEPT !.models = {r.model : r \in said.rows}] :
          text \in Together({Card(r) : r \in said.rows})}
Texts(said) ==
  CASE said.kind = "table" -> Together(Headers(said))
    [] said.kind = "models" -> Together(Headers(said) \cup Untabled(said))
    [] said.kind \in {"tables", "conditions"} -> Together(Headed(said))
    [] said.kind = "which" -> Bullets(said)
    [] said.kind = "sealed" -> {InCondition("sealed")}
    [] said.msg.wants = "promotion" -> {InCondition("used")}
    [] said.kind = "photos" /\ said.msg.wants = "photos" /\ Cardinality(said.query.models) < 2 ->
         Together({Label(r) : r \in said.rows})
    [] OTHER -> Together({Picture(r) : r \in said.rows})
-----------------------------------------------------------------------------
(* The searches of a turn: the first, and what each leads to.              *)
Ask(q) == [query |-> q, of |-> {}]
Waiting(step, msg, todo) == [Idle EXCEPT !.step = step, !.msg = msg, !.todo = todo]

Segments(msg, h) ==
  {Ask(Then(part, InCondition(HistoryCondition(msg.words, h)))) : part \in msg.parts}
First(msg, h) ==
  LET w == msg.words
      photos == ProductContextQuery(w, h, FALSE)
  IN IF msg.wants = "photos"
     THEN Waiting(IF Cardinality(photos.models) > 1 THEN "batch" ELSE "finder", msg, <<Ask(photos)>>)
     ELSE IF msg.wants \in {"sealed", "promotion"}
     THEN Waiting(msg.wants, msg, <<Ask(InCondition("used"))>>)
     ELSE IF msg.entry = 0 /\ msg.parts # {}
     THEN Waiting("models", msg, SetToSeq(Segments(msg, h)))
     ELSE Waiting(IF msg.entry > 0 THEN "entry" ELSE "table", msg, <<Ask(InstallmentContextQuery(w, h))>>)

Query(t) == t.todo[1].query
Goes(t) == [turn |-> t, said |-> NoAnswer]
Says(t, kind, sections, which) ==
  [turn |-> Idle,
   said |-> [NoAnswer EXCEPT !.kind = kind, !.msg = t.msg, !.query = Query(t), !.found = t.found,
                             !.sections = sections, !.rows = which, !.blank = t.blank]]
Section(of, r, entry) == [of |-> of, row |-> r, entry |-> entry]
Override(t) == IF t.step \in {"table", "entry", "conditions"} THEN t.msg.words.condition ELSE Unsaid
Found(t) == SelectPricedCandidate(Query(t), Override(t), t.found)

(* A used and a sealed unit of one product: a table of each.               *)
Conditions(t, h) ==
  LET used == {r \in t.shown : ~IsSealed(r)}
      q == InstallmentContextQuery(t.msg.words, h)
  IN IF /\ Cardinality(t.shown) = 2 /\ Cardinality(used) = 1 /\ q.conditions = {}
        /\ Cardinality({<<r.model, r.capacity>> : r \in t.shown}) = 1
     THEN {Goes([Waiting("conditions", t.msg,
                         <<[query |-> Then(q, InCondition("used")), of |-> used],
                           [query |-> Then(q, InCondition("sealed")), of |-> t.shown \ used]>>)
                 EXCEPT !.shown = t.shown])}
     ELSE {Says(t, "which", <<>>, t.shown)}

(* "os dois": a table of each candidate, asked for by its own label.       *)
Both(t, h) ==
  LET Own(r) == [query |-> [Labelled(r) EXCEPT !.colours = {r.colour}, !.prices = {}], of |-> {r}]
  IN IF t.msg.both /\ Cardinality(t.shown) = 2
     THEN {Goes([Waiting("tables", t.msg, SetToSeq({Own(r) : r \in t.shown}))
                 EXCEPT !.shown = t.shown])}
     ELSE Conditions(t, h)

Table(t, s, h) ==
  CASE s.kind = "row" -> {Says(t, "table", <<Section(s.rows, r, 0)>>, {}) : r \in s.rows}
    [] s.kind = "which" -> Both([t EXCEPT !.shown = s.rows], h)
    [] OTHER -> {Says(t, "nothing", <<>>, {})}

(* Candidates of one price and one description stand for each other; when  *)
(* no entry table comes out, the rule for a plain table takes the message. *)
Entry(t, s, h) ==
  LET alike == Cardinality({<<r.model, r.capacity, IsSealed(r), r.price>> : r \in s.rows}) = 1
      paid == {r \in s.rows : EntryAccepted(r.price, t.msg.entry)}
  IN IF alike /\ paid # {} THEN {Says(t, "table", <<Section({r}, r, t.msg.entry)>>, {}) : r \in paid}
     ELSE IF s.kind = "which" THEN {Says(t, "which", <<>>, s.rows)}
     ELSE {Goes(First([t.msg EXCEPT !.entry = 0], h))}

BadEach(t, s, h) ==
  LET done == Append(t.sections, Section(t.todo[1].of, CHOOSE r \in s.rows : TRUE, 0))
  IN IF s.kind # "row" THEN Conditions(t, h)
     ELSE IF Len(t.todo) = 1 THEN {Says(t, t.step, done, {})}
     ELSE {Goes([Waiting(t.step, t.msg, Tail(t.todo)) EXCEPT !.shown = t.shown, !.sections = done])}
Each(t, s, h) ==
  LET done == Append(t.sections, Section(t.todo[1].of, CHOOSE r \in s.rows : TRUE, 0))
      holds == /\ s.kind = "row"
               /\ t.step = "tables" => \A r \in s.rows, l \in t.todo[1].of : r.price = l.price
  IN IF t.step = "models" /\ s.kind # "row" /\ Len(t.todo) > 1
     THEN {Goes([Waiting(t.step, t.msg, Tail(t.todo)) EXCEPT !.sections = t.sections])}
     ELSE IF t.step = "models" /\ s.kind # "row" THEN {Says(t, t.step, t.sections, {})}
     ELSE IF ~holds THEN IF t.step = "tables" THEN Conditions(t, h) ELSE {Says(t, "which", <<>>, t.shown)}
     ELSE IF Len(t.todo) = 1 THEN {Says(t, t.step, done, {})}
     ELSE {Goes([Waiting(t.step, t.msg, Tail(t.todo)) EXCEPT !.shown = t.shown, !.sections = done])}
-----------------------------------------------------------------------------
(* Photos.  A unit without photos is handed to an attendant, unless its    *)
(* lookup failed: then the customer may ask again.                         *)
Shows(t, units, failedNow) ==
  LET sent == {r \in units : r.id \in t.urls}
      missing == {r \in units \ sent : r.id \notin failedNow}
  IN [Says(t, IF units = sent THEN "photos" ELSE IF missing # {} THEN "missing" ELSE "retry",
           <<>>, units) EXCEPT !.said.unseen = missing]

MadeToOrder(r) == r.sheet
OneUnit(t, r, failedNow) ==
  IF MadeToOrder(r) THEN Says(t, "sealed", <<>>, {}) ELSE Shows(t, {r}, failedNow)

(* The best of the rows that were found, used ones first.                  *)
ExactCandidates(q, found) ==
  LET fit == {r \in found : /\ OfCondition(r, q.condition) /\ OfModel(r, q)
                            /\ q.capacities # {} => r.capacity \in q.capacities}
      best == {r \in Best(q, fit) : Score(q, r, TRUE) > 0}
      used == {r \in best : ~IsSealed(r)}
  IN IF q.condition = Unsaid /\ used # {} THEN used ELSE best

Finder(t, failedNow, h) ==
  LET words == t.msg.words
      relaxed == ProductContextQuery(words, h, TRUE)
  IN IF t.found # {} THEN {OneUnit(t, r, failedNow) : r \in t.found}
     ELSE {Goes(IF /\ t.step = "finder" /\ Cardinality(words.colours) = 1
                   /\ words.condition = Unsaid /\ relaxed # Query(t)
                THEN Waiting("relaxed", t.msg, <<Ask(relaxed)>>)
                ELSE Waiting("fallback", t.msg, <<Ask(ProductContextQuery(words, h, FALSE))>>))}

Fallback(t, failedNow) ==
  LET units == ExactCandidates(Query(t), t.found)
  IN IF units = {}
     THEN {Says(t, IF Query(t).condition = "sealed" THEN "sealed" ELSE "nothing", <<>>, {})}
     ELSE IF Cardinality(units) = 1 THEN {OneUnit(t, r, failedNow) : r \in units}
     ELSE IF /\ Cardinality({r.capacity : r \in units}) = 1
             /\ \A r \in units : ~IsSealed(r) /\ r.colour \notin t.msg.words.colours
             /\ \E r \in units : r.id \in t.urls
     THEN {Says(t, "photos", <<>>, {r \in units : r.id \in t.urls})}
     ELSE {Says(t, "which", <<>>, units)}

(* Several models at once: every unit that fits, or when more is said the  *)
(* best of each model and capacity.                                        *)
Batch(t, failedNow) ==
  LET q == Query(t)
      fit == {r \in t.found : /\ OfCondition(r, q.condition)
                              /\ q.capacities # {} => r.capacity \in q.capacities}
      Same(r) == {u \in fit : u.model = r.model
                              /\ (q.capacities # {} => u.capacity = r.capacity)}
      units == IF q.capacities = {} /\ q.battery = 0 /\ q.colours = {} THEN fit
               ELSE {r \in fit : r \in Best(q, Same(r))}
  IN IF units = {} THEN {Says(t, "nothing", <<>>, {})} ELSE {Shows(t, units, failedNow)}

(* "fotos dos iphones em promocao": of all the used ones that have photos. *)
Promotion(t) ==
  LET shown == {r \in t.found : ~IsSealed(r) /\ IsAvailable(r) /\ r.id \in t.urls}
  IN {Says(t, IF shown = {} THEN "nothing" ELSE "photos", <<>>, shown)}

Conclude(t, h, failedNow) ==
  CASE t.step \in {"finder", "relaxed"} -> Finder(t, failedNow, h)
    [] t.step = "fallback" -> Fallback(t, failedNow)
    [] t.step = "batch" -> Batch(t, failedNow)
    [] t.step = "sealed" -> {Says(t, "sealed", <<>>, {})}
    [] t.step = "promotion" -> Promotion(t)
    [] t.step = "table" -> UNION {Table(t, s, h) : s \in Found(t)}
    [] t.step = "entry" -> UNION {Entry(t, s, h) : s \in Found(t)}
    [] OTHER -> UNION {Each(t, s, h) : s \in Found(t)}
-----------------------------------------------------------------------------
Receive(c, msg) ==
  /\ turn[c] = Idle /\ turns < MaxTurns
  /\ turns' = turns + 1
  /\ turn' = [turn EXCEPT ![c] = First(msg, history[c])]
  /\ UNCHANGED <<rows, filed, failed, history, answer, changes>>

(* The photos of a row come from the cache, or from a lookup the turn      *)
(* waits for; with the last one the turn is concluded without a pause.     *)
Ids(units) == {r.id : r \in units}
Settle(c, t, filedNow, failedNow) ==
  LET kept == {r \in t.left : r.id \notin filedNow}
      errors == failedNow \ Ids(t.left \ kept)
      seen == [t EXCEPT !.left = kept, !.urls = @ \cup Ids(t.left \ kept)]
  IN /\ filed' = filedNow /\ failed' = errors
     /\ IF kept # {} THEN /\ turn' = [turn EXCEPT ![c] = seen]
                          /\ UNCHANGED <<history, answer>>
        ELSE \E out \in Conclude(seen, history[c], errors) :
               /\ turn' = [turn EXCEPT ![c] = out.turn]
               /\ IF out.said = NoAnswer THEN UNCHANGED <<history, answer>>
                  ELSE /\ answer' = [answer EXCEPT ![c] = out.said]
                       /\ \E text \in Texts(out.said) :
                            history' = [history EXCEPT ![c] = @ \o
                              <<[from |-> "customer", kind |-> "message",
                                 words |-> out.said.msg.words, cards |-> {}],
                                [from |-> "store", kind |-> out.said.kind, words |-> text,
                                 cards |-> Cards(out.said)]>>]
     /\ UNCHANGED <<rows, turns, changes>>

Results(t) ==
  LET q == Query(t)
  IN CASE t.step \in {"finder", "relaxed"} -> {FindProductPhotos(q, rows)}
       [] t.step = "fallback" -> {sealed \cup found : sealed \in FirstRows(q, {r \in rows : r.sheet}, 5),
                                                      found \in Search(q, rows, 5)}
       [] t.step = "sealed" -> {{}}
       [] t.step \in {"batch", "promotion"} -> Search(q, rows, Cardinality(rows))
       [] OTHER -> Search(q, rows, SearchLimit)

Consult(c) ==
  /\ turn[c] # Idle /\ turn[c].left = {}
  /\ \E found \in Results(turn[c]) :
       Settle(c, [turn[c] EXCEPT !.found = found, !.left = {r \in found : ~r.sheet}], filed, failed)

BadLookup(c) ==
  \E r \in turn[c].left, outcome \in {"files", "empty", "error"} :
    LET t == [turn[c] EXCEPT !.left = @ \ {r},
                             !.urls = IF outcome = "files" THEN @ \cup {r.id} ELSE @,
                             !.blank = IF outcome = "empty" THEN @ \cup {r} ELSE @]
    IN Settle(c, t, IF outcome = "files" THEN filed \cup {r.id} ELSE filed, failed \ {r.id})
Lookup(c) ==
  \E r \in turn[c].left, outcome \in {"files", "empty", "error"} :
    LET t == [turn[c] EXCEPT !.left = @ \ {r},
                             !.urls = IF outcome = "files" THEN @ \cup {r.id} ELSE @,
                             !.blank = IF outcome = "empty" THEN @ \cup {r} ELSE @]
    IN Settle(c, t, IF outcome = "files" THEN filed \cup {r.id} ELSE filed,
              IF outcome = "error" THEN failed \cup {r.id} ELSE failed \ {r.id})

(* A refreshed snapshot: a unit is sold or returned, or has another price. *)
Change ==
  /\ changes < MaxChanges /\ changes' = changes + 1
  /\ \E r \in rows :
       \E now \in {[r EXCEPT !.sale = ~@]} \cup {[r EXCEPT !.price = p] : p \in NewPrices} :
         rows' = (rows \ {r}) \cup {now}
  /\ UNCHANGED <<filed, failed, history, turn, answer, turns>>

Next ==
  \/ Change
  \/ \E c \in Conversations :
       \/ \E msg \in Messages : Receive(c, msg)
       \/ Consult(c)
       \/ Lookup(c)
Spec == Init /\ [][Next]_vars
-----------------------------------------------------------------------------
Tables(a) == Range(a.sections)
Shown(a) == {s.row : s \in Tables(a)} \cup a.rows

(* Every instalment table charges at least the balance, more for more      *)
(* instalments, its parcels add up to the total within a rounding cent     *)
(* each, and with an entry the customer never pays more than without one   *)
(* (installments.py).                                                      *)
TableIsFair ==
  \A c \in Conversations : \A s \in Tables(answer[c]) : \A n \in Counts :
    LET balance == Remaining(s.row.price, s.entry)
        total == TablePrice(s.row.price, s.entry, n)
    IN /\ s.entry = 0 \/ EntryAccepted(s.row.price, s.entry)
       /\ total >= balance /\ (n > 1 => total >= Total(balance, n - 1))
       /\ 2 * (Parcel(balance, n) * n - total) \in -(n + 1)..(n + 1)
       /\ s.entry + total <= Total(s.row.price, n)

(* Whatever was said before, a unit that an answer shows is of a model and *)
(* of the condition that the message names (with several models, its own   *)
(* part of the message), and of its capacity.  A variant stands in for a   *)
(* model in photos of a named colour.  Searches for several models and     *)
(* those by a label do not narrow by capacity, photos not by one that an   *)
(* earlier message named as well; photos of a promotion, for which no      *)
(* model is named, are of used units whatever else the message says.       *)
SaidOf(r, a) ==
  IF a.kind = "models" THEN {part \in a.msg.parts : r.model \in part.models} ELSE {a.msg.words}
StandsIn(r, a) ==
  /\ a.msg.wants = "photos" /\ a.query.colours # {}
  /\ \E m \in a.msg.words.models : IsVariant(r, m)
AnswersKeepTheWords ==
  \A c \in Conversations : LET a == answer[c] IN
    a.msg.wants # "promotion" => \A r \in Shown(a) : \E w \in SaidOf(r, a) :
      /\ w.models # {} => r.model \in w.models \/ StandsIn(r, a)
      /\ Cardinality(w.conditions) = 1 => OfCondition(r, w.condition)
      /\ \/ Cardinality(w.capacities) # 1 \/ a.kind \in {"models", "tables"}
         \/ r.capacity \in (IF a.msg.wants = "photos" THEN a.query.capacities ELSE w.capacities)

(* A table of one unit is sent rather than of another priced one that the  *)
(* search found only for something in the words in play: a selector that   *)
(* fits this unit and not the other, a name written in full ("13 pro e pro *)
(* max" gives the 13 Pro), or more words of its description.  Nothing said *)
(* makes the code take a row of the sheet before a unit of the stock, by   *)
(* the 80 points it adds.  Whenever none of these holds, the units are     *)
(* listed and the customer chooses.  With an entry, one unit stands for    *)
(* those of its price, and for the ones a list of candidates has no room   *)
(* for.                                                                    *)
NamedBefore(q, r, u) ==
  \E n \in q.names : /\ Begins(r.model, n.model)
                     /\ ~Begins(u.model, n.model) \/ Length(u.model) < Length(r.model)
ToldApart(q, r, u) ==
  \/ NamedBefore(q, r, u)
  \/ q.plain /\ r.model.variant = Normal /\ u.model.variant # Normal
  \/ r.capacity = q.hint /\ u.capacity # q.hint
  \/ r.colour \in q.colours /\ u.colour \notin q.colours
  \/ r.colour = q.mark /\ u.colour # q.mark
  \/ q.battery # 0 /\ r.battery = q.battery /\ u.battery # q.battery
  \/ q.prices = {r.price} /\ u.price # r.price
  \/ q.condition # Unsaid /\ OfCondition(r, q.condition) /\ ~OfCondition(u, q.condition)
  \/ Overlap(q, r) > Overlap(q, u)
OrderedFirst(r, u) == r.sheet /\ ~u.sheet
NoSilentChoice ==
  \A c \in Conversations : LET a == answer[c] IN
    a.kind = "table" =>
      \A s \in Tables(a), u \in a.found :
        \/ u.price = 0 \/ u = s.row
        \/ ToldApart(a.query, s.row, u) \/ OrderedFirst(s.row, u)
        \/ s.entry > 0 /\ (u.price = s.row.price \/ Cardinality(a.found) > CandidateLimit)

(* With "os dois", each table is of a unit with the model, the condition,  *)
(* the battery and the price that the label above it states.               *)
BothTablesMatchLabels ==
  \A c \in Conversations : answer[c].kind = "tables" =>
    \A s \in Tables(answer[c]) : \A l \in s.of :
      /\ s.row.model = l.model /\ s.row.price = l.price /\ (IsSealed(s.row) <=> IsSealed(l))
      /\ l.battery # 0 => s.row.battery = l.battery

(* An attendant is called for the photos of a unit of the stock only when  *)
(* the photo service itself said, in this turn, that there are none.       *)
MissingIsConfirmed ==
  \A c \in Conversations : {r \in answer[c].unseen : ~r.sheet} \subseteq answer[c].blank
=============================================================================
