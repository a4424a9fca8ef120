------------------------------ MODULE MCOffers ------------------------------
(***************************************************************************)
(* Two used units and a sealed row of one model, one unit of another;      *)
(* messages that name a product, a detail of it, or only ask to go on.     *)
(***************************************************************************)
EXTENDS Offers

Base == [number |-> 13, variant |-> ""]
Pro == [number |-> 13, variant |-> "pro"]
Unit(id, model, capacity, colour, battery, price) ==
  [id |-> id, model |-> model, capacity |-> capacity, colour |-> colour, battery |-> battery,
   sealed |-> FALSE, sheet |-> FALSE, price |-> price, sale |-> TRUE]
MCStock ==
  {Unit(1, Base, "128", "blue", 90, 2000), Unit(2, Base, "128", "pink", 80, 2000),
   [Unit(3, Base, "128", "white", 0, 3000) EXCEPT !.sheet = TRUE, !.sealed = TRUE],
   Unit(4, Pro, "256", "blue", 85, 3000)}

Saying(models, colours) ==
  [NoWords EXCEPT !.models = models, !.names = UNION {Written(m) : m \in models}, !.colours = colours]
Asking(words) == [wants |-> "table", both |-> FALSE, entry |-> 0, words |-> words, parts |-> {}]
Several(words, parts) == [Asking(words) EXCEPT !.parts = parts]
Photos(words) == [Asking(words) EXCEPT !.wants = "photos"]
MCMessages ==
  {Asking(Saying({Base}, {})), Asking(Saying({Base}, {"blue"})),
   Several(Then(Saying({Base, Pro}, {}), InCondition("used")),
           {Saying({Base}, {}), Then(Saying({Pro}, {}), InCondition("used"))}),
   Asking([Saying({Base, Pro}, {}) EXCEPT !.names = Written(Base)]),
   Asking([NoWords EXCEPT !.plain = TRUE]),
   Asking(Then(Saying({Base}, {}), InCondition("sealed"))),
   Asking(InCondition("used")), Asking(InCondition("sealed")), Asking(NoWords),
   Asking([NoWords EXCEPT !.prices = {2000}]), Asking(Capacity("256")),
   [Asking(Then(Saying({Base}, {}), InCondition("used"))) EXCEPT !.both = TRUE],
   [Asking(NoWords) EXCEPT !.entry = 500], [Asking(Saying({Pro}, {})) EXCEPT !.entry = 2500],
   Photos(Saying({Base}, {})), Photos(Saying({}, {"pink"})), Photos(Saying({Base}, {"blue"})),
   Photos(Saying({Base, Pro}, {})), Photos(Then(Capacity("256"), InCondition("used"))),
   [Asking(NoWords) EXCEPT !.wants = "sealed"], [Asking(NoWords) EXCEPT !.wants = "promotion"]}

(* A word of each name, the capacity and the colour of a row; "normal" is  *)
(* also a word of the second unit's description.                           *)
MCOverlap(q, r) ==
  20 * (Cardinality({n \in q.names : n.model.number = r.model.number})
        + Cardinality(q.capacities \cap {r.capacity}) + Cardinality(q.colours \cap {r.colour})
        + (IF r.id = 2 /\ q.plain THEN 1 ELSE 0))
=============================================================================
