---------------------------- MODULE CatalogQuery ----------------------------
(***************************************************************************)
(* How the words of a customer select rows of the catalog                  *)
(* (src/app/adapters/catalog_cache.py).  A text is the record of the       *)
(* selectors that the code reads in it, a row of the stock or of the sheet *)
(* of sealed devices a record of its attributes.                           *)
(***************************************************************************)
EXTENDS Integers, FiniteSets, FiniteSetsExt

CONSTANTS
  SearchLimit,     \* rows a priced search keeps
  CandidateLimit,  \* rows an ambiguous answer lists
  Overlap(_, _)    \* points of a text for a row whose description holds its words:
                   \* a number, whatever the description is

ASSUME LimitAssumption == SearchLimit \in Nat \ {0} /\ CandidateLimit \in Nat \ {0}

(* Unsaid: nothing said.  models are the ones meant, names those written in *)
(* full, with the brand or without; plain: "normal", "comum" or "base".    *)
(* first is the first capacity in the text, hint the one that "capacidade  *)
(* solicitada" puts there; battery and condition are the last ones; mark   *)
(* is the colour of "foto_cor_atual".                                      *)
Unsaid == "any"
NoWords == [models |-> {}, names |-> {}, plain |-> FALSE, capacities |-> {}, first |-> Unsaid,
            hint |-> Unsaid, colours |-> {}, mark |-> Unsaid, battery |-> 0, conditions |-> {},
            condition |-> Unsaid, prices |-> {}]

Either(a, b, nothing) == IF a = nothing THEN b ELSE a

(* Text a followed by text b: of some words every one counts, of some the  *)
(* last, of the others the first.                                          *)
Then(a, b) ==
  [f \in DOMAIN NoWords |->
     CASE f \in {"names", "capacities", "colours", "conditions", "prices"} -> a[f] \cup b[f]
       [] f \in {"models", "battery", "condition"} -> Either(b[f], a[f], NoWords[f])
       [] OTHER -> Either(a[f], b[f], NoWords[f])]

Capacity(c) == [NoWords EXCEPT !.capacities = {c} \ {Unsaid}, !.first = c]
Hint(c) == [Capacity(c) EXCEPT !.hint = c]
InCondition(c) == [NoWords EXCEPT !.conditions = {c} \ {Unsaid}, !.condition = c]
Mark(colour) == [NoWords EXCEPT !.colours = {colour} \ {Unsaid}, !.mark = colour]
-----------------------------------------------------------------------------
IsSealed(row) == row.sheet \/ row.sealed
IsAvailable(row) == row.sheet \/ row.sale
OfCondition(row, condition) == condition = Unsaid \/ (IsSealed(row) <=> condition = "sealed")
OfModel(row, q) == q.models = {} \/ row.model \in q.models

(* A search is narrowed by a condition only when the text names just one.  *)
AvailabilityCondition(q) == IF Cardinality(q.conditions) = 1 THEN q.condition ELSE Unsaid

(* A model is found in a name that begins with its own: "13" and "13 pro"  *)
(* in "13 pro max".  The longer name earns more.                           *)
Normal == ""
Begins(m, n) ==
  /\ m.number = n.number
  /\ \/ m.variant \in {Normal, n.variant}
     \/ m.variant = "pro" /\ n.variant = "proMax"
Length(m) == IF m.variant = Normal THEN 1 ELSE IF m.variant = "proMax" THEN 3 ELSE 2
Named(m, names) == \E n \in names : Begins(m, n.model)
Branded(names) == {n \in names : n.brand}

(* What a row earns for each selector it meets, in colours of one word; a  *)
(* single price counts only to tell units apart.                           *)
Worth(met, points) == IF met THEN points ELSE 0
Score(q, row, matchPrice) ==
  Overlap(q, row)
  + Worth(Branded(q.names) # {}, 40)
  + Worth(Named(row.model, Branded(q.names)), 525 + 25 * Length(row.model))
  + Worth(Named(row.model, q.names), 450 + 25 * Length(row.model))
  + Worth(q.plain /\ row.model.variant = Normal, 150)
  + Worth(row.capacity = q.hint, 1000)
  + Worth(row.colour = q.mark, 1020) + Worth(q.mark = Unsaid /\ row.colour \in q.colours, 320)
  + Worth(q.battery # 0 /\ row.battery = q.battery, 400)
  + Worth(matchPrice /\ q.prices = {row.price}, 200)
  + Worth(row.sheet, 80)

(* The first n rows by score, rows of one score in any order.              *)
FirstRows(q, rows, n) ==
  {top \in kSubset(Min({n, Cardinality(rows)}), rows) :
     \A r \in top, t \in rows \ top : Score(q, r, FALSE) >= Score(q, t, FALSE)}
Best(q, rows) == {r \in rows : \A t \in rows : Score(q, r, TRUE) >= Score(q, t, TRUE)}

Matching(q, rows) ==
  {r \in rows : /\ IsAvailable(r) /\ OfModel(r, q) /\ Score(q, r, FALSE) > 0
                /\ OfCondition(r, AvailabilityCondition(q))}
Search(q, rows, limit) == FirstRows(q, Matching(q, rows), limit)
-----------------------------------------------------------------------------
(* One unit for a photo request, or none: a variant of the model stands in *)
(* for it only when the text singles out a colour.                         *)
IsVariant(row, m) == m.variant = Normal /\ row.model.number = m.number
PhotoModels(q, rows) ==
  LET exact == {r \in rows : OfModel(r, q)}
      related == {r \in rows : \E m \in q.models : IsVariant(r, m)}
  IN IF exact # {} THEN exact
     ELSE IF Cardinality({r.colour : r \in related} \cap q.colours) = 1 THEN related
     ELSE {}

PhotoCapacity(q) == IF q.hint = Unsaid /\ q.mark = Unsaid THEN q.first ELSE q.hint

FindProductPhotos(q, rows) ==
  LET units == {r \in rows : /\ ~r.sheet /\ IsAvailable(r)
                             /\ OfCondition(r, q.condition)}
      sized == {r \in PhotoModels(q, units) : PhotoCapacity(q) \in {Unsaid, r.capacity}}
      best == {r \in Best(q, sized) : Score(q, r, TRUE) > 0}
  IN IF Cardinality(best) = 1 THEN best ELSE {}
-----------------------------------------------------------------------------
(* The unit an instalment table is for.                                    *)
Selected(r) == [kind |-> "row", rows |-> {r}]
Which(rows) == [kind |-> "which", rows |-> rows]
NotFound == [kind |-> "none", rows |-> {}]

BadNarrowed(q, override, found) == {r \in found : r.price > 0 /\ q.hint \in {Unsaid, r.capacity}}
Narrowed(q, override, found) ==
  LET priced == {r \in found : r.price > 0 /\ OfCondition(r, override)}
      sized == {r \in priced : q.hint \in {Unsaid, r.capacity}}
      charged == {r \in sized : r.battery = q.battery}
  IN IF q.battery = 0 \/ (charged = {} /\ q.hint # Unsaid) THEN sized ELSE charged

(* A used and a sealed unit of one product, and nothing said about which.  *)
ConditionPair(q, rows) ==
  /\ Cardinality(rows) = 2 /\ q.conditions = {}
  /\ \E r, t \in rows : IsSealed(r) /\ ~IsSealed(t)
                        /\ r.model = t.model /\ r.capacity = t.capacity
  /\ Cardinality({r \in rows : q.prices = {r.price}}) # 1

BadSelectPricedCandidate(q, override, found) ==
  LET kept == Narrowed(q, override, found)
  IN IF kept = {} THEN {NotFound} ELSE {Selected(r) : r \in Best(q, kept)}
SelectPricedCandidate(q, override, found) ==
  LET kept == Narrowed(q, override, found)
      best == Best(q, kept)
  IN IF kept = {} THEN {NotFound}
     ELSE IF ConditionPair(q, kept) \/ Cardinality(best) > 1
     THEN {Which(top) : top \in FirstRows(q, kept, CandidateLimit)}
     ELSE {Selected(r) : r \in best}
=============================================================================
