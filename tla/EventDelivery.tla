--------------------------- MODULE EventDelivery ----------------------------
(***************************************************************************)
(* What the durable queue promises for each callback it stores, without    *)
(* batches, leases, attempts or time: an event is stored, queued, then     *)
(* answered or abandoned for good, and it is answered only when its        *)
(* processing ended without an exception.  MessageQueue implements it.     *)
(***************************************************************************)
CONSTANTS Events
VARIABLES stage, handled

vars == <<stage, handled>>

Stages == {"new", "stored", "queued", "answered", "abandoned"}

In(s) == {e \in Events : stage[e] = s}

(* Events of an older release may be queued already. *)
Init == /\ stage \in [Events -> {"new", "queued"}]
        /\ handled = {}

Move(S, s) == stage' = [e \in Events |-> IF e \in S THEN s ELSE stage[e]]

Store(e) == /\ e \in In("new")
            /\ Move({e}, "stored")
            /\ UNCHANGED handled

Queue(e) == /\ e \in In("stored")
            /\ Move({e}, "queued")
            /\ UNCHANGED handled

(* Processing may end late, when another worker has settled the events. *)
Handle(S) == /\ S \cap (In("new") \cup In("stored")) = {}
             /\ handled' = handled \cup S
             /\ UNCHANGED stage

Answer(S) == /\ S \subseteq In("queued") \cap handled
             /\ Move(S, "answered")
             /\ UNCHANGED handled

Abandon(S) == /\ S \subseteq In("queued")
              /\ Move(S, "abandoned")
              /\ UNCHANGED handled

Next == \/ \E e \in Events : Store(e) \/ Queue(e)
        \/ \E S \in SUBSET Events : Handle(S) \/ Answer(S) \/ Abandon(S)

Spec == Init /\ [][Next]_vars
=============================================================================
