---------------------------- MODULE ContactIdentity ----------------------------
(***************************************************************************)
(* How the robot knows that two callbacks are of one contact.  Z-API names *)
(* a chat by a phone number, by the number without its ninth digit, or by  *)
(* a WhatsApp LID.  The webhook resolves a callback to one phone, keeps    *)
(* the aliases, and gives an idle conversation the newer phone; worker and *)
(* attendants look conversations up through the aliases.                   *)
(* resolve_callback_phone and _find_conversation                           *)
(* (src/app/storage/database.py), callback_phone_aliases                   *)
(* (src/app/adapters/zapi.py), the webhook (src/app/main.py).              *)
(*                                                                         *)
(* A step is one transaction.  Batches are the pending events of a phone,  *)
(* their order, leases and retries are those of MessageQueue.              *)
(***************************************************************************)
EXTENDS Naturals, Sequences, FiniteSets

CONSTANTS
  Ids,        \* normalised numbers, phones and LIDs, ordered as their strings
  Twin,       \* the other form of a Brazilian mobile number, or None
  Contacts,   \* contacts, and the store's own account
  ContactOf,  \* whom a number belongs to
  Store,      \* the account the robot is connected to
  Events,     \* callbacks
  Callback,   \* the fields of a callback
  Budget      \* bound on attendants' actions and repeated deliveries

None == 0

ASSUME IdentityAssumption ==
  /\ Ids \subseteq Nat \ {None}
  /\ Twin \in [Ids -> Ids \cup {None}]
  /\ \A i \in Ids : Twin[i] # None => Twin[Twin[i]] = i
  /\ ContactOf \in [Ids -> Contacts] /\ Store \in Contacts
  /\ \A i \in Ids : Twin[i] # None => ContactOf[Twin[i]] = ContactOf[i]
  /\ Budget \in Nat
ASSUME CallbackAssumption ==
  \A e \in Events :
    /\ Callback[e].phone \in Ids /\ Callback[e].fromMe \in BOOLEAN
    /\ Callback[e].lids \in Seq(Ids) /\ Callback[e].senderLid \in Ids \cup {None}
(* What a callback declares is true, and a message is sent by the store or *)
(* by the contact it names.                                                *)
ASSUME TruthAssumption ==
  \A e \in Events :
    LET c == ContactOf[Callback[e].phone] IN
    /\ c # Store
    /\ \A n \in DOMAIN Callback[e].lids : ContactOf[Callback[e].lids[n]] = c
    /\ ~Callback[e].fromMe /\ Callback[e].senderLid # None
         => ContactOf[Callback[e].senderLid] = c

VARIABLES
  phoneAlias, \* conversation_phone_aliases of type "phone"
  lidAlias,   \* ... of type "lid"
  conv,       \* conversations by phone: their status, "none" without a row
  phase,      \* where an event is on its way to the worker
  key,        \* the phone an event was resolved to
  worker,     \* the phone whose batch is processed, and the gate's verdict
  budget,
  attended,   \* history: contacts in the hands of attendants
  strained    \* history: contacts whose identifiers were used apart

vars == <<phoneAlias, lidAlias, conv, phase, key, worker, budget, attended, strained>>
aliases == <<phoneAlias, lidAlias>>
queue == <<phase, key>>
-----------------------------------------------------------------------------
Elements(s) == {s[i] : i \in DOMAIN s}
Some(S) == S \ {None}

(* phone_variants *)
Variants(i) == Some({i, Twin[i]})

(* Faulty variants (names starting with Bad) state plausible bugs of the   *)
(* definition after them; the properties must tell them from the code.     *)
BadLids(e) ==
  IF Callback[e].senderLid = None THEN Callback[e].lids
  ELSE Append(Callback[e].lids, Callback[e].senderLid)

(* callback_phone_aliases: the sender of a message that the store sent by  *)
(* hand is the store, so senderLid names the peer only in the other        *)
(* direction.                                                              *)
Lids(e) ==
  IF Callback[e].fromMe \/ Callback[e].senderLid = None THEN Callback[e].lids
  ELSE Append(Callback[e].lids, Callback[e].senderLid)

(* _find_conversation: the conversation the aliases of a number lead to,   *)
(* else the one of the number itself, else the one of its other form.      *)
Find(i) ==
  LET led == {c \in Some({phoneAlias[v] : v \in Variants(i)}) \ Variants(i) :
                conv[c] # "none"}
      own == {v \in Variants(i) : conv[v] # "none"}
  IN IF led # {} THEN CHOOSE c \in led : \A d \in led : c <= d
     ELSE IF i \in own THEN i
     ELSE IF own # {} THEN Twin[i]
     ELSE None

(* The phone under which a lookup that creates what is missing ends. *)
Place(i) == IF Find(i) = None THEN i ELSE Find(i)

Of(c) == {i \in Ids : ContactOf[i] = c /\ conv[i] # "none"}
Sender(e) == ContactOf[Callback[e].phone]

Init ==
  /\ phoneAlias = [i \in Ids |-> None]
  /\ lidAlias = [i \in Ids |-> None]
  /\ conv = [i \in Ids |-> "none"]
  /\ phase = [e \in Events |-> "new"]
  /\ key = [e \in Events |-> None]
  /\ worker = [phone |-> None, gate |-> "idle"]
  /\ budget = Budget
  /\ attended = {}
  /\ strained = {}
-----------------------------------------------------------------------------
(* The webhook. *)

(* A pending or processing batch of a phone. *)
Active(i) == \E e \in Events : key[e] = i /\ phase[e] \in {"pending", "processing"}

(* One of the events is of the contact and has not been answered yet. *)
Busy(c, events) ==
  \E e \in events : Sender(e) = c /\ phase[e] \in {"resolved", "pending", "processing"}

(* What the first known LID of a callback leads to; empty if none is known.*)
FirstLinked(e) ==
  LET lids == Lids(e) IN
  {lidAlias[lids[n]] : n \in {m \in DOMAIN lids :
     /\ lidAlias[lids[m]] # None
     /\ \A k \in DOMAIN lids : k < m => lidAlias[lids[k]] = None}}

BadCanonical(e) == Callback[e].phone

(* A message of the customer is keyed by the phone it shows; one of the    *)
(* store by the phone its number, or else its LID, is known to lead to.    *)
Canonical(e) ==
  LET i == Callback[e].phone
      known == {v \in Variants(i) : phoneAlias[v] # None}
  IN IF ~Callback[e].fromMe THEN i
     ELSE IF i \in known THEN phoneAlias[i]
     ELSE IF known # {} THEN phoneAlias[Twin[i]]
     ELSE IF FirstLinked(e) # {} THEN CHOOSE c \in FirstLinked(e) : TRUE
     ELSE i

(* The phones that the LIDs of a customer's message were known by.         *)
OldPhones(e) ==
  IF Callback[e].fromMe THEN {}
  ELSE LET lids == Elements(Lids(e))
           i == Callback[e].phone
       IN (Some({lidAlias[l] : l \in lids}) \cup
           Some({phoneAlias[l] : l \in lids}) \cup
           {l \in lids : phoneAlias[l] = None /\ conv[l] # "none"}) \ {i}

BadMovable(old) == {o \in old : conv[o] = "bot_active" /\ ~Active(o)}

(* _rekey_idle_conversation: those without a batch on its way. *)
Movable(old) == {o \in old : conv[o] # "none" /\ ~Active(o)}

BadLearn(e) ==
  LET i == Callback[e].phone
      canonical == Canonical(e)
  IN
  /\ phoneAlias' = [j \in Ids |-> IF j \in Variants(i) THEN canonical ELSE phoneAlias[j]]
  /\ lidAlias' = [l \in Ids |->
       IF l \in Elements(Lids(e)) THEN canonical ELSE lidAlias[l]]

(* The aliases of the old phones follow, then the callback's own. *)
Learn(e) ==
  LET i == Callback[e].phone
      old == OldPhones(e)
      canonical == Canonical(e)
  IN
  /\ phoneAlias' = [j \in Ids |->
       IF j \in Variants(i) THEN canonical
       ELSE IF phoneAlias[j] \in old \/ \E o \in old : j \in Variants(o) THEN i
       ELSE phoneAlias[j]]
  /\ lidAlias' = [l \in Ids |->
       IF l \in Elements(Lids(e)) THEN canonical
       ELSE IF lidAlias[l] \in old THEN i
       ELSE lidAlias[l]]

(* One old conversation, if there is none yet, gets the new phone; which   *)
(* one of several depends on the order of a Python set.                    *)
Rekey(e) ==
  LET i == Callback[e].phone
      movable == Movable(OldPhones(e))
  IN
  \/ /\ conv[i] = "none"
     /\ \E o \in movable : conv' = [conv EXCEPT ![i] = conv[o], ![o] = "none"]
  \/ /\ conv[i] # "none" \/ movable = {}
     /\ UNCHANGED conv

(* resolve_callback_phone, for a first delivery or one after a request     *)
(* that died before the event was stored.                                  *)
Resolve(e) ==
  /\ phase[e] \in {"new", "resolved"}
  /\ Learn(e)
  /\ Rekey(e)
  /\ phase' = [phase EXCEPT ![e] = "resolved"]
  /\ key' = [key EXCEPT ![e] = Canonical(e)]
  /\ strained' = IF OldPhones(e) # {} /\ Busy(Sender(e), Events \ {e})
                 THEN strained \cup {Sender(e)} ELSE strained
  /\ UNCHANGED <<worker, budget, attended>>

(* The provider repeats a callback that was queued: it is resolved again,  *)
(* and then found to be queued already.                                    *)
Redeliver(e) ==
  /\ budget > 0
  /\ phase[e] \in {"pending", "processing", "done"}
  /\ Learn(e)
  /\ Rekey(e)
  /\ budget' = budget - 1
  /\ strained' = IF OldPhones(e) # {} /\ Busy(Sender(e), Events)
                 THEN strained \cup {Sender(e)} ELSE strained
  /\ UNCHANGED <<phase, key, worker, attended>>

(* register_inbound_event_and_enqueue: the event joins the pending batch   *)
(* of the phone it was resolved to.                                        *)
Queue(e) ==
  /\ phase[e] = "resolved"
  /\ phase' = [phase EXCEPT ![e] = "pending"]
  /\ UNCHANGED <<aliases, conv, key, worker, budget, attended, strained>>
-----------------------------------------------------------------------------
(* The worker, one batch at a time. *)

Batch(i) == {e \in Events : key[e] = i /\ phase[e] = "pending"}

(* The messages are stored in the conversation that the phone leads to,    *)
(* and its status decides whether the agent is asked; a batch with a       *)
(* message of the store may leave nothing to answer, one of nothing else   *)
(* always does.                                                            *)
BeginBatch(i) ==
  LET place == Place(i)
      customers == {e \in Batch(i) : ~Callback[e].fromMe} IN
  /\ worker.phone = None
  /\ Batch(i) # {}
  /\ conv' = [conv EXCEPT ![place] = IF @ = "none" THEN "bot_active" ELSE @]
  /\ phase' = [e \in Events |-> IF e \in Batch(i) THEN "processing" ELSE phase[e]]
  /\ \E gate \in {"answer", "hold"} :
       /\ gate = "answer" => customers # {} /\ conv'[place] = "bot_active"
       /\ gate = "hold" => conv'[place] # "bot_active" \/ customers # Batch(i)
       /\ worker' = [phone |-> i, gate |-> gate]
  /\ UNCHANGED <<aliases, key, budget, attended, strained>>

(* The answer opens a conversation if there is none; the agent may hand    *)
(* the contact over (claim_human_handoff).                                 *)
EndBatch ==
  LET i == worker.phone
      place == Place(i) IN
  /\ i # None
  /\ worker' = [phone |-> None, gate |-> "idle"]
  /\ phase' = [e \in Events |-> IF phase[e] = "processing" THEN "done" ELSE phase[e]]
  /\ \/ /\ conv' = IF worker.gate = "answer" /\ conv[place] = "none"
                   THEN [conv EXCEPT ![place] = "bot_active"] ELSE conv
        /\ UNCHANGED attended
     \/ /\ worker.gate = "answer" /\ conv[place] = "bot_active"
        /\ conv' = [conv EXCEPT ![place] = "human_pending"]
        /\ attended' = attended \cup {ContactOf[i]}
  /\ UNCHANGED <<aliases, key, budget, strained>>
-----------------------------------------------------------------------------
BadSetStatus(i, status) ==
  /\ budget > 0
  /\ ContactOf[i] # Store
  /\ budget' = budget - 1
  /\ conv' = [conv EXCEPT ![Place(i)] = IF status = "closed" THEN "close" ELSE status]
  /\ UNCHANGED <<aliases, queue, worker, attended, strained>>

(* set_conversation_status: an attendant names a contact by a number, in   *)
(* WhatsApp or by choosing a conversation in the panel.                    *)
SetStatus(i, status) ==
  /\ budget > 0
  /\ ContactOf[i] # Store
  /\ budget' = budget - 1
  /\ conv' = [conv EXCEPT ![Place(i)] = status]
  /\ attended' = IF status = "bot_active" THEN attended \ {ContactOf[i]}
                 ELSE attended \cup {ContactOf[i]}
  /\ strained' = IF Find(i) = None THEN strained \cup {ContactOf[i]} ELSE strained
  /\ UNCHANGED <<aliases, queue, worker>>

Next ==
  \/ \E e \in Events : Resolve(e) \/ Redeliver(e) \/ Queue(e)
  \/ \E i \in Ids : BeginBatch(i)
  \/ EndBatch
  \/ \E i \in Ids, status \in {"human_active", "closed", "bot_active"} :
       SetStatus(i, status)

Spec == Init /\ [][Next]_vars
-----------------------------------------------------------------------------
(* Properties. *)

(* Every variable has its type. *)
TypeOK ==
  /\ phoneAlias \in [Ids -> Ids \cup {None}]
  /\ lidAlias \in [Ids -> Ids \cup {None}]
  /\ conv \in [Ids -> {"none", "bot_active", "human_pending", "human_active",
                    "closed"}]
  /\ phase \in [Events -> {"new", "resolved", "pending", "processing", "done"}]
  /\ key \in [Events -> Ids \cup {None}]
  /\ worker \in [phone : Ids \cup {None}, gate : {"idle", "answer", "hold"}]
  /\ budget \in 0 .. Budget
  /\ attended \subseteq Contacts /\ strained \subseteq Contacts

(* Whatever callbacks say of LIDs, also of the store's own, no number is   *)
(* ever led to the conversation of another contact, and no message is      *)
(* keyed by a phone of another contact.                                    *)
ContactsStaySeparate ==
  /\ \A i \in Ids : Find(i) # None => ContactOf[Find(i)] = ContactOf[i]
  /\ \A e \in Events : key[e] # None => ContactOf[key[e]] = Sender(e)

(* Lookups follow one alias, so where callbacks declare the LID they know  *)
(* aliases must be flat: the phone an alias leads to leads to itself,      *)
(* after any sequence of switches.                                         *)
AliasesAreFlat ==
  \A i \in Ids :
    /\ phoneAlias[i] # None => phoneAlias[phoneAlias[i]] = phoneAlias[i]
    /\ lidAlias[i] # None => phoneAlias[lidAlias[i]] = lidAlias[i]

(* A contact whose callbacks declare its LID has one conversation under    *)
(* all its numbers, unless a link between two numbers was learned while a  *)
(* message of the contact was on its way, or an attendant opened a         *)
(* conversation for an unknown number.                                     *)
OneConversationWhenIdle ==
  \A c \in Contacts \ strained : Cardinality(Of(c)) <= 1

(* ... and then the bot does not answer a contact that attendants have,    *)
(* whichever number the next message shows.                                *)
AttendedContactUnanswered ==
  [][\A i \in Ids : worker.phone = None /\ worker'.phone = i /\ worker'.gate = "answer"
       => ContactOf[i] \notin attended \ strained]_vars

=============================================================================
