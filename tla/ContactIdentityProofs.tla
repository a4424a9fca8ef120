------------------------- MODULE ContactIdentityProofs -------------------------
(***************************************************************************)
(* Theorems about ContactIdentity, for any numbers, callbacks and orders   *)
(* in which the callbacks come: its types, and that no number ever leads   *)
(* to another contact's conversation.  Where the callbacks of a contact    *)
(* declare its LID (LinksDeclared) also: aliases are flat, a contact has   *)
(* one conversation, and the bot does not answer an attended contact.      *)
(***************************************************************************)
EXTENDS ContactIdentity, TLAPS, FiniteSetTheorems

(* The strengthening: every alias stays with its contact.                  *)
AliasesStaySeparate ==
  \A i \in Ids :
    /\ phoneAlias[i] # None => ContactOf[phoneAlias[i]] = ContactOf[i]
    /\ lidAlias[i] # None => ContactOf[lidAlias[i]] = ContactOf[i]

KeysStaySeparate == \A e \in Events : key[e] # None => ContactOf[key[e]] = Sender(e)

IdentityInv == TypeOK /\ AliasesStaySeparate /\ KeysStaySeparate
-----------------------------------------------------------------------------
(* The forms of a number, and the LIDs of a callback, are one contact's.   *)
LEMMA VariantsOfOneContact ==
  ASSUME NEW i \in Ids
  PROVE  /\ i \in Variants(i) /\ Variants(i) \subseteq Ids
         /\ \A v \in Variants(i) : ContactOf[v] = ContactOf[i]
         /\ \A v \in Variants(i) : v = i \/ v = Twin[i]
BY IdentityAssumption DEF Variants, Some, None

LEMMA LidsOfOneContact ==
  ASSUME NEW e \in Events
  PROVE  /\ Callback[e].phone \in Ids
         /\ Lids(e) \in Seq(Ids)
         /\ \A n \in DOMAIN Lids(e) : Lids(e)[n] \in Ids /\ ContactOf[Lids(e)[n]] = Sender(e)
<1> DEFINE c == Callback[e]
<1>1. /\ c.phone \in Ids /\ c.lids \in Seq(Ids) /\ c.senderLid \in Ids \cup {None}
      /\ \A n \in DOMAIN c.lids : c.lids[n] \in Ids /\ ContactOf[c.lids[n]] = Sender(e)
  BY CallbackAssumption, TruthAssumption DEF Sender
<1>2. CASE c.fromMe \/ c.senderLid = None
  BY <1>1, <1>2 DEF Lids
<1>3. CASE ~c.fromMe /\ c.senderLid # None
  <2>1. c.senderLid \in Ids /\ ContactOf[c.senderLid] = Sender(e)
    BY <1>1, <1>3, TruthAssumption DEF Sender
  <2>2. Lids(e) = Append(c.lids, c.senderLid)
    BY <1>3 DEF Lids
  <2> QED BY <1>1, <2>1, <2>2
<1> QED BY <1>2, <1>3

(* A lookup ends at a conversation, and at one of the same contact.        *)
LEMMA FindOfOneContact ==
  ASSUME TypeOK, AliasesStaySeparate, NEW i \in Ids
  PROVE  /\ Find(i) \in Ids \cup {None}
         /\ Find(i) # None => ContactOf[Find(i)] = ContactOf[i]
<1> DEFINE led == {c \in Some({phoneAlias[v] : v \in Variants(i)}) \ Variants(i) : conv[c] # "none"}
           own == {v \in Variants(i) : conv[v] # "none"}
<1>1. \A c \in led : c \in Ids /\ ContactOf[c] = ContactOf[i]
  BY VariantsOfOneContact DEF TypeOK, AliasesStaySeparate, Some
<1>2. CASE led # {}
  <2>1. \E c \in led : \A d \in led : c <= d
    <3> DEFINE p == phoneAlias[i]
               q == phoneAlias[Twin[i]]
    <3>1. \A d \in led : d \in Nat /\ (d = p \/ d = q)
      <4>1. \A d \in led : d \in Nat
        BY <1>1, IdentityAssumption
      <4>2. \A d \in led : d = p \/ d = q
        BY VariantsOfOneContact DEF Some
      <4> QED BY <4>1, <4>2
    <3> HIDE DEF led, p, q
    <3>2. CASE p \in led /\ q \in led
      BY <3>1, <3>2
    <3>3. CASE ~(p \in led /\ q \in led)
      BY <1>2, <3>1, <3>3
    <3> QED BY <3>2, <3>3
  <2>2. Find(i) \in led
    <3>1. Find(i) = CHOOSE c \in led : \A d \in led : c <= d
      BY <1>2 DEF Find
    <3> HIDE DEF led
    <3> QED BY <2>1, <3>1
  <2> QED BY <1>1, <2>2
<1>3. CASE led = {}
  <2>1. \/ Find(i) = i
        \/ own # {} /\ i \notin own /\ Find(i) = Twin[i]
        \/ Find(i) = None
    BY <1>3 DEF Find
  <2>2. own # {} /\ i \notin own => Twin[i] \in Variants(i)
    BY VariantsOfOneContact
  <2> QED BY <2>1, <2>2, VariantsOfOneContact
<1> QED BY <1>2, <1>3

LEMMA PlaceOfOneContact ==
  ASSUME TypeOK, AliasesStaySeparate, NEW i \in Ids
  PROVE  Place(i) \in Ids /\ ContactOf[Place(i)] = ContactOf[i]
BY FindOfOneContact DEF Place
-----------------------------------------------------------------------------
(* Types and separation hold at first.                                     *)
LEMMA InitIdentity == Init => IdentityInv
BY IdentityAssumption DEF Init, IdentityInv, TypeOK, AliasesStaySeparate, KeysStaySeparate, None

(* A callback is resolved to a phone of its contact.                       *)
LEMMA CanonicalOfOneContact ==
  ASSUME TypeOK, AliasesStaySeparate, NEW e \in Events
  PROVE  Canonical(e) \in Ids /\ ContactOf[Canonical(e)] = Sender(e)
<1> DEFINE i == Callback[e].phone
           known == {v \in Variants(i) : phoneAlias[v] # None}
<1>1. i \in Ids /\ Sender(e) = ContactOf[i]
  BY CallbackAssumption DEF Sender
<1>2. \A v \in known : phoneAlias[v] \in Ids /\ ContactOf[phoneAlias[v]] = ContactOf[i]
  BY <1>1, VariantsOfOneContact DEF TypeOK, AliasesStaySeparate
<1>3. i \notin known /\ known # {} => Twin[i] \in known
  BY <1>1, VariantsOfOneContact
<1>4. \A c \in FirstLinked(e) : c \in Ids /\ ContactOf[c] = Sender(e)
  BY LidsOfOneContact DEF FirstLinked, TypeOK, AliasesStaySeparate
<1>5. FirstLinked(e) # {} => (CHOOSE c \in FirstLinked(e) : TRUE) \in FirstLinked(e)
  OBVIOUS
<1>6. \/ Canonical(e) = i
      \/ i \in known /\ Canonical(e) = phoneAlias[i]
      \/ i \notin known /\ known # {} /\ Canonical(e) = phoneAlias[Twin[i]]
      \/ FirstLinked(e) # {} /\ Canonical(e) = CHOOSE c \in FirstLinked(e) : TRUE
  BY DEF Canonical
<1> HIDE DEF known, i
<1> QED BY <1>1, <1>2, <1>3, <1>4, <1>5, <1>6

(* The phones a customer was known by are the customer's.                  *)
LEMMA OldPhonesOfOneContact ==
  ASSUME TypeOK, AliasesStaySeparate, NEW e \in Events
  PROVE  \A o \in OldPhones(e) : o \in Ids /\ ContactOf[o] = Sender(e)
BY SMTT(30), LidsOfOneContact DEF OldPhones, Elements, Some, TypeOK, AliasesStaySeparate

(* What is learned keeps every alias with its contact.                     *)
LEMMA LearnKeepsAliases ==
  ASSUME TypeOK, AliasesStaySeparate, NEW e \in Events, Learn(e)
  PROVE  /\ phoneAlias' \in [Ids -> Ids \cup {None}]
         /\ lidAlias' \in [Ids -> Ids \cup {None}]
         /\ AliasesStaySeparate'
<1> DEFINE i == Callback[e].phone
           old == OldPhones(e)
           canonical == Canonical(e)
<1>1. i \in Ids /\ Sender(e) = ContactOf[i]
  BY CallbackAssumption DEF Sender
<1>2. canonical \in Ids /\ ContactOf[canonical] = ContactOf[i]
  BY <1>1, CanonicalOfOneContact
<1>3. \A o \in old : o \in Ids /\ ContactOf[o] = ContactOf[i]
  BY <1>1, OldPhonesOfOneContact
<1>4. \A l \in Elements(Lids(e)) : l \in Ids /\ ContactOf[l] = ContactOf[i]
  BY <1>1, LidsOfOneContact DEF Elements
<1>5. /\ phoneAlias \in [Ids -> Ids \cup {None}]
      /\ lidAlias \in [Ids -> Ids \cup {None}]
      /\ None \notin Ids
  BY IdentityAssumption DEF TypeOK
<1>6. /\ phoneAlias' = [j \in Ids |->
            IF j \in Variants(i) THEN canonical
            ELSE IF phoneAlias[j] \in old \/ \E o \in old : j \in Variants(o) THEN i
            ELSE phoneAlias[j]]
      /\ lidAlias' = [l \in Ids |->
            IF l \in Elements(Lids(e)) THEN canonical
            ELSE IF lidAlias[l] \in old THEN i
            ELSE lidAlias[l]]
  BY DEF Learn
<1> HIDE DEF i, old, canonical
<1>7. phoneAlias' \in [Ids -> Ids \cup {None}] /\ lidAlias' \in [Ids -> Ids \cup {None}]
  BY <1>1, <1>2, <1>5, <1>6
<1>8. ASSUME NEW j \in Ids, phoneAlias'[j] # None
      PROVE  ContactOf[phoneAlias'[j]] = ContactOf[j]
  <2>1. CASE j \in Variants(i)
    <3>1. ContactOf[j] = ContactOf[i]
      BY <1>1, <2>1, VariantsOfOneContact
    <3> QED BY <3>1, <2>1, <1>2, <1>6
  <2>2. CASE j \notin Variants(i) /\ phoneAlias[j] \in old
    <3>1. phoneAlias'[j] = i
      BY <1>6, <2>2
    <3>2. ContactOf[phoneAlias[j]] = ContactOf[j]
      BY <1>3, <1>5, <2>2 DEF AliasesStaySeparate
    <3> QED BY <3>1, <3>2, <1>3, <2>2
  <2>3. CASE j \notin Variants(i) /\ \E o \in old : j \in Variants(o)
    <3>1. phoneAlias'[j] = i
      BY <1>6, <2>3
    <3>2. PICK o \in old : j \in Variants(o)
      BY <2>3
    <3>3. ContactOf[j] = ContactOf[o]
      BY <1>3, <3>2, VariantsOfOneContact
    <3> QED BY <3>1, <3>3, <1>3
  <2>4. CASE /\ j \notin Variants(i) /\ phoneAlias[j] \notin old
             /\ ~\E o \in old : j \in Variants(o)
    <3>1. phoneAlias'[j] = phoneAlias[j]
      BY <1>6, <2>4
    <3> QED BY <1>8, <3>1 DEF AliasesStaySeparate
  <2> QED BY <2>1, <2>2, <2>3, <2>4
<1>9. ASSUME NEW l \in Ids, lidAlias'[l] # None
      PROVE  ContactOf[lidAlias'[l]] = ContactOf[l]
  <2>1. CASE l \in Elements(Lids(e))
    BY <2>1, <1>2, <1>4, <1>6
  <2>2. CASE l \notin Elements(Lids(e)) /\ lidAlias[l] \in old
    <3>1. lidAlias'[l] = i
      BY <1>6, <2>2
    <3>2. ContactOf[lidAlias[l]] = ContactOf[l]
      BY <1>3, <1>5, <2>2 DEF AliasesStaySeparate
    <3> QED BY <3>1, <3>2, <1>3, <2>2
  <2>3. CASE l \notin Elements(Lids(e)) /\ lidAlias[l] \notin old
    <3>1. lidAlias'[l] = lidAlias[l]
      BY <1>6, <2>3
    <3> QED BY <1>9, <3>1 DEF AliasesStaySeparate
  <2> QED BY <2>1, <2>2, <2>3
<1> QED BY <1>7, <1>8, <1>9 DEF AliasesStaySeparate
-----------------------------------------------------------------------------
Statuses == {"none", "bot_active", "human_pending", "human_active", "closed"}

(* A conversation that is moved takes its status along.                    *)
LEMMA RekeyKeepsStatuses ==
  ASSUME TypeOK, AliasesStaySeparate, NEW e \in Events, Rekey(e)
  PROVE  conv' \in [Ids -> Statuses]
<1>1. conv \in [Ids -> Statuses]
  BY DEF TypeOK, Statuses
<1>2. Movable(OldPhones(e)) \subseteq Ids
  BY OldPhonesOfOneContact DEF Movable
<1>3. \A o \in Ids : conv[o] \in Statuses
  BY <1>1
<1>4. CASE \E o \in Movable(OldPhones(e)) :
             conv' = [conv EXCEPT ![Callback[e].phone] = conv[o], ![o] = "none"]
  BY <1>1, <1>2, <1>3, <1>4 DEF Statuses
<1>5. CASE UNCHANGED conv
  BY <1>1, <1>5
<1> QED BY <1>4, <1>5 DEF Rekey

(* Every step keeps the strengthened invariant.                            *)
LEMMA NextIdentity == IdentityInv /\ [Next]_vars => IdentityInv'
<1> SUFFICES ASSUME IdentityInv, [Next]_vars PROVE IdentityInv'
  OBVIOUS
<1> USE DEF IdentityInv
<1>0. \A i \in Ids : ContactOf[i] \in Contacts
  BY IdentityAssumption
<1>e. \A e \in Events : Sender(e) \in Contacts
  BY <1>0, CallbackAssumption DEF Sender
<1>1. ASSUME NEW e \in Events, Resolve(e) PROVE IdentityInv'
  <2>1. Learn(e) /\ Rekey(e)
    BY <1>1 DEF Resolve
  <2>2. key' = [key EXCEPT ![e] = Canonical(e)]
    BY <1>1 DEF Resolve
  <2>3. TypeOK'
    <3>1. key' \in [Events -> Ids \cup {None}]
      BY <2>2, CanonicalOfOneContact DEF TypeOK
    <3>2. phase' \in [Events -> {"new", "resolved", "pending", "processing", "done"}]
      BY <1>1 DEF Resolve, TypeOK
    <3>3. strained' \subseteq Contacts
      BY <1>1, <1>e DEF Resolve, TypeOK
    <3>4. UNCHANGED <<worker, budget, attended>>
      BY <1>1 DEF Resolve
    <3> QED BY <2>1, <3>1, <3>2, <3>3, <3>4, LearnKeepsAliases, RekeyKeepsStatuses
            DEF TypeOK, Statuses
  <2>4. AliasesStaySeparate'
    BY <2>1, LearnKeepsAliases
  <2>5. KeysStaySeparate'
    BY <2>2, CanonicalOfOneContact DEF KeysStaySeparate, TypeOK, Sender
  <2> QED BY <2>3, <2>4, <2>5
<1>2. ASSUME NEW e \in Events, Redeliver(e) PROVE IdentityInv'
  <2>1. Learn(e) /\ Rekey(e) /\ UNCHANGED <<phase, key, worker, attended>>
    BY <1>2 DEF Redeliver
  <2>2. budget' \in 0 .. Budget
    BY <1>2, IdentityAssumption DEF Redeliver, TypeOK
  <2>3. strained' \subseteq Contacts
    BY <1>2, <1>e DEF Redeliver, TypeOK
  <2>4. TypeOK'
    BY <2>1, <2>2, <2>3, LearnKeepsAliases, RekeyKeepsStatuses DEF TypeOK, Statuses
  <2>5. AliasesStaySeparate'
    BY <2>1, LearnKeepsAliases
  <2>6. KeysStaySeparate'
    BY <2>1 DEF KeysStaySeparate, Sender
  <2> QED BY <2>4, <2>5, <2>6
<1>3. ASSUME NEW e \in Events, Queue(e) PROVE IdentityInv'
  BY <1>3 DEF Queue, aliases, TypeOK, AliasesStaySeparate, KeysStaySeparate, Sender
<1>4. ASSUME NEW i \in Ids, BeginBatch(i) PROVE IdentityInv'
  <2>1. UNCHANGED <<phoneAlias, lidAlias, key, budget, attended, strained>>
    BY <1>4 DEF BeginBatch, aliases
  <2>2. conv' \in [Ids -> Statuses]
    BY <1>4, PlaceOfOneContact DEF BeginBatch, TypeOK, Statuses
  <2>3. phase' \in [Events -> {"new", "resolved", "pending", "processing", "done"}]
    BY <1>4 DEF BeginBatch, TypeOK
  <2>4. worker' \in [phone : Ids \cup {None}, gate : {"idle", "answer", "hold"}]
    BY <1>4 DEF BeginBatch
  <2> QED BY <2>1, <2>2, <2>3, <2>4
          DEF TypeOK, AliasesStaySeparate, KeysStaySeparate, Sender, Statuses
<1>5. ASSUME EndBatch PROVE IdentityInv'
  <2>1. UNCHANGED <<phoneAlias, lidAlias, key, budget, strained>>
    BY <1>5 DEF EndBatch, aliases
  <2>2. worker.phone \in Ids
    BY <1>5 DEF EndBatch, TypeOK
  <2>3. conv' \in [Ids -> Statuses]
    BY <1>5, <2>2, PlaceOfOneContact DEF EndBatch, TypeOK, Statuses
  <2>4. phase' \in [Events -> {"new", "resolved", "pending", "processing", "done"}]
    BY <1>5 DEF EndBatch, TypeOK
  <2>5. worker' \in [phone : Ids \cup {None}, gate : {"idle", "answer", "hold"}]
    BY <1>5 DEF EndBatch
  <2>6. attended' \subseteq Contacts
    BY <1>5, <1>0, <2>2 DEF EndBatch, TypeOK
  <2> QED BY <2>1, <2>3, <2>4, <2>5, <2>6
          DEF TypeOK, AliasesStaySeparate, KeysStaySeparate, Sender, Statuses
<1>6. ASSUME NEW i \in Ids, NEW status \in {"human_active", "closed", "bot_active"},
             SetStatus(i, status)
      PROVE  IdentityInv'
  <2>1. UNCHANGED <<phoneAlias, lidAlias, phase, key, worker>>
    BY <1>6 DEF SetStatus, aliases, queue
  <2>2. conv' \in [Ids -> Statuses]
    BY <1>6, PlaceOfOneContact DEF SetStatus, TypeOK, Statuses
  <2>3. budget' \in 0 .. Budget
    BY <1>6, IdentityAssumption DEF SetStatus, TypeOK
  <2>4. attended' \subseteq Contacts /\ strained' \subseteq Contacts
    BY <1>6, <1>0 DEF SetStatus, TypeOK
  <2> QED BY <2>1, <2>2, <2>3, <2>4
          DEF TypeOK, AliasesStaySeparate, KeysStaySeparate, Sender, Statuses
<1>7. CASE UNCHANGED vars
  BY <1>7 DEF vars, TypeOK, AliasesStaySeparate, KeysStaySeparate, Sender
<1> QED BY <1>1, <1>2, <1>3, <1>4, <1>5, <1>6, <1>7 DEF Next

(* The strengthened invariant holds in every reachable state.              *)
THEOREM IdentityInvariant == Spec => []IdentityInv
BY InitIdentity, NextIdentity, PTL DEF Spec

(* Every variable keeps its type, for any numbers and callbacks.           *)
THEOREM TypeCorrect == Spec => []TypeOK
<1>1. IdentityInv => TypeOK
  BY DEF IdentityInv
<1> QED BY <1>1, IdentityInvariant, PTL

(* No number is ever led to another contact's conversation and no message  *)
(* is keyed by another contact's phone, whatever callbacks come, in any    *)
(* order and repeated.                                                     *)
THEOREM NumbersStaySeparate == Spec => []ContactsStaySeparate
<1>1. IdentityInv => ContactsStaySeparate
  BY FindOfOneContact DEF IdentityInv, KeysStaySeparate, ContactsStaySeparate
<1> QED BY <1>1, IdentityInvariant, PTL
-----------------------------------------------------------------------------
(* One conversation for each contact.                                      *)

(* How a contact is known: by one LID that each of its callbacks declares, *)
(* or without LIDs by one number in both of its forms.                     *)
ByLid(c, l) ==
  ContactOf[l] = c /\ \A e \in Events : Sender(e) = c => Elements(Lids(e)) = {l}
ByNumber(c, n) ==
  \A e \in Events : Sender(e) = c => Callback[e].phone \in Variants(n) /\ Lids(e) = <<>>
Fits(c, i) == ByLid(c, i) \/ ByNumber(c, i)
LinksDeclared == \A c \in Contacts : \E i \in Ids : Fits(c, i)

(* The phones that may have the conversation of a contact: the one that    *)
(* all its aliases lead to, or the forms of its number.                    *)
Homes(c, i) == IF ByLid(c, i) THEN {lidAlias[i]} \ {None} ELSE Variants(i)

AliasHome(c, i) ==
  \A j \in Ids : ContactOf[j] = c =>
    /\ phoneAlias[j] \in Homes(c, i) \cup {None}
    /\ lidAlias[j] \in Homes(c, i) \cup {None}
    /\ phoneAlias[j] # None => phoneAlias[phoneAlias[j]] = phoneAlias[j]
    /\ lidAlias[j] # None => phoneAlias[lidAlias[j]] = lidAlias[j]
    /\ ~ByLid(c, i) => /\ lidAlias[j] = None
                       /\ phoneAlias[j] # None => j \in Variants(i)

(* While nothing was learned in the middle of an answer, conversations and *)
(* the keys of events on their way are at home.                            *)
Waiting(e) == phase[e] \in {"resolved", "pending", "processing"}
ConvHome(c, i) ==
  c \notin strained =>
    /\ Of(c) \subseteq Homes(c, i)
    /\ \A j, k \in Of(c) : j = k
    /\ \A e \in Events : Sender(e) = c /\ Waiting(e) => key[e] \in Homes(c, i)

HomeInv == \A c \in Contacts, i \in Ids : Fits(c, i) => AliasHome(c, i) /\ ConvHome(c, i)

(* The worker has a batch, and attendants the conversation they attend.    *)
GateInv ==
  /\ worker.phone # None =>
       \E e \in Events : key[e] = worker.phone /\ phase[e] = "processing"
  /\ \A c \in attended \ strained : \E i \in Of(c) : conv[i] # "bot_active"

LEMMA VariantsOfForm ==
  ASSUME NEW n \in Ids, NEW v \in Variants(n)
  PROVE  v \in Ids /\ Variants(v) = Variants(n)
BY IdentityAssumption DEF Variants, Some, None

LEMMA HomesOfContact ==
  ASSUME NEW c \in Contacts, NEW i \in Ids, Fits(c, i), TypeOK, NEW h \in Homes(c, i)
  PROVE  h \in Ids /\ h # None /\ Homes(c, i) \subseteq Variants(h)
<1>1. None \notin Ids BY IdentityAssumption
<1>2. CASE ByLid(c, i)
  <2>1. h = lidAlias[i] /\ h # None /\ Homes(c, i) = {h} BY <1>2 DEF Homes
  <2>2. h \in Ids BY <2>1 DEF TypeOK
  <2> QED BY <2>1, <2>2, VariantsOfOneContact
<1>3. CASE ~ByLid(c, i)
  <2>1. h \in Variants(i) /\ Homes(c, i) = Variants(i) BY <1>3 DEF Homes
  <2> QED BY <1>1, <2>1, VariantsOfForm
<1> QED BY <1>2, <1>3

(* A lookup that finds something finds a conversation of the contact.      *)
LEMMA FindIsOf ==
  ASSUME TypeOK, AliasesStaySeparate, NEW i \in Ids, Find(i) # None
  PROVE  Find(i) \in Of(ContactOf[i])
<1> DEFINE led == {c \in Some({phoneAlias[v] : v \in Variants(i)}) \ Variants(i) : conv[c] # "none"}
           own == {v \in Variants(i) : conv[v] # "none"}
<1>1. Find(i) \in Ids /\ ContactOf[Find(i)] = ContactOf[i] BY FindOfOneContact
<1>2. conv[Find(i)] # "none"
  <2>1. CASE led # {}
    <3>1. Find(i) = CHOOSE c \in led : \A d \in led : c <= d BY <2>1 DEF Find
    <3>2. \E c \in led : \A d \in led : c <= d
      <4>1. \A d \in led : d \in Ids
        BY VariantsOfOneContact DEF TypeOK, Some
      <4>2. \A d \in led : d \in Nat /\ (d = phoneAlias[i] \/ d = phoneAlias[Twin[i]])
        BY <4>1, VariantsOfOneContact, IdentityAssumption DEF Some
      <4> HIDE DEF led
      <4> QED BY <2>1, <4>2
    <3>3. Find(i) \in led
      <4> HIDE DEF led
      <4> QED BY <3>1, <3>2
    <3> QED BY <3>3
  <2>2. CASE led = {}
    <3>1. \/ i \in own /\ Find(i) = i
          \/ i \notin own /\ own # {} /\ Find(i) = Twin[i]
          \/ Find(i) = None
      BY <2>2 DEF Find
    <3>2. i \notin own /\ own # {} => Twin[i] \in own BY VariantsOfOneContact
    <3> QED BY <3>1, <3>2
  <2> QED BY <2>1, <2>2
<1> QED BY <1>1, <1>2 DEF Of

(* From its homes, a contact's conversation is found.                      *)
LEMMA FindAtHome ==
  ASSUME IdentityInv, NEW c \in Contacts, NEW i \in Ids, Fits(c, i), AliasHome(c, i),
         Of(c) \subseteq Homes(c, i), \A j, k \in Of(c) : j = k,
         NEW h \in Homes(c, i), ContactOf[h] = c
  PROVE  /\ Of(c) = {} => Find(h) = None
         /\ \A x \in Of(c) : Find(h) = x
<1> DEFINE led == {d \in Some({phoneAlias[v] : v \in Variants(h)}) \ Variants(h) : conv[d] # "none"}
           own == {v \in Variants(h) : conv[v] # "none"}
<1>1. h \in Ids /\ Homes(c, i) \subseteq Variants(h) BY HomesOfContact DEF IdentityInv
<1>2. \A v \in Variants(h) : v \in Ids /\ ContactOf[v] = c BY <1>1, VariantsOfOneContact
<1>3. led = {}
  <2>1. \A v \in Variants(h) : phoneAlias[v] \in Variants(h) \cup {None}
    BY <1>1, <1>2 DEF AliasHome
  <2> QED BY <2>1 DEF Some
<1>4. own = Of(c) BY <1>1, <1>2 DEF Of
<1>5. Find(h) = IF h \in own THEN h ELSE IF own # {} THEN Twin[h] ELSE None
  BY <1>3 DEF Find
<1>6. \A x \in own : x = h \/ x = Twin[h] BY <1>1, VariantsOfOneContact
<1> HIDE DEF own
<1> QED BY <1>4, <1>5, <1>6

(* What a callback says touches its own contact only.                      *)
LEMMA ElsewhereUntouched ==
  ASSUME IdentityInv, NEW e \in Events, Learn(e), Rekey(e), NEW j \in Ids,
         ContactOf[j] # Sender(e)
  PROVE  phoneAlias'[j] = phoneAlias[j] /\ lidAlias'[j] = lidAlias[j] /\ conv'[j] = conv[j]
<1> DEFINE i == Callback[e].phone
           old == OldPhones(e)
<1>1. TypeOK /\ AliasesStaySeparate BY DEF IdentityInv
<1>2. i \in Ids /\ ContactOf[i] = Sender(e) BY CallbackAssumption DEF Sender
<1>3. \A o \in old : o \in Ids /\ ContactOf[o] = Sender(e) BY <1>1, OldPhonesOfOneContact
<1>4. \A k \in Elements(Lids(e)) : ContactOf[k] = Sender(e) BY LidsOfOneContact DEF Elements
<1>5. \A k \in Variants(i) : ContactOf[k] = Sender(e) BY <1>2, VariantsOfOneContact
<1>6. \A o \in old : \A k \in Variants(o) : ContactOf[k] = Sender(e) BY <1>3, VariantsOfOneContact
<1>7. None \notin Ids BY IdentityAssumption
<1>8. phoneAlias[j] \notin old /\ lidAlias[j] \notin old
  BY <1>1, <1>3, <1>7 DEF AliasesStaySeparate
<1>9. phoneAlias'[j] = phoneAlias[j] /\ lidAlias'[j] = lidAlias[j]
  BY <1>4, <1>5, <1>6, <1>8 DEF Learn
<1>10. conv'[j] = conv[j]
  <2>1. conv \in [Ids -> Statuses] BY <1>1 DEF TypeOK, Statuses
  <2>2. \A o \in Movable(old) : o \in Ids /\ o # j BY <1>3 DEF Movable
  <2>3. j # i BY <1>2
  <2>4. CASE UNCHANGED conv BY <2>4
  <2>5. ASSUME NEW o \in Movable(old), conv' = [conv EXCEPT ![i] = conv[o], ![o] = "none"]
        PROVE  conv'[j] = conv[j]
    BY <2>1, <2>2, <2>3, <2>5
  <2> QED BY <2>4, <2>5 DEF Rekey
<1> QED BY <1>9, <1>10

LEMMA LearnByLid ==
  ASSUME IdentityInv, NEW c \in Contacts, NEW l \in Ids, ByLid(c, l), AliasHome(c, l),
         NEW e \in Events, Sender(e) = c, Learn(e)
  PROVE  /\ AliasHome(c, l)'
         /\ lidAlias'[l] = Canonical(e) /\ Canonical(e) \in Ids
         /\ ~Callback[e].fromMe => Canonical(e) = Callback[e].phone
         /\ Callback[e].fromMe /\ lidAlias[l] # None => Canonical(e) = lidAlias[l]
<1> DEFINE i == Callback[e].phone
           old == OldPhones(e)
           t == lidAlias[l]
           u == Canonical(e)
<1>1. TypeOK /\ AliasesStaySeparate /\ None \notin Ids BY IdentityAssumption DEF IdentityInv
<1>2. i \in Ids /\ ContactOf[i] = c /\ ContactOf[l] = c
  BY CallbackAssumption DEF Sender, ByLid
<1>3. u \in Ids /\ ContactOf[u] = c BY <1>1, CanonicalOfOneContact
<1>4. Elements(Lids(e)) = {l} BY DEF ByLid
<1>5. \A j \in Ids : ContactOf[j] = c => /\ phoneAlias[j] \in {t, None}
                                         /\ lidAlias[j] \in {t, None}
  BY DEF AliasHome, Homes
<1>6. t # None => t \in Ids /\ ContactOf[t] = c /\ phoneAlias[t] = t
  BY <1>1, <1>2 DEF TypeOK, AliasesStaySeparate, AliasHome
<1>7. \A v \in Variants(i) : v \in Ids /\ ContactOf[v] = c BY <1>2, VariantsOfOneContact
<1>8. ~Callback[e].fromMe => u = i BY DEF Canonical
<1>9. ASSUME Callback[e].fromMe PROVE u = IF t = None THEN i ELSE t
  <2> DEFINE known == {v \in Variants(i) : phoneAlias[v] # None}
             lids == Lids(e)
  <2>1. \A v \in known : phoneAlias[v] = t /\ t # None BY <1>5, <1>7
  <2>2. \A n \in DOMAIN lids : lids[n] = l BY <1>4 DEF Elements
  <2>3. t # None => t \in FirstLinked(e)
    <3>1. lids \in Seq(Ids) BY LidsOfOneContact
    <3>2. \E n \in DOMAIN lids : lids[n] = l BY <1>4 DEF Elements
    <3>3. 1 \in DOMAIN lids /\ DOMAIN lids \subseteq Nat \ {0} BY <3>1, <3>2
    <3>4. \A k \in DOMAIN lids : ~(k < 1) BY <3>3
    <3>5. t # None => 1 \in {m \in DOMAIN lids :
               /\ lidAlias[lids[m]] # None
               /\ \A k \in DOMAIN lids : k < m => lidAlias[lids[k]] = None}
      BY <2>2, <3>3, <3>4
    <3> QED BY <2>2, <3>3, <3>5 DEF FirstLinked
  <2>4. \A x \in FirstLinked(e) : x = t /\ x # None BY <2>2 DEF FirstLinked
  <2>5. FirstLinked(e) # {} => (CHOOSE x \in FirstLinked(e) : TRUE) \in FirstLinked(e)
    OBVIOUS
  <2>6. i \notin known /\ known # {} => Twin[i] \in known BY <1>2, VariantsOfOneContact
  <2>7. u = IF i \in known THEN phoneAlias[i]
            ELSE IF known # {} THEN phoneAlias[Twin[i]]
            ELSE IF FirstLinked(e) # {} THEN CHOOSE x \in FirstLinked(e) : TRUE
            ELSE i
    BY <1>9 DEF Canonical
  <2> HIDE DEF known, u, i, t
  <2> QED BY <2>1, <2>3, <2>4, <2>5, <2>6, <2>7
<1>10. /\ phoneAlias' = [j \in Ids |->
            IF j \in Variants(i) THEN u
            ELSE IF phoneAlias[j] \in old \/ \E o \in old : j \in Variants(o) THEN i
            ELSE phoneAlias[j]]
       /\ lidAlias' = [j \in Ids |->
            IF j = l THEN u ELSE IF lidAlias[j] \in old THEN i ELSE lidAlias[j]]
  BY <1>4 DEF Learn
<1>11. Callback[e].fromMe => old = {} BY DEF OldPhones
<1>12. ~Callback[e].fromMe /\ t # None /\ t # i => t \in old
  BY <1>4 DEF OldPhones, Some
<1> HIDE DEF i, old, t, u
<1>13. lidAlias'[l] = u BY <1>10
<1>14. ASSUME NEW j \in Ids, ContactOf[j] = c
       PROVE  phoneAlias'[j] \in {u, None} /\ lidAlias'[j] \in {u, None}
  <2>1. CASE Callback[e].fromMe BY <1>5, <1>9, <1>10, <1>11, <1>14, <2>1
  <2>2. CASE ~Callback[e].fromMe BY <1>5, <1>8, <1>10, <1>12, <1>14, <2>2
  <2> QED BY <2>1, <2>2
<1>15. phoneAlias'[u] = u
  <2>1. CASE Callback[e].fromMe
    <3>1. CASE t = None
      <4>1. u = i /\ i \in Variants(i) BY <1>2, <1>9, <2>1, <3>1, VariantsOfOneContact
      <4> QED BY <1>2, <1>10, <4>1
    <3>2. CASE t # None BY <1>6, <1>9, <1>10, <1>11, <2>1, <3>2
    <3> QED BY <3>1, <3>2
  <2>2. CASE ~Callback[e].fromMe
    <3>1. u = i /\ i \in Variants(i) BY <1>2, <1>8, <2>2, VariantsOfOneContact
    <3> QED BY <1>2, <1>10, <3>1
  <2> QED BY <2>1, <2>2
<1>16. AliasHome(c, l)'
  <2>1. Homes(c, l)' = {u} BY <1>1, <1>3, <1>13 DEF Homes, ByLid, Sender
  <2> QED BY <1>14, <1>15, <2>1 DEF AliasHome
<1> QED BY <1>3, <1>8, <1>9, <1>13, <1>16 DEF u, t, i

LEMMA LearnByNumber ==
  ASSUME IdentityInv, NEW c \in Contacts, NEW n \in Ids, ByNumber(c, n), ~ByLid(c, n),
         AliasHome(c, n), NEW e \in Events, Sender(e) = c, Learn(e)
  PROVE  /\ AliasHome(c, n)' /\ OldPhones(e) = {} /\ Canonical(e) \in Variants(n)
<1> DEFINE i == Callback[e].phone
           u == Canonical(e)
<1>1. TypeOK /\ AliasesStaySeparate /\ None \notin Ids BY IdentityAssumption DEF IdentityInv
<1>2. Lids(e) = <<>> /\ i \in Variants(n) BY DEF ByNumber
<1>3. Elements(Lids(e)) = {} BY <1>2 DEF Elements
<1>4. OldPhones(e) = {} BY <1>3 DEF OldPhones, Some
<1>5. i \in Ids /\ Variants(i) = Variants(n) BY <1>2, VariantsOfForm
<1>6. \A v \in Variants(n) : v \in Ids /\ ContactOf[v] = c
  BY <1>5, VariantsOfOneContact DEF Sender
<1>7. Homes(c, n) = Variants(n) BY DEF Homes
<1>8. u \in Variants(n)
  <2> DEFINE known == {v \in Variants(i) : phoneAlias[v] # None}
  <2>1. \A v \in known : phoneAlias[v] \in Variants(n) BY <1>5, <1>6, <1>7 DEF AliasHome
  <2>2. FirstLinked(e) = {} BY <1>2 DEF FirstLinked
  <2>3. i \notin known /\ known # {} => Twin[i] \in known BY <1>5, VariantsOfOneContact
  <2>4. \/ u = i
        \/ i \in known /\ u = phoneAlias[i]
        \/ i \notin known /\ known # {} /\ u = phoneAlias[Twin[i]]
    BY <2>2 DEF Canonical
  <2> HIDE DEF known
  <2> QED BY <1>2, <2>1, <2>3, <2>4
<1>9. /\ phoneAlias' = [j \in Ids |-> IF j \in Variants(n) THEN u ELSE phoneAlias[j]]
      /\ lidAlias' = lidAlias
  <2>1. lidAlias' = [j \in Ids |-> lidAlias[j]] BY <1>3, <1>4 DEF Learn
  <2>2. phoneAlias' = [j \in Ids |-> IF j \in Variants(n) THEN u ELSE phoneAlias[j]]
    BY <1>4, <1>5 DEF Learn
  <2> QED BY <1>1, <2>1, <2>2 DEF TypeOK
<1> HIDE DEF i, u
<1>10. AliasHome(c, n)'
  <2>1. Homes(c, n)' = Variants(n) BY DEF Homes, ByLid, Sender
  <2>2. ASSUME NEW j \in Ids, ContactOf[j] = c
        PROVE  /\ phoneAlias'[j] \in Variants(n) \cup {None} /\ lidAlias'[j] = None
               /\ phoneAlias'[j] # None => j \in Variants(n) /\ phoneAlias'[phoneAlias'[j]] = phoneAlias'[j]
    <3>1. /\ phoneAlias[j] # None => j \in Variants(n)
          /\ lidAlias[j] = None
      BY <2>2 DEF AliasHome
    <3> QED BY <1>6, <1>8, <1>9, <3>1
  <2>3. ~ByLid(c, n)' BY DEF ByLid, Sender
  <2> QED BY <2>1, <2>2, <2>3 DEF AliasHome
<1> QED BY <1>4, <1>8, <1>10 DEF u

LEMMA NothingToMove ==
  ASSUME NEW e \in Events, OldPhones(e) = {}, Rekey(e)
  PROVE  UNCHANGED conv
BY DEF Rekey, Movable

(* What resolving a callback leaves alone, but for its own event; links    *)
(* between numbers are learned while the contact waits for nothing, or the *)
(* contact counts as strained.                                             *)
Resolving(e) ==
  /\ Learn(e) /\ Rekey(e) /\ UNCHANGED <<worker, attended>>
  /\ strained \subseteq strained'
  /\ OldPhones(e) # {} /\ Sender(e) \notin strained' =>
       /\ phase[e] \notin {"pending", "processing"}
       /\ \A f \in Events : Sender(f) = Sender(e) /\ Waiting(f) => f = e /\ key'[e] = Canonical(e)
  /\ \A f \in Events : \/ phase'[f] = phase[f] /\ key'[f] = key[f]
                       \/ f = e /\ phase[e] # "processing" /\ key'[e] = Canonical(e)

LEMMA MovesByLid ==
  ASSUME IdentityInv, NEW c \in Contacts, NEW l \in Ids, ByLid(c, l), AliasHome(c, l),
         ConvHome(c, l), NEW e \in Events, Sender(e) = c, Resolving(e), c \notin strained'
  PROVE  /\ ConvHome(c, l)'
         /\ (\E i \in Of(c) : conv[i] # "bot_active") =>
              \E i \in Of(c)' : conv'[i] # "bot_active"
<1> DEFINE i == Callback[e].phone
           old == OldPhones(e)
           t == lidAlias[l]
           u == Canonical(e)
<1>1. TypeOK /\ AliasesStaySeparate /\ None \notin Ids /\ conv \in [Ids -> Statuses]
  BY IdentityAssumption DEF IdentityInv, TypeOK, Statuses
<1>2. Learn(e) /\ Rekey(e) /\ c \notin strained BY DEF Resolving
<1>3. /\ lidAlias'[l] = u /\ u \in Ids /\ (~Callback[e].fromMe => u = i)
      /\ Callback[e].fromMe /\ t # None => u = t
  BY <1>2, LearnByLid
<1>4. Homes(c, l) = {t} \ {None} /\ Homes(c, l)' = {u}
  BY <1>1, <1>3 DEF Homes, ByLid, Sender
<1>5. /\ Of(c) \subseteq {t} \ {None}
      /\ \A f \in Events : Sender(f) = c /\ Waiting(f) => key[f] = t /\ t # None
  BY <1>2, <1>4 DEF ConvHome
<1>6. Elements(Lids(e)) = {l} BY DEF ByLid
<1>7. ~Callback[e].fromMe /\ t # None /\ t # i => t \in old
  BY <1>6 DEF OldPhones, Some
<1>8. i \in Ids /\ ContactOf[i] = c BY CallbackAssumption DEF Sender
<1>9. CASE old = {}
  <2>1. UNCHANGED conv BY <1>2, <1>9, NothingToMove
  <2>2. Of(c)' = Of(c) BY <2>1 DEF Of
  <2>3. t # None => u = t BY <1>3, <1>7, <1>9
  <2>4. \A f \in Events : Sender(f) = c /\ Waiting(f)' => key'[f] = u
    BY <1>5, <2>3 DEF Resolving, Waiting
  <2>5. ConvHome(c, l)'
    BY <1>4, <1>5, <2>2, <2>3, <2>4 DEF ConvHome, Sender
  <2> QED BY <2>1, <2>2, <2>5
<1>10. CASE old # {}
  <2>1. ~Callback[e].fromMe BY <1>10 DEF OldPhones
  <2>2. u = i BY <1>3, <2>1
  <2>3. \A f \in Events : Sender(f) = c /\ Waiting(f) => f = e /\ key'[e] = u
    BY <1>10 DEF Resolving
  <2>4. \A f \in Events : Sender(f) = c /\ Waiting(f)' => key'[f] = u
    BY <2>3 DEF Resolving, Waiting
  <2>5. phase[e] \notin {"pending", "processing"} BY <1>10 DEF Resolving
  <2>6. \A o \in Movable(old) : o \in Of(c)
    BY <1>1, OldPhonesOfOneContact DEF Movable, Of
  <2>7. CASE Of(c) = {}
    <3>1. UNCHANGED conv BY <1>2, <2>6, <2>7 DEF Rekey
    <3>2. Of(c)' = {} BY <2>7, <3>1 DEF Of
    <3> QED BY <1>4, <2>4, <2>7, <3>2 DEF ConvHome, Sender
  <2>8. CASE Of(c) # {}
    <3>1. Of(c) = {t} /\ t # None BY <1>5, <2>8
    <3>2. t \in Ids /\ ContactOf[t] = c /\ conv[t] # "none" BY <3>1 DEF Of
    <3>3. t # i
      <4>1. ASSUME t = i PROVE FALSE
        <5>1. \A j \in Ids : ContactOf[j] = c => phoneAlias[j] \in {i, None}
                                                 /\ lidAlias[j] \in {i, None}
          BY <4>1 DEF AliasHome, Homes
        <5>2. conv[l] = "none" \/ l = i BY <3>1, <4>1 DEF Of, ByLid
        <5>3. ContactOf[l] = c BY DEF ByLid
        <5>4. OldPhones(e) = {} BY <1>6, <2>1, <5>1, <5>2, <5>3 DEF OldPhones, Some
        <5> QED BY <1>10, <5>4
      <4> QED BY <4>1
    <3>4. t \in old BY <1>7, <2>1, <3>1, <3>3
    <3>5. ~Active(t)
      <4>1. ASSUME NEW f \in Events, key[f] = t, phase[f] \in {"pending", "processing"}
            PROVE  FALSE
        <5>1. Sender(f) = c BY <3>1, <3>2, <4>1 DEF IdentityInv, KeysStaySeparate
        <5>2. f = e BY <2>3, <4>1, <5>1 DEF Waiting
        <5> QED BY <2>5, <4>1, <5>2
      <4> QED BY <4>1 DEF Active
    <3>6. Movable(old) = {t} BY <2>6, <3>1, <3>2, <3>4, <3>5 DEF Movable
    <3>7. conv[i] = "none" BY <1>8, <3>1, <3>3 DEF Of
    <3>8. conv' = [conv EXCEPT ![i] = conv[t], ![t] = "none"]
      BY <1>2, <3>6, <3>7 DEF Rekey
    <3> HIDE DEF i, t, u, old
    <3>9. /\ conv'[i] = conv[t] /\ conv'[t] = "none"
          /\ \A j \in Ids \ {i, t} : conv'[j] = conv[j]
      BY <1>1, <1>8, <3>2, <3>3, <3>8
    <3>10. \A j \in Ids \ {i, t} : ContactOf[j] = c => conv[j] = "none" BY <3>1 DEF Of
    <3>11. Of(c)' = {i} BY <1>8, <3>2, <3>9, <3>10 DEF Of
    <3>12. ConvHome(c, l)' BY <1>4, <2>2, <2>4, <3>11 DEF ConvHome, Sender
    <3> QED BY <3>1, <3>9, <3>11, <3>12
  <2> QED BY <2>7, <2>8
<1> QED BY <1>9, <1>10

LEMMA StaysByNumber ==
  ASSUME IdentityInv, NEW c \in Contacts, NEW n \in Ids, ByNumber(c, n), ~ByLid(c, n),
         AliasHome(c, n), ConvHome(c, n), NEW e \in Events, Sender(e) = c, Resolving(e),
         c \notin strained'
  PROVE  /\ ConvHome(c, n)'
         /\ (\E i \in Of(c) : conv[i] # "bot_active") =>
              \E i \in Of(c)' : conv'[i] # "bot_active"
<1>1. OldPhones(e) = {} /\ Canonical(e) \in Variants(n) BY LearnByNumber DEF Resolving
<1>2. UNCHANGED conv BY <1>1, NothingToMove DEF Resolving
<1>3. Of(c)' = Of(c) BY <1>2 DEF Of
<1>4. Homes(c, n) = Variants(n) /\ Homes(c, n)' = Variants(n) BY DEF Homes, ByLid, Sender
<1>5. c \notin strained BY DEF Resolving
<1>6. \A f \in Events : Sender(f) = c /\ Waiting(f)' => key'[f] \in Variants(n)
  BY <1>1, <1>4, <1>5 DEF Resolving, Waiting, ConvHome
<1>7. ConvHome(c, n)' BY <1>3, <1>4, <1>5, <1>6 DEF ConvHome, Sender
<1> QED BY <1>2, <1>3, <1>7

(* A contact that a step does not touch stays as it was.                   *)
LEMMA ContactKept ==
  ASSUME IdentityInv, NEW c \in Contacts, NEW i \in Ids, Fits(c, i),
         AliasHome(c, i), ConvHome(c, i), strained \subseteq strained',
         \A j \in Ids : ContactOf[j] = c =>
           phoneAlias'[j] = phoneAlias[j] /\ lidAlias'[j] = lidAlias[j] /\ conv'[j] = conv[j],
         \A f \in Events : Sender(f) = c /\ Waiting(f)' => Waiting(f) /\ key'[f] = key[f]
  PROVE  AliasHome(c, i)' /\ ConvHome(c, i)'
<1>1. TypeOK /\ AliasesStaySeparate BY DEF IdentityInv
<1>2. ByLid(c, i) => ContactOf[i] = c BY DEF ByLid
<1>3. Homes(c, i)' = Homes(c, i) BY <1>2 DEF Homes, ByLid, Sender
<1>4. Of(c)' = Of(c) BY DEF Of
<1>5. ByLid(c, i)' <=> ByLid(c, i) BY DEF ByLid, Sender
<1>6. \A j \in Ids : ContactOf[j] = c =>
        /\ phoneAlias[j] # None => phoneAlias[j] \in Ids /\ ContactOf[phoneAlias[j]] = c
        /\ lidAlias[j] # None => lidAlias[j] \in Ids /\ ContactOf[lidAlias[j]] = c
  BY <1>1 DEF TypeOK, AliasesStaySeparate
<1>7. AliasHome(c, i)' BY <1>3, <1>5, <1>6 DEF AliasHome
<1>8. ConvHome(c, i)' BY <1>3, <1>4 DEF ConvHome, Sender
<1> QED BY <1>7, <1>8

LEMMA OfKept ==
  ASSUME NEW c \in Contacts, \A j \in Ids : ContactOf[j] = c => conv'[j] = conv[j]
  PROVE  Of(c)' = Of(c)
BY DEF Of

LEMMA ResolvingKeepsHomes ==
  ASSUME IdentityInv, HomeInv, GateInv, LinksDeclared, NEW e \in Events, Resolving(e)
  PROVE  HomeInv' /\ GateInv'
<1>1. ASSUME NEW c \in Contacts, c # Sender(e)
      PROVE  \A j \in Ids : ContactOf[j] = c =>
               phoneAlias'[j] = phoneAlias[j] /\ lidAlias'[j] = lidAlias[j] /\ conv'[j] = conv[j]
  BY <1>1, ElsewhereUntouched DEF Resolving
<1>2. strained \subseteq strained' /\ UNCHANGED <<worker, attended>> BY DEF Resolving
<1>3. \A f \in Events : Sender(f) # Sender(e) => phase'[f] = phase[f] /\ key'[f] = key[f]
  BY DEF Resolving
<1>4. HomeInv'
  <2> SUFFICES ASSUME NEW c \in Contacts, NEW i \in Ids, Fits(c, i)
               PROVE  AliasHome(c, i)' /\ ConvHome(c, i)'
    BY DEF HomeInv, Fits, ByLid, ByNumber, Sender
  <2>1. AliasHome(c, i) /\ ConvHome(c, i) BY DEF HomeInv
  <2>2. CASE c # Sender(e)
    BY <1>1, <1>2, <1>3, <2>1, <2>2, ContactKept DEF Waiting
  <2>3. CASE c = Sender(e) /\ ByLid(c, i)
    <3>1. AliasHome(c, i)' BY <2>1, <2>3, LearnByLid DEF Resolving
    <3>2. c \in strained' => ConvHome(c, i)' BY DEF ConvHome
    <3> QED BY <2>1, <2>3, <3>1, <3>2, MovesByLid
  <2>4. CASE c = Sender(e) /\ ~ByLid(c, i)
    <3>1. ByNumber(c, i) BY <2>4 DEF Fits
    <3>2. AliasHome(c, i)' BY <2>1, <2>4, <3>1, LearnByNumber DEF Resolving
    <3>3. c \in strained' => ConvHome(c, i)' BY DEF ConvHome
    <3> QED BY <2>1, <2>4, <3>1, <3>2, <3>3, StaysByNumber
  <2> QED BY <2>2, <2>3, <2>4
<1>5. GateInv'
  <2>1. ASSUME worker.phone # None
        PROVE  \E f \in Events : key'[f] = worker.phone /\ phase'[f] = "processing"
    <3>1. PICK f \in Events : key[f] = worker.phone /\ phase[f] = "processing"
      BY <2>1 DEF GateInv
    <3> QED BY <3>1 DEF Resolving
  <2>2. ASSUME NEW c \in attended \ strained'
        PROVE  \E i \in Of(c)' : conv'[i] # "bot_active"
    <3>1. c \in Contacts /\ \E i \in Of(c) : conv[i] # "bot_active"
      BY <1>2, <2>2 DEF GateInv, IdentityInv, TypeOK
    <3>2. CASE c # Sender(e)
      BY <1>1, <3>1, <3>2, OfKept DEF Of
    <3>3. CASE c = Sender(e)
      <4>1. PICK i \in Ids : Fits(c, i) BY <3>1 DEF LinksDeclared
      <4>2. AliasHome(c, i) /\ ConvHome(c, i) BY <3>1, <4>1 DEF HomeInv
      <4>3. CASE ByLid(c, i) BY <2>2, <3>1, <3>3, <4>2, <4>3, MovesByLid
      <4>4. CASE ~ByLid(c, i)
        <5>1. ByNumber(c, i) BY <4>1, <4>4 DEF Fits
        <5> QED BY <2>2, <3>1, <3>3, <4>2, <4>4, <5>1, StaysByNumber
      <4> QED BY <4>3, <4>4
    <3> QED BY <3>2, <3>3
  <2> QED BY <1>2, <2>1, <2>2 DEF GateInv
<1> QED BY <1>4, <1>5

(* A conversation changes its status, or is opened where lookups find it.  *)
LEMMA OpenStep ==
  ASSUME IdentityInv, HomeInv, UNCHANGED <<phoneAlias, lidAlias, key>>,
         strained \subseteq strained', \A f \in Events : Waiting(f)' => Waiting(f),
         NEW p \in Ids, NEW s \in Statuses \ {"none"}, conv' = [conv EXCEPT ![p] = s],
         ContactOf[p] \notin strained' =>
           \/ p \in Of(ContactOf[p])
           \/ /\ Of(ContactOf[p]) = {}
              /\ \A i \in Ids : Fits(ContactOf[p], i) => p \in Homes(ContactOf[p], i)
  PROVE  /\ HomeInv'
         /\ Of(ContactOf[p])' = Of(ContactOf[p]) \cup {p}
         /\ \A c \in Contacts \ {ContactOf[p]} : Of(c)' = Of(c)
         /\ conv'[p] = s /\ \A j \in Ids \ {p} : conv'[j] = conv[j]
<1> DEFINE d == ContactOf[p]
<1>1. conv \in [Ids -> Statuses] BY DEF IdentityInv, TypeOK, Statuses
<1>2. conv'[p] = s /\ \A j \in Ids \ {p} : conv'[j] = conv[j] BY <1>1
<1>3. Of(d)' = Of(d) \cup {p} BY <1>2 DEF Of
<1>4. \A c \in Contacts \ {d} : Of(c)' = Of(c) BY <1>2 DEF Of
<1>5. ASSUME NEW c \in Contacts, NEW i \in Ids, Fits(c, i)
      PROVE  AliasHome(c, i)' /\ ConvHome(c, i)'
  <2>1. AliasHome(c, i) /\ ConvHome(c, i) BY <1>5 DEF HomeInv
  <2>2. CASE c # d BY <1>2, <1>5, <2>1, <2>2, ContactKept
  <2>3. CASE c = d
    <3>1. Homes(c, i)' = Homes(c, i) BY DEF Homes, ByLid, Sender
    <3>2. AliasHome(c, i)' BY <2>1, <3>1 DEF AliasHome, ByLid, Sender
    <3>3. ASSUME c \notin strained'
          PROVE  Of(c)' \subseteq Homes(c, i) /\ \A j, k \in Of(c)' : j = k
      BY <1>3, <1>5, <2>1, <2>3, <3>3 DEF ConvHome
    <3>4. ConvHome(c, i)' BY <2>1, <3>1, <3>3 DEF ConvHome, Sender
    <3> QED BY <3>2, <3>4
  <2> QED BY <2>2, <2>3
<1>6. HomeInv' BY <1>5 DEF HomeInv, Fits, ByLid, ByNumber, Sender
<1> QED BY <1>2, <1>3, <1>4, <1>6

(* Where the worker's lookups end.                                         *)
LEMMA KeyedPlace ==
  ASSUME IdentityInv, HomeInv, LinksDeclared, NEW e \in Events, Waiting(e), key[e] # None,
         Sender(e) \notin strained
  PROVE  /\ key[e] \in Ids /\ ContactOf[key[e]] = Sender(e)
         /\ \/ Place(key[e]) \in Of(Sender(e))
            \/ /\ Of(Sender(e)) = {} /\ Place(key[e]) = key[e]
               /\ \A i \in Ids : Fits(Sender(e), i) => key[e] \in Homes(Sender(e), i)
<1> DEFINE c == Sender(e)
           k == key[e]
<1>1. k \in Ids /\ ContactOf[k] = c /\ c \in Contacts
  <2>0. key \in [Events -> Ids \cup {None}] BY DEF IdentityInv, TypeOK
  <2>1. k \in Ids BY <2>0
  <2>2. ContactOf[k] = c BY DEF IdentityInv, KeysStaySeparate
  <2>3. ContactOf[k] \in Contacts
    <3> HIDE DEF k
    <3> QED BY <2>1, IdentityAssumption
  <2> QED BY <2>1, <2>2, <2>3
<1>2. \A i \in Ids : Fits(c, i) =>
        /\ AliasHome(c, i) /\ Of(c) \subseteq Homes(c, i) /\ k \in Homes(c, i)
        /\ \A x, y \in Of(c) : x = y
  BY <1>1 DEF HomeInv, ConvHome
<1>3. PICK i \in Ids : Fits(c, i) BY <1>1 DEF LinksDeclared
<1> HIDE DEF c, k
<1>4. /\ Of(c) = {} => Find(k) = None
      /\ \A x \in Of(c) : Find(k) = x
  BY <1>1, <1>2, <1>3, FindAtHome
<1>5. CASE Of(c) = {} BY <1>1, <1>2, <1>4, <1>5 DEF Place, c, k
<1>6. ASSUME NEW x \in Of(c) PROVE Place(k) \in Of(c)
  <2>1. x \in Ids /\ x # None BY IdentityAssumption DEF Of
  <2> QED BY <1>4, <1>6, <2>1 DEF Place
<1> QED BY <1>1, <1>5, <1>6 DEF c, k

LEMMA InitHomes == Init => HomeInv /\ GateInv
<1> SUFFICES ASSUME Init PROVE HomeInv /\ GateInv OBVIOUS
<1>1. /\ \A j \in Ids : phoneAlias[j] = None /\ lidAlias[j] = None /\ conv[j] = "none"
      /\ \A e \in Events : ~Waiting(e)
      /\ attended = {} /\ worker.phone = None
  BY DEF Init, Waiting
<1>2. \A c : Of(c) = {} BY <1>1 DEF Of
<1>3. HomeInv BY <1>1, <1>2 DEF HomeInv, AliasHome, ConvHome
<1>4. GateInv BY <1>1 DEF GateInv
<1> QED BY <1>3, <1>4

LEMMA WebhookKeepsHomes ==
  ASSUME IdentityInv, HomeInv, GateInv, LinksDeclared, NEW e \in Events,
         Resolve(e) \/ Redeliver(e)
  PROVE  HomeInv' /\ GateInv'
<1>1. phase \in [Events -> {"new", "resolved", "pending", "processing", "done"}]
      /\ key \in [Events -> Ids \cup {None}]
  BY DEF IdentityInv, TypeOK
<1>2. CASE Resolve(e)
  <2>1. /\ phase[e] \in {"new", "resolved"} /\ Learn(e) /\ Rekey(e)
        /\ phase' = [phase EXCEPT ![e] = "resolved"]
        /\ key' = [key EXCEPT ![e] = Canonical(e)]
        /\ strained' = IF OldPhones(e) # {} /\ Busy(Sender(e), Events \ {e})
                       THEN strained \cup {Sender(e)} ELSE strained
        /\ UNCHANGED <<worker, attended>>
    BY <1>2 DEF Resolve
  <2>2. key'[e] = Canonical(e)
        /\ \A f \in Events \ {e} : phase'[f] = phase[f] /\ key'[f] = key[f]
    BY <1>1, <2>1
  <2>3. OldPhones(e) # {} /\ Sender(e) \notin strained' => ~Busy(Sender(e), Events \ {e})
    BY <2>1
  <2>4. ~Busy(Sender(e), Events \ {e}) =>
          \A f \in Events : Sender(f) = Sender(e) /\ Waiting(f) => f = e
    BY DEF Busy, Waiting
  <2>5. Resolving(e) BY <2>1, <2>2, <2>3, <2>4 DEF Resolving
  <2> QED BY <2>5, ResolvingKeepsHomes
<1>3. CASE Redeliver(e)
  <2>1. /\ Learn(e) /\ Rekey(e) /\ UNCHANGED <<phase, key, worker, attended>>
        /\ strained' = IF OldPhones(e) # {} /\ Busy(Sender(e), Events)
                       THEN strained \cup {Sender(e)} ELSE strained
    BY <1>3 DEF Redeliver
  <2>2. OldPhones(e) # {} /\ Sender(e) \notin strained' => ~Busy(Sender(e), Events)
    BY <2>1
  <2>3. ~Busy(Sender(e), Events) =>
          \A f \in Events : Sender(f) = Sender(e) => ~Waiting(f)
    BY DEF Busy, Waiting
  <2>4. ~Waiting(e) => phase[e] \notin {"pending", "processing"} BY DEF Waiting
  <2>5. Resolving(e) BY <2>1, <2>2, <2>3, <2>4 DEF Resolving
  <2> QED BY <2>5, ResolvingKeepsHomes
<1> QED BY <1>2, <1>3

LEMMA BeginKeepsHomes ==
  ASSUME IdentityInv, HomeInv, GateInv, LinksDeclared, NEW k \in Ids, BeginBatch(k)
  PROVE  /\ HomeInv' /\ GateInv'
         /\ worker'.gate = "answer" => ContactOf[k] \notin attended \ strained
<1> DEFINE p == Place(k)
           s == IF conv[p] = "none" THEN "bot_active" ELSE conv[p]
           c == ContactOf[k]
<1>1. /\ Batch(k) # {} /\ UNCHANGED <<phoneAlias, lidAlias, key, attended, strained>>
      /\ conv' = [conv EXCEPT ![p] = s]
      /\ phase' = [f \in Events |-> IF f \in Batch(k) THEN "processing" ELSE phase[f]]
      /\ worker'.phone = k
      /\ worker'.gate = "answer" => conv'[p] = "bot_active"
  BY DEF BeginBatch, aliases
<1>2. PICK e \in Events : key[e] = k /\ phase[e] = "pending" BY <1>1 DEF Batch
<1>3. None \notin Ids /\ c \in Contacts /\ Sender(e) = c
  BY <1>2, IdentityAssumption DEF IdentityInv, KeysStaySeparate
<1>4. p \in Ids /\ ContactOf[p] = c BY PlaceOfOneContact DEF IdentityInv
<1>5. conv[p] \in Statuses BY <1>4 DEF IdentityInv, TypeOK, Statuses
<1>6. s \in Statuses \ {"none"} BY <1>5 DEF Statuses
<1>7. c \notin strained =>
        \/ p \in Of(c)
        \/ Of(c) = {} /\ \A i \in Ids : Fits(c, i) => p \in Homes(c, i)
  <2>1. Waiting(e) /\ key[e] # None BY <1>2, <1>3 DEF Waiting
  <2>2. c \notin strained =>
          \/ Place(key[e]) \in Of(c)
          \/ /\ Of(c) = {} /\ Place(key[e]) = key[e]
             /\ \A i \in Ids : Fits(c, i) => key[e] \in Homes(c, i)
    BY <1>3, <2>1, KeyedPlace
  <2> QED BY <1>2, <2>2
<1>8. \A f \in Events : Waiting(f)' => Waiting(f) BY <1>1 DEF Batch, Waiting
<1> HIDE DEF p, s, c
<1>9. /\ HomeInv' /\ Of(c)' = Of(c) \cup {p}
      /\ \A d \in Contacts \ {c} : Of(d)' = Of(d)
      /\ conv'[p] = s /\ \A j \in Ids \ {p} : conv'[j] = conv[j]
  BY <1>1, <1>4, <1>6, <1>7, <1>8, OpenStep
<1>10. ASSUME NEW d \in attended \ strained
       PROVE  \E i \in Of(d)' : conv'[i] # "bot_active"
  <2>1. PICK i \in Of(d) : conv[i] # "bot_active" BY <1>10 DEF GateInv
  <2>2. d \in Contacts BY <1>10 DEF IdentityInv, TypeOK
  <2>3. i \in Of(d)' BY <1>9, <2>2
  <2>4. i \in Ids /\ conv[i] # "none" BY DEF Of
  <2>5. conv'[i] = conv[i] BY <1>9, <2>4 DEF s
  <2> QED BY <2>1, <2>3, <2>5
<1>11. \E f \in Events : key'[f] = k /\ phase'[f] = "processing" BY <1>1 DEF Batch
<1>12. GateInv' BY <1>1, <1>10, <1>11 DEF GateInv
<1>13. c \notin attended \ strained \/ conv'[p] # "bot_active"
  <2>1. ASSUME c \in attended \ strained PROVE conv'[p] # "bot_active"
    <3>1. PICK i \in Of(c) : conv[i] # "bot_active" BY <2>1 DEF GateInv
    <3>2. p \in Of(c) BY <1>7, <2>1, <3>1
    <3>3. PICK j \in Ids : Fits(c, j) BY <1>3 DEF LinksDeclared
    <3>4. i = p BY <1>3, <2>1, <3>2, <3>3 DEF HomeInv, ConvHome
    <3>5. conv[p] # "none" BY <3>2 DEF Of
    <3> QED BY <1>9, <3>1, <3>4, <3>5 DEF s
  <2> QED BY <2>1
<1> QED BY <1>1, <1>9, <1>12, <1>13 DEF c

LEMMA EndKeepsHomes ==
  ASSUME IdentityInv, HomeInv, GateInv, LinksDeclared, EndBatch
  PROVE  HomeInv' /\ GateInv'
<1>0. PICK k : k = worker.phone OBVIOUS
<1> DEFINE p == Place(k)
           c == ContactOf[k]
<1>1. /\ k # None /\ UNCHANGED <<phoneAlias, lidAlias, key, strained>>
      /\ phase' = [f \in Events |-> IF phase[f] = "processing" THEN "done" ELSE phase[f]]
      /\ worker'.phone = None
      /\ \/ UNCHANGED <<conv, attended>>
         \/ conv[p] = "none" /\ conv' = [conv EXCEPT ![p] = "bot_active"] /\ UNCHANGED attended
         \/ conv' = [conv EXCEPT ![p] = "human_pending"] /\ attended' = attended \cup {c}
  BY <1>0 DEF EndBatch, aliases
<1>2. PICK e \in Events : key[e] = k /\ phase[e] = "processing" BY <1>0, <1>1 DEF GateInv
<1>3. Waiting(e) /\ key[e] # None /\ key[e] = k BY <1>1, <1>2 DEF Waiting
<1>4. Sender(e) = c BY <1>3 DEF IdentityInv, KeysStaySeparate
<1>5. k \in Ids
  <2>1. worker \in [phone : Ids \cup {None}, gate : {"idle", "answer", "hold"}]
    BY DEF IdentityInv, TypeOK
  <2> QED BY <1>0, <1>1, <2>1
<1>6. p \in Ids /\ ContactOf[p] = c BY <1>5, PlaceOfOneContact DEF IdentityInv
<1> HIDE DEF p, c
<1>7. c \in Contacts BY <1>5, IdentityAssumption DEF c
<1>8. c \notin strained =>
        \/ p \in Of(c)
        \/ Of(c) = {} /\ \A i \in Ids : Fits(c, i) => p \in Homes(c, i)
  <2>1. c \notin strained =>
          \/ Place(key[e]) \in Of(c)
          \/ /\ Of(c) = {} /\ Place(key[e]) = key[e]
             /\ \A i \in Ids : Fits(c, i) => key[e] \in Homes(c, i)
    BY <1>3, <1>4, KeyedPlace
  <2> QED BY <1>3, <2>1 DEF p
<1>9. \A f \in Events : Waiting(f)' => Waiting(f) BY <1>1 DEF Waiting
<1>10. CASE UNCHANGED <<conv, attended>>
  <2>1. \A d \in Contacts : Of(d)' = Of(d) BY <1>10 DEF Of
  <2>2. HomeInv'
    <3> SUFFICES ASSUME NEW d \in Contacts, NEW i \in Ids, Fits(d, i)
                 PROVE  AliasHome(d, i)' /\ ConvHome(d, i)'
      BY DEF HomeInv, Fits, ByLid, ByNumber, Sender
    <3>1. AliasHome(d, i) /\ ConvHome(d, i) BY DEF HomeInv
    <3> QED BY <1>1, <1>9, <1>10, <3>1, ContactKept
  <2>3. attended \subseteq Contacts BY DEF IdentityInv, TypeOK
  <2> QED BY <1>1, <1>10, <2>1, <2>2, <2>3 DEF GateInv
<1>11. ASSUME NEW s \in Statuses \ {"none"}, conv' = [conv EXCEPT ![p] = s],
              \/ s = "bot_active" /\ conv[p] = "none" /\ UNCHANGED attended
              \/ s # "bot_active" /\ attended' = attended \cup {c}
       PROVE  HomeInv' /\ GateInv'
  <2>1. /\ HomeInv' /\ Of(c)' = Of(c) \cup {p}
        /\ \A d \in Contacts \ {c} : Of(d)' = Of(d)
        /\ conv'[p] = s /\ \A j \in Ids \ {p} : conv'[j] = conv[j]
    BY <1>1, <1>6, <1>8, <1>9, <1>11, OpenStep
  <2>2. ASSUME NEW d \in attended' \ strained
        PROVE  \E i \in Of(d)' : conv'[i] # "bot_active"
    <3>1. CASE d = c /\ s # "bot_active" BY <2>1, <3>1
    <3>2. CASE ~(d = c /\ s # "bot_active")
      <4>1. d \in attended BY <1>11, <2>2, <3>2
      <4>2. PICK i \in Of(d) : conv[i] # "bot_active" BY <2>2, <4>1 DEF GateInv
      <4>3. d \in Contacts BY <4>1 DEF IdentityInv, TypeOK
      <4>4. i \in Ids /\ conv[i] # "none" /\ ContactOf[i] = d BY DEF Of
      <4>5. i # p BY <1>6, <1>11, <3>2, <4>4
      <4> QED BY <2>1, <4>2, <4>3, <4>4, <4>5
    <3> QED BY <3>1, <3>2
  <2> QED BY <1>1, <2>1, <2>2 DEF GateInv
<1>12. {"bot_active", "human_pending"} \subseteq Statuses \ {"none"} BY DEF Statuses
<1> QED BY <1>1, <1>10, <1>11, <1>12

LEMMA StatusKeepsHomes ==
  ASSUME IdentityInv, HomeInv, GateInv, LinksDeclared, NEW k \in Ids,
         NEW s \in {"human_active", "closed", "bot_active"}, SetStatus(k, s)
  PROVE  HomeInv' /\ GateInv'
<1> DEFINE p == Place(k)
           c == ContactOf[k]
<1>1. /\ UNCHANGED <<phoneAlias, lidAlias, key, phase, worker>>
      /\ conv' = [conv EXCEPT ![p] = s]
      /\ attended' = IF s = "bot_active" THEN attended \ {c} ELSE attended \cup {c}
      /\ strained' = IF Find(k) = None THEN strained \cup {c} ELSE strained
  BY DEF SetStatus, aliases, queue
<1>2. p \in Ids /\ ContactOf[p] = c BY PlaceOfOneContact DEF IdentityInv
<1>3. c \notin strained' => p \in Of(c)
  BY <1>1, FindIsOf DEF Place, IdentityInv
<1>4. \A f \in Events : Waiting(f)' => Waiting(f) BY <1>1 DEF Waiting
<1>5. s \in Statuses \ {"none"} BY DEF Statuses
<1>6. strained \subseteq strained' BY <1>1
<1> HIDE DEF p, c
<1>7. /\ HomeInv' /\ Of(c)' = Of(c) \cup {p}
      /\ \A d \in Contacts \ {c} : Of(d)' = Of(d)
      /\ conv'[p] = s /\ \A j \in Ids \ {p} : conv'[j] = conv[j]
  BY <1>1, <1>2, <1>3, <1>4, <1>5, <1>6, OpenStep
<1>8. ASSUME NEW d \in attended' \ strained'
      PROVE  \E i \in Of(d)' : conv'[i] # "bot_active"
  <2>1. CASE d = c
    <3>1. s # "bot_active" BY <1>1, <1>8, <2>1
    <3> QED BY <1>7, <2>1, <3>1
  <2>2. CASE d # c
    <3>1. d \in attended \ strained BY <1>1, <1>8, <2>2
    <3>2. PICK i \in Of(d) : conv[i] # "bot_active" BY <3>1 DEF GateInv
    <3>3. d \in Contacts BY <3>1 DEF IdentityInv, TypeOK
    <3>4. i \in Ids \ {p} BY <1>2, <2>2 DEF Of
    <3> QED BY <1>7, <2>2, <3>2, <3>3, <3>4
  <2> QED BY <2>1, <2>2
<1> QED BY <1>1, <1>7, <1>8 DEF GateInv

LEMMA NextHomes ==
  ASSUME IdentityInv, HomeInv, GateInv, LinksDeclared, [Next]_vars
  PROVE  HomeInv' /\ GateInv'
<1>1. ASSUME UNCHANGED <<phoneAlias, lidAlias, conv, key, worker, attended, strained>>,
             \A f \in Events : /\ Waiting(f)' => Waiting(f)
                               /\ phase[f] = "processing" => phase'[f] = "processing"
      PROVE  HomeInv' /\ GateInv'
  <2>1. \A d \in Contacts : Of(d)' = Of(d) BY <1>1 DEF Of
  <2>2. HomeInv'
    <3> SUFFICES ASSUME NEW d \in Contacts, NEW i \in Ids, Fits(d, i)
                 PROVE  AliasHome(d, i)' /\ ConvHome(d, i)'
      BY DEF HomeInv, Fits, ByLid, ByNumber, Sender
    <3>1. AliasHome(d, i) /\ ConvHome(d, i) BY DEF HomeInv
    <3> QED BY <1>1, <3>1, ContactKept
  <2>3. attended \subseteq Contacts BY DEF IdentityInv, TypeOK
  <2> QED BY <1>1, <2>1, <2>2, <2>3 DEF GateInv
<1>2. ASSUME NEW e \in Events, Queue(e) PROVE HomeInv' /\ GateInv'
  <2>1. /\ UNCHANGED <<phoneAlias, lidAlias, conv, key, worker, attended, strained>>
        /\ phase[e] = "resolved" /\ phase' = [phase EXCEPT ![e] = "pending"]
    BY <1>2 DEF Queue, aliases
  <2>2. phase \in [Events -> {"new", "resolved", "pending", "processing", "done"}]
    BY DEF IdentityInv, TypeOK
  <2>3. \A f \in Events : /\ Waiting(f)' => Waiting(f)
                          /\ phase[f] = "processing" => phase'[f] = "processing"
    BY <2>1, <2>2 DEF Waiting
  <2> QED BY <1>1, <2>1, <2>3
<1>3. CASE UNCHANGED vars BY <1>1, <1>3 DEF vars, Waiting
<1> QED BY <1>2, <1>3, WebhookKeepsHomes, BeginKeepsHomes, EndKeepsHomes, StatusKeepsHomes DEF Next

(* Where each contact is known by a LID that its callbacks declare, or by  *)
(* one number in both of its forms, the phone an alias leads to leads to   *)
(* itself: all aliases of a contact lead to one phone.                     *)
THEOREM AliasesStayFlat ==
  ASSUME LinksDeclared
  PROVE  Spec => []AliasesAreFlat
<1>1. IdentityInv /\ HomeInv /\ GateInv /\ [Next]_vars => HomeInv' /\ GateInv'
  BY NextHomes
<1>2. IdentityInv /\ HomeInv => AliasesAreFlat
  <2> SUFFICES ASSUME HomeInv, NEW i \in Ids
               PROVE  /\ phoneAlias[i] # None => phoneAlias[phoneAlias[i]] = phoneAlias[i]
                      /\ lidAlias[i] # None => phoneAlias[lidAlias[i]] = lidAlias[i]
    BY DEF AliasesAreFlat
  <2>1. ContactOf[i] \in Contacts BY IdentityAssumption
  <2>2. PICK j \in Ids : Fits(ContactOf[i], j) BY <2>1 DEF LinksDeclared
  <2>3. AliasHome(ContactOf[i], j) BY <2>1, <2>2 DEF HomeInv
  <2> QED BY <2>3 DEF AliasHome
<1> QED BY <1>1, <1>2, InitHomes, IdentityInvariant, PTL DEF Spec

(* ... a contact whose links were learned while nothing was on its way has *)
(* one conversation under all its numbers ...                              *)
THEOREM OneConversation ==
  ASSUME LinksDeclared
  PROVE  Spec => []OneConversationWhenIdle
<1>1. IdentityInv /\ HomeInv /\ GateInv /\ [Next]_vars => HomeInv' /\ GateInv'
  BY NextHomes
<1>2. HomeInv => OneConversationWhenIdle
  <2> SUFFICES ASSUME HomeInv, NEW c \in Contacts, c \notin strained
               PROVE  Cardinality(Of(c)) <= 1
    BY DEF OneConversationWhenIdle
  <2>1. PICK j \in Ids : Fits(c, j) BY DEF LinksDeclared
  <2>2. \A x, y \in Of(c) : x = y BY <2>1 DEF HomeInv, ConvHome
  <2>3. CASE Of(c) = {} BY <2>3, FS_EmptySet
  <2>4. ASSUME NEW x \in Of(c) PROVE Cardinality(Of(c)) <= 1
    <3>1. Of(c) = {x} BY <2>2
    <3>2. Cardinality({x}) = 1 BY FS_Singleton
    <3> QED BY <3>1, <3>2
  <2> QED BY <2>3, <2>4
<1> QED BY <1>1, <1>2, InitHomes, IdentityInvariant, PTL DEF Spec

(* ... and the bot does not answer it while attendants have it, whichever  *)
(* number the next message shows.                                          *)
THEOREM AttendedUnanswered ==
  ASSUME LinksDeclared
  PROVE  Spec => AttendedContactUnanswered
<1>1. IdentityInv /\ HomeInv /\ GateInv /\ [Next]_vars => HomeInv' /\ GateInv'
  BY NextHomes
<1>2. IdentityInv /\ HomeInv /\ GateInv /\ [Next]_vars =>
        [\A i \in Ids : worker.phone = None /\ worker'.phone = i /\ worker'.gate = "answer"
           => ContactOf[i] \notin attended \ strained]_vars
  <2> SUFFICES ASSUME IdentityInv, HomeInv, GateInv, Next, NEW i \in Ids,
                      worker.phone = None, worker'.phone = i, worker'.gate = "answer"
               PROVE  ContactOf[i] \notin attended \ strained
    OBVIOUS
  <2>1. None \notin Ids BY IdentityAssumption
  <2>2. PICK k \in Ids : BeginBatch(k)
    BY <2>1 DEF Next, Resolve, Redeliver, Queue, EndBatch, SetStatus, aliases, queue
  <2>3. k = i BY <2>2 DEF BeginBatch
  <2> QED BY <2>2, <2>3, BeginKeepsHomes
<1> QED BY <1>1, <1>2, InitHomes, IdentityInvariant, PTL DEF Spec, AttendedContactUnanswered
=============================================================================
