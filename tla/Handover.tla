------------------------------- MODULE Handover -------------------------------
(***************************************************************************)
(* What a conversation promises when the bot and the attendants share it:  *)
(* only the bot asks for an attendant, only for a conversation it still    *)
(* has, each request entitles it to one notification per attendant, and    *)
(* only attendants give a conversation back or close it.                   *)
(***************************************************************************)
EXTENDS Naturals

CONSTANTS Phones,  \* contacts
          Tickets  \* entitlements to notify one attendant once

VARIABLES status,  \* who has the conversation of a contact
          due,     \* the tickets that are still open for a contact
          notices  \* notifications sent about a contact

vars == <<status, due, notices>>

Init == /\ status = [p \in Phones |-> "none"]
        /\ due = [p \in Phones |-> {}]
        /\ notices = [p \in Phones |-> 0]

(* A first message, in or out, opens the conversation for the bot. *)
Open(p) == /\ status[p] = "none"
           /\ status' = [status EXCEPT ![p] = "bot_active"]
           /\ UNCHANGED <<due, notices>>

(* The bot asks for an attendant. *)
HandOver(p, tickets) ==
  /\ status[p] = "bot_active"
  /\ tickets \cap due[p] = {}
  /\ status' = [status EXCEPT ![p] = "human_pending"]
  /\ due' = [due EXCEPT ![p] = @ \cup tickets]
  /\ UNCHANGED notices

(* A ticket is used; the attendant's own conversation may open with it. *)
Notify(p, ticket) ==
  /\ ticket \in due[p]
  /\ due' = [due EXCEPT ![p] = @ \ {ticket}]
  /\ notices' = [notices EXCEPT ![p] = @ + 1]
  /\ \/ UNCHANGED status
     \/ \E a \in Phones : /\ status[a] = "none"
                          /\ status' = [status EXCEPT ![a] = "bot_active"]

(* Tickets are lost in a crash or a failed notification. *)
Lose(p, tickets) ==
  /\ tickets \subseteq due[p]
  /\ due' = [due EXCEPT ![p] = @ \ tickets]
  /\ UNCHANGED <<status, notices>>

(* An attendant decides about one conversation, or releases those that     *)
(* wait for an attendant or have one; a closed conversation stays closed.  *)
Decide(p, s) ==
  /\ status' = [status EXCEPT ![p] = s]
  /\ UNCHANGED <<due, notices>>
ReleaseAll ==
  /\ status' = [p \in Phones |-> IF status[p] \in {"human_pending", "human_active"}
                                THEN "bot_active" ELSE status[p]]
  /\ UNCHANGED <<due, notices>>

Next ==
  \/ ReleaseAll
  \/ \E p \in Phones :
       \/ Open(p)
       \/ \E tickets \in SUBSET Tickets : HandOver(p, tickets) \/ Lose(p, tickets)
       \/ \E ticket \in Tickets : Notify(p, ticket)
       \/ \E s \in {"human_active", "bot_active", "closed"} : Decide(p, s)

Spec == Init /\ [][Next]_vars
=============================================================================
