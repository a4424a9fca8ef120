--------------------------- MODULE MCContactIdentity ---------------------------
(***************************************************************************)
(* Values of the constants of ContactIdentity for TLC: contact A has a     *)
(* phone in two forms and a LID, contact B a phone; the store a LID.       *)
(***************************************************************************)
EXTENDS ContactIdentity

CONSTANTS A, B

Short == 1
Long  == 2
LidA  == 3
PhoneB == 4
LidStore == 5

MCIds == 1 .. 5
MCTwin == [i \in MCIds |-> IF i = Short THEN Long ELSE IF i = Long THEN Short ELSE None]
MCContactOf == [i \in MCIds |-> IF i = PhoneB THEN B ELSE IF i = LidStore THEN Store ELSE A]

Received(phone, lids, sender) ==
  [phone |-> phone, lids |-> lids, senderLid |-> sender, fromMe |-> FALSE]
Sent(phone, lids) ==
  [phone |-> phone, lids |-> lids, senderLid |-> LidStore, fromMe |-> TRUE]

(* The store writes to A's LID and to B, A writes from the LID and both    *)
(* forms of the phone; a LID that is shown as the phone is declared as one.*)
MCEvents == {"toA", "toB", "lidA", "longA", "shortA"}
MCCallback == [toA    |-> Sent(LidA, <<LidA>>),
               toB    |-> Sent(PhoneB, <<>>),
               lidA   |-> Received(LidA, <<LidA>>, None),
               longA  |-> Received(Long, <<LidA>>, LidA),
               shortA |-> Received(Short, <<LidA>>, LidA)]

=============================================================================
