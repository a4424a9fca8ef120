---------------------------- MODULE MCConversation ----------------------------
(* Values of the constants of Conversation for TLC. *)
EXTENDS Conversation, TLC

CONSTANTS client, owner, w1, w2

Interchangeable == Permutations({w1, w2})

MCPhones == {client, owner}
MCMessages == {"m0", "m1", "m2", "m3", "hand", "resume", "release", "greeting"}
MCKind == [m0 |-> "text", m1 |-> "text", m2 |-> "text", m3 |-> "media",
           hand |-> "manual", resume |-> "command", release |-> "command",
           greeting |-> "ignored"]
MCCommand == [resume  |-> [action |-> "resume", target |-> client],
              release |-> [action |-> "release_all", target |-> client]]

(* A retry may decide otherwise: a handoff, a photo, another before it. *)
MCPhotos == {"front", "back"}
WithoutPhotos == [handoff : {"yes", "no"}, photos : {<<>>}]
MCDecisions ==
  {[handoff |-> "yes", photos |-> <<>>]}
    \cup [handoff : {"no"}, photos : {<<"front">>, <<"back", "front">>}]

(* Two turns of a customer side by side. *)
TwoTurns == {1, 2}
ClientOnly == [t \in TwoTurns |-> client]
TwoTurnsPayload == <<<<"m0">>, <<"m1">>>>

(* A first turn with a command the customer may not give, one in which the *)
(* store replies by hand, and one of an attendant's commands.              *)
ThreeTurns == {1, 2, 3}
WithOwner == [t \in ThreeTurns |-> IF t = 3 THEN owner ELSE client]
ManualPayload == <<<<"release", "m0">>, <<"m1", "hand", "greeting", "m3">>,
                   <<"resume">>>>
=============================================================================
