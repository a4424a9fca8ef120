---------------------------- MODULE MCRecoverySend ----------------------------
(* Values of the constants of RecoverySend for TLC. *)
EXTENDS RecoverySend

CONSTANTS s1, s2, s3, e1, e2, web1, web2

(* The first draft is confirmed in both processes; s3 answers the state of *)
(* the conversation after one more turn.                                   *)
MCWebOf == [x \in Senders \cup Events |-> IF x \in {s2, e2} THEN web2 ELSE web1]
MCSeen == [s \in Senders |-> IF s = s3 THEN 2 ELSE 1]
=============================================================================
