--------------------------- MODULE MCMessageQueue ---------------------------
(***************************************************************************)
(* Small instances of MessageQueue for TLC: contact A writes a1 and a2,    *)
(* contact B writes b1.                                                    *)
(***************************************************************************)
EXTENDS MessageQueue, TLC

CONSTANTS a1, a2, b1, A, B

MCPhoneOf == [e \in Events |-> IF e = b1 THEN B ELSE A]

MCNoLegacy  == <<>>
MCOneLegacy == <<b1>>

(* 2 and 4 seconds of backoff against 10 of debounce and 300 of lease. *)
MCRetryDelay == [n \in 1 .. 2 |-> 1]

WorkerSymmetry == Permutations(Workers)
=============================================================================
