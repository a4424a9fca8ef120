---------------------------- MODULE MCSourceCache ----------------------------
(* Values of the constants of SourceCache for TLC. *)
EXTENDS SourceCache

CONSTANTS web, worker, q1, q2

In(p, k) == [process |-> p, kind |-> k]
Pair(second) == [r \in Requests |-> IF r = q1 THEN In(web, "search") ELSE second]

(* A search and a list meet at the locks of the web process, or the search *)
(* shares the files with the hourly refresh of the worker.                 *)
MCUses == {Pair(In(web, "list")), Pair(In(worker, "refresh inventory"))}
=============================================================================
