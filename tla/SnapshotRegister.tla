-------------------------- MODULE SnapshotRegister --------------------------
(***************************************************************************)
(* What the cache of one source promises, without locks, times to live or  *)
(* failures: each process shows a whole version the source really had,     *)
(* moves to later versions only while it lives, and restarts with the one  *)
(* that was saved.  SourceCache implements it.                             *)
(***************************************************************************)
EXTENDS Naturals

CONSTANTS Processes
VARIABLES offered,  \* the latest version of the source
          shown,    \* the version each process shows, 0 for none
          saved     \* the version kept for a restart, 0 for none

vars == <<offered, shown, saved>>

Init == /\ offered = 1
        /\ saved \in 0..1
        /\ shown = [p \in Processes |-> saved]

Change == /\ offered' = offered + 1
          /\ UNCHANGED <<shown, saved>>

(* The new version is saved for both processes, unless that fails. *)
Refresh(p) == /\ \E v \in shown[p]..offered :
                   /\ shown' = [shown EXCEPT ![p] = v]
                   /\ saved' \in {saved, v}
              /\ UNCHANGED offered

Restart(p) == /\ shown' = [shown EXCEPT ![p] = saved]
              /\ UNCHANGED <<offered, saved>>

Next == \/ Change
        \/ \E p \in Processes : Refresh(p) \/ Restart(p)

Spec == Init /\ [][Next]_vars
=============================================================================
