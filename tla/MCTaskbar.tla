----------------------------- MODULE MCTaskbar -----------------------------
EXTENDS Taskbar

Symmetry == Permutations(Windows) \cup Permutations(Workspaces)

(* Bound: with more than two windows about, they stay on one workspace and *)
(* none is minimized; with a window moved unnoticed there is one other at  *)
(* most, which was not, none is minimized, and no button is remembered but *)
(* one for curr_active.                                                    *)
Pair == Cardinality(Mapped \cup Buttons) <= 2
Bound ==
    /\ \/ Pair
       \/ iconic = {} /\ \A v, w \in Windows : desktop[v] = desktop[w]
    /\ lost # {} => /\ Pair /\ Cardinality(lost) = 1 /\ iconic = {}
                    /\ prev_active = None /\ curr_active # Freed
=============================================================================
