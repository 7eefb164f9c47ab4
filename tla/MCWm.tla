-------------------------------- MODULE MCWm -------------------------------
(* Windows and owners for TLC.                                             *)
EXTENDS Wm

CONSTANTS c1, c2

\* no dialogs, or c2 a dialog of c1
NoTransients == [c \in Clients |-> None]
OneTransient == [c \in Clients |-> IF c = c2 THEN c1 ELSE None]

Symmetry == {p @@ q : p \in Permutations(Clients), q \in Permutations(Frames)}
============================================================================
