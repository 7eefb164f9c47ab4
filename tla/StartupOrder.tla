---------------------------- MODULE StartupOrder ----------------------------
(***************************************************************************)
(* What "evoke --startup" promises: each instance starts the wanted items  *)
(* in their order, none twice and none skipped; one that gives up early    *)
(* starts no more.                                                         *)
(***************************************************************************)
EXTENDS Integers, Sequences

CONSTANTS Procs, Wanted

VARIABLES log, over

Init ==
    /\ log = [p \in Procs |-> <<>>]
    /\ over = [p \in Procs |-> FALSE]

StartItem(p) ==
    /\ ~over[p]
    /\ Len(log[p]) < Len(Wanted)
    /\ log' = [log EXCEPT ![p] = Append(@, Wanted[Len(@) + 1])]
    /\ UNCHANGED over

GiveUp(p) ==
    /\ over' = [over EXCEPT ![p] = TRUE]
    /\ UNCHANGED log

Next == \E p \in Procs : StartItem(p) \/ GiveUp(p)

Spec == Init /\ [][Next]_<<log, over>>
=============================================================================
