------------------------------ MODULE MCWmAll ------------------------------
(* Wm with two history variables.  Windows that were detached and sticky   *)
(* frames may have any workspace: the model is kept small by following a   *)
(* behaviour for MaxAfter more requests after that.                        *)
EXTENDS MCWm

CONSTANT MaxAfter

VARIABLES
    handled,  \* the events handled since the last request, while any are left
    after     \* the requests from the first that detached a window or made a
              \* frame sticky on, that one included

CountingInit == Init /\ handled = 0 /\ after = 0

Detached == Managed' = Managed /\ Live' # Live /\ Live \subseteq Live'
MadeSticky == \E f \in Frames : s'.fsticky[f] /\ ~ s.fsticky[f]

CountingNext ==
    \/ /\ HandleEvent
       /\ handled' = IF Quiet' THEN 0 ELSE handled + 1
       /\ after' = after
    \/ /\ Request /\ after <= MaxAfter
       /\ handled' = 0
       /\ after' = IF after > 0 \/ Detached \/ MadeSticky THEN after + 1 ELSE 0

CountingSpec == CountingInit /\ [][CountingNext]_<<s, handled, after>>

FrameSymmetry == Permutations(Frames)

(* The manager does not go on answering events its own answers cause: a   *)
(* request of a user or a program is over after five of them.             *)
Settles == handled < 5
============================================================================
