---------------------------- MODULE MCFrameState ---------------------------
EXTENDS FrameState, TLC

CONSTANTS c1, c2

Plain == [border |-> TRUE, titlebar |-> TRUE, shaded |-> FALSE, full |-> FALSE,
          maxh |-> FALSE, maxv |-> FALSE, layer |-> NORMAL, height |-> 4]

(* A plain window, one without decoration that asks to be shaded, and those *)
(* from an earlier session.                                                 *)
SomeArriving ==
    {Plain,
     [Plain EXCEPT !.border = FALSE, !.titlebar = FALSE, !.shaded = TRUE],
     [Plain EXCEPT !.shaded = TRUE, !.full = TRUE],
     [Plain EXCEPT !.maxv = TRUE, !.layer = BELOW]}

(* Filling and layers are tried without what makes the sizes many.          *)
SizeOps == Ops \ {"layer", "fill"}
FillOps == {"maximize", "fill", "fullscreen", "shade"}
LayerOps == {"fullscreen", "layer", "shade"}

AllConfigs ==
    {[above |-> FALSE, detect |-> d, narrow |-> ~ d, ops |-> SizeOps] : d \in BOOLEAN}
    \cup {[above |-> FALSE, detect |-> FALSE, narrow |-> FALSE, ops |-> FillOps],
          [above |-> TRUE, detect |-> FALSE, narrow |-> FALSE, ops |-> LayerOps]}

Symmetry == Permutations(Children)
============================================================================
