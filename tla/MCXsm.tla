------------------------------- MODULE MCXsm -------------------------------
(* Small instances of Xsm: two settings, one of them a colour of           *)
(* resource_map, and one value of each kind the code tells apart.          *)
EXTENDS Xsm

CONSTANTS bg, font, red, plain, quoted

MCNames == {bg, font}
MCColorNames == {bg}
MCSysConf == [n \in {bg, font} |-> IF n = bg THEN red ELSE plain]

=============================================================================
