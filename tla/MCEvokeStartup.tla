-------------------------- MODULE MCEvokeStartup --------------------------
(* Small instances of EvokeStartup: four entries, one without an "exec"    *)
(* key, one written with a space.                                          *)
EXTENDS EvokeStartup

CONSTANTS wm, desktop, panel

Entry(n, spaced, exec) == [name |-> n, spaced |-> spaced, exec |-> exec]
MCOrder == <<Entry(wm, FALSE, TRUE), Entry(desktop, FALSE, FALSE),
             Entry(panel, FALSE, TRUE), Entry(panel, TRUE, TRUE)>>
=============================================================================
