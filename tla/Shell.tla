-------------------------------- MODULE Shell --------------------------------
(***************************************************************************)
(* Six of the programs and parts that share no state with the rest: the    *)
(* icons of ede-desktop, the panel with its hider and tray, the start      *)
(* menu, the calculator, pekwm's command dialog and its harbour.  A state  *)
(* is that of one of them; every step is one of it.                        *)
(***************************************************************************)
EXTENDS Integers, Sequences, FiniteSets, SequencesExt

CONSTANTS
    Icons, MaxSel,                                   \* of Desktop
    Screens, Percents, TrayWindows, MaxTimers,           \* of Panel
    MaxTime, MaxVersion,                             \* of StartMenu
    Chars, Starts, Dictionary, Width,                \* of Prompt
    HistorySize, HistoryUnique, MaxBuf, MaxLine,
    Operators, Levels, MaxBrackets, MaxKeys,         \* of Calc
    Apps, Position, Sizes, HeadX, HeadLength, MaxLoose   \* of Harbour

VARIABLES which,          \* the program
          s               \* its state

D == INSTANCE Desktop WITH desk <- s
A == INSTANCE Panel WITH pan <- s, Windows <- TrayWindows
M == INSTANCE StartMenu WITH sm <- s
P == INSTANCE Prompt WITH dlg <- s
C == INSTANCE Calc WITH calc <- s, MaxLine <- MaxKeys
H == INSTANCE Harbour WITH hb <- s

(* What the dialog is opened with and what its completions are, is text;   *)
(* a screen has room for the button that hides the panel, whose width is a *)
(* percentage; priorities are numbers, and a dock app is not empty.        *)
Letters == Chars \cup {P!Blank} \cup UNION {ToSet(w) : w \in Starts \cup ToSet(Dictionary)}
Text == Seq(Letters)

ASSUME ShellAssumption ==
    /\ Screens \subseteq {n \in Nat : n >= 10} /\ Percents \subseteq Nat
    /\ Starts \subseteq Text /\ Dictionary \in Seq(Text)
    /\ Width \in Nat /\ HistorySize \in Nat /\ HistoryUnique \in BOOLEAN
    /\ Levels \subseteq Nat /\ IsFiniteSet(Levels)
    /\ Position \in [Apps -> Int] /\ Sizes \subseteq Nat \ {0}
    /\ HeadX \in Nat /\ HeadLength \in Nat

ShellInit ==
    \/ which = "desktop"    /\ D!Init
    \/ which = "panel"      /\ A!Init
    \/ which = "start_menu" /\ M!Init
    \/ which = "prompt"     /\ P!Init
    \/ which = "calculator" /\ C!Init
    \/ which = "harbour"    /\ H!Init

DesktopStep   == which = "desktop"    /\ D!Next /\ UNCHANGED which
PanelStep     == which = "panel"      /\ A!Next /\ UNCHANGED which
StartMenuStep == which = "start_menu" /\ M!Next /\ UNCHANGED which
PromptStep    == which = "prompt"     /\ P!Next /\ UNCHANGED which
CalcStep      == which = "calculator" /\ C!Next /\ UNCHANGED which
HarbourStep   == which = "harbour"    /\ H!Next /\ UNCHANGED which

ShellNext ==
    DesktopStep \/ PanelStep \/ StartMenuStep \/ PromptStep \/ CalcStep \/ HarbourStep

ShellSpec == ShellInit /\ [][ShellNext]_<<which, s>>

----------------------------------------------------------------------------
(* The selection of ede-desktop is the one that is shown, and no window of *)
(* a dragged icon stays behind (Desktop::handle() and what it calls).      *)
DesktopRight == which = "desktop" => D!SelectionShown /\ D!DragEnds

(* The panel is where it should be once nothing moves, and its tray holds  *)
(* no dead window (Hider::animate(), Panel::do_layout(), Tray).            *)
PanelRight == which = "panel" => A!PanelSettled /\ A!TrayAlive

(* The start menu shown is the one of the files on the disk, and is not    *)
(* deleted while it is open (StartMenu::reload_menu(), popup()).           *)
StartMenuRight == which = "start_menu" => M!MenuFresh

(* The cursor of pekwm's command dialog is in the text, and the completion *)
(* at its end replaces the last word (InputDialog, CmdDialog, Completer).  *)
PromptRight == which = "prompt" => P!CursorInText /\ P!CompletesLastWord

(* ede-calc shows the value of the line that was typed, and its stack is   *)
(* no higher than the priorities and the brackets there are allow          *)
(* (SciCalc::handle_operator(), brackets, EVAL).                           *)
CalcRight == which = "calculator" => C!EvaluatesLine /\ C!StackRises

(* Dock apps that were placed do not overlap, and the strut is as wide as  *)
(* the widest of them (Harbour::placeDockApp(), updateHarbourSize()).      *)
HarbourRight == which = "harbour" => H!DockAppsApart /\ H!StrutFits
=============================================================================
