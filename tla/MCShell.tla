------------------------------- MODULE MCShell -------------------------------
(***************************************************************************)
(* The model-checked instances of the programs and parts that share no     *)
(* state with the rest: those of Shell.tla, and the reading of the start   *)
(* menu, pekwm's menus and its order of windows.  A state is that of one   *)
(* of them; every step is one of it.                                       *)
(***************************************************************************)
EXTENDS Shell, TLC

CONSTANTS o1, o2, o3,     \* three of a kind: icons, windows
          dock, none, plus, minus, times

(* The constants of Shell.                                                 *)
MCThree == {o1, o2, o3}
MCWindows == {o1, o2}
MCStarts == { <<>>, <<"a", " ", "a">> }
MCDictionary == << <<"a", "b">> >>

(* The rules of menu files: one category, all, and what can be made of     *)
(* two of them, in an order that the stack is good for and in another.     *)
Cat(c) == [op |-> "category", arg |-> c, sub |-> <<>>]
Op(o, sub) == [op |-> o, arg |-> 0, sub |-> sub]
IsNot(c) == Op("not", <<Cat(c)>>)

MCRules == { Cat("x"), Op("all", <<>>), IsNot("x"),
             [op |-> "filename", arg |-> 1, sub |-> <<>>],
             Op("and", <<Cat("x"), IsNot("y")>>), Op("and", <<IsNot("y"), Cat("x")>>),
             Op("or", <<Cat("y"), Op("and", <<Cat("x"), Cat("y")>>)>>) }

MCExclusions == { <<>>, << [op |-> "filename", arg |-> 1, sub |-> <<>>], IsNot("x") >> }

(* A menu with two submenus: one of the file, which has a submenu itself,  *)
(* and one that a command fills, with an item, a submenu or nothing.       *)
Item(t, m, d, h) == [type |-> t, menu |-> m, dynamic |-> d, hides |-> h]
MCTree == [root |-> << Item("normal", "a", FALSE, FALSE), Item("separator", "none", FALSE, FALSE),
                       Item("normal", "b", FALSE, FALSE) >>,
           a |-> << Item("normal", "c", FALSE, FALSE) >>,
           b |-> << Item("hidden", "none", FALSE, FALSE) >>,
           c |-> << Item("normal", "none", FALSE, TRUE) >>]
MCParent == [root |-> "none", a |-> "root", b |-> "root", c |-> "a", d |-> "b"]
MCOutputs == { <<>>, << Item("normal", "d", TRUE, FALSE) >>,
               << Item("normal", "none", TRUE, TRUE) >> }

(* Submenus open by a click, under the pointer, and both; the first is     *)
(* what pekwm installs.                                                    *)
MCConfigs == { [select |-> {"motion", "motion pressed"}, enter |-> e, exec |-> {"release"}] :
               e \in { {"motion pressed", "press"}, {"motion"}, {"motion", "motion pressed"} } }

MCOperators == {plus, minus, times}
MCPosition == [d1 |-> 1, d2 |-> 0, d3 |-> -1]

X == INSTANCE XdgMenu WITH xm <- s, Ids <- {1, 2}, Categories <- {"x", "y"},
                           Rules <- MCRules, Exclusions <- MCExclusions,
                           Disks <- { <<>>, <<1, 2>>, <<2, 1, 2>> }

K == INSTANCE Stacking WITH st <- s, Wins <- MCThree, Dock <- dock, None <- none,
                            StartLayers <- {4}, MaxLayer <- 6, MaxAsked <- 2

U == INSTANCE Menus WITH mn <- s, Tree <- MCTree, Root <- "root", Parent <- MCParent,
                         None <- "none", Outputs <- MCOutputs, Configs <- MCConfigs

Init ==
    \/ ShellInit
    \/ which = "xdg menu"   /\ X!Init
    \/ which = "stacking"   /\ K!Init
    \/ which = "menus"      /\ U!Init

XdgMenuStep   == which = "xdg menu"   /\ X!Next /\ UNCHANGED which
StackingStep  == which = "stacking"   /\ K!Next /\ UNCHANGED which
MenusStep     == which = "menus"      /\ U!Next /\ UNCHANGED which

Next == ShellNext \/ XdgMenuStep \/ StackingStep \/ MenusStep

Spec == Init /\ [][Next]_<<which, s>>

(* No program tells its icons or windows apart.  (The panel has two of the *)
(* three: two of its states that are permutations of each other are so by  *)
(* exchanging those two.)                                                  *)
Symmetry == Permutations(MCThree)

----------------------------------------------------------------------------
(* The menus hold what the rules say, and the array that FLTK is given is  *)
(* well nested and fits (xdg_menu_load(), construct_edelib_menu()).        *)
XdgMenuRight == which = "xdg menu" => X!MenusAsWritten /\ X!ArrayNested

(* Manager, X server and pagers agree on the order of the windows, which   *)
(* is by layer and has dialogs above owners (Workspaces, Frame::setLayer). *)
StackingRight == which = "stacking" => K!Stacked

(* pekwm's submenus are open only with the menu they belong to, and, where *)
(* selecting and entering are one, one at a time (PMenu, ActionMenu).      *)
MenusRight == which = "menus" => U!Rooted /\ U!OpenIsSelected
=============================================================================
