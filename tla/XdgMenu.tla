------------------------------- MODULE XdgMenu ------------------------------
(***************************************************************************)
(* ede-panel's start menu: how XdgMenuReader turns a menu file and the     *)
(* .desktop files found into the menu that is shown.  A document is read   *)
(* into a tree of parse contexts; two passes over it give the menus with   *)
(* their entries, which are then laid out as the one array that FLTK       *)
(* takes.  The whole of it is one action, Load; what varies is the         *)
(* document and the files.                                                 *)
(*                                                                         *)
(* An entry's name is its id, categories are those of its file, and every  *)
(* file is a valid one; menus are ordered by their names, numbers.  The    *)
(* files are those of the top menu's <DefaultAppDirs>: an AppDir of a      *)
(* submenu, icons and .directory files are left out.                       *)
(***************************************************************************)
EXTENDS Integers, Sequences, FiniteSets, SequencesExt

CONSTANTS Ids,          \* ids of .desktop files, numbers: their order by name
          Categories,
          Rules,        \* the rules that documents use
          Exclusions,   \* the lists of rules that they exclude entries by
          Disks         \* sequences of ids: the files, in the order they are found

VARIABLE xm             \* the document, and the menu once it was loaded

No == <<>>              \* no rules, no menu, no submenus

Sub(name, inc, exc, only, deleted) ==
    [name |-> name, include |-> inc, exclude |-> exc, only |-> only,
     deleted |-> deleted, subs |-> No]

Init ==
    \E cats \in [Ids -> SUBSET Categories], disk \in Disks, r1, r2 \in Rules,
       exc \in Exclusions, only1, only2, deleted \in BOOLEAN :
         xm = [cats |-> cats, disk |-> disk, loaded |-> FALSE,
               top |-> [name |-> 0, include |-> No, exclude |-> No, only |-> FALSE,
                        deleted |-> FALSE,
                        subs |-> << Sub(2, <<r1>>, exc, only1, FALSE),
                                    Sub(1, <<r2>>, No, only2, deleted) >>],
               all |-> No, menu |-> No, array |-> No]

----------------------------------------------------------------------------
(* MenuRules.  A rule is [op, arg, sub]; sub is in the order of the file,  *)
(* and the list is built, and walked, the other way round.                 *)

InCategory(cats, id, c) == c \in cats[id]

(* eval_with_stack(): an operator takes whatever is on the stack.          *)
RECURSIVE EvalWithStack(_, _, _, _)
EvalWithStack(stack, m, cats, id) ==
    LET s == FoldLeft(LAMBDA acc, r : EvalWithStack(acc, r, cats, id),
                      stack, Reverse(m.sub))
    IN  CASE m.op = "all"      -> <<TRUE>> \o s
          [] m.op = "filename" -> <<m.arg = id>> \o s
          [] m.op = "category" -> <<InCategory(cats, id, m.arg)>> \o s
          [] m.op = "and"      -> << FALSE \notin ToSet(s) >>
          [] m.op = "or"       -> << TRUE \in ToSet(s) >>
          [] m.op = "not"      -> << TRUE \notin ToSet(s) >>

MenuRulesEval(m, cats, id) == TRUE \in ToSet(EvalWithStack(No, m, cats, id))

Matches(rules, cats, id) == \E m \in ToSet(rules) : MenuRulesEval(m, cats, id)

----------------------------------------------------------------------------
(* The entries.  An entry is [id, age], its age the number of files found  *)
(* before it.                                                              *)

Entries(disk) == [i \in DOMAIN disk |-> [id |-> disk[i], age |-> i]]

(* id_age_sorter() is no order: a file found earlier and a smaller id that *)
(* is found later are neither way round.  All that sorting with it assures *)
(* is that no two neighbours are the wrong way round.                      *)
Younger(u, v) == u.id < v.id /\ u.age < v.age

Sortings(lst) ==
    { q \in {[i \in DOMAIN lst |-> lst[p[i]]] :
                p \in {p \in [DOMAIN lst -> DOMAIN lst] : IsInjective(p)}} :
        \A i \in 1..(Len(lst) - 1) : ~ Younger(q[i + 1], q[i]) }

(* desktop_entry_list_remove_duplicates(), after the sort: neighbours.     *)
Unique(lst) ==
    FoldLeft(LAMBDA acc, e : IF acc # No /\ Last(acc).id = e.id THEN acc ELSE Append(acc, e),
             No, lst)

NameSort(lst) == SortSeq(lst, LAMBDA u, v : u.id < v.id)
MenuSort(lst) == SortSeq(lst, LAMBDA c, d : c.name < d.name)

----------------------------------------------------------------------------
(* menu_parse_context_to_menu_context(): in the first pass without the     *)
(* menus for unallocated entries, in the second one for all menus, from    *)
(* the unallocated entries.  An empty menu is dropped.                     *)

Included(m, pool, cats) == SelectSeq(pool, LAMBDA e : Matches(m.include, cats, e.id))

Items(m, pool, cats) ==
    NameSort(SelectSeq(Included(m, pool, cats), LAMBDA e : ~ Matches(m.exclude, cats, e.id)))

RECURSIVE ToMenu(_, _, _, _)
ToMenu(m, pool, cats, second) ==
    IF m.only /\ ~ second THEN No
    ELSE LET items == Items(m, pool, cats)
             subs == FoldLeft(LAMBDA acc, c : acc \o ToMenu(c, pool, cats, second), No, m.subs)
         IN  IF items = No /\ subs = No THEN No
             ELSE << [name |-> m.name, show |-> ~ m.deleted, items |-> items, subs |-> subs] >>

(* Mutant: an entry that a menu excludes counts as unallocated.            *)
RECURSIVE AllocatedShown(_, _, _)
AllocatedShown(m, pool, cats) ==
    IF m.only THEN {}
    ELSE ToSet(Items(m, pool, cats))
         \cup UNION {AllocatedShown(c, pool, cats) : c \in ToSet(m.subs)}

(* The entries that some menu of the first pass has included.              *)
RECURSIVE Allocated(_, _, _)
Allocated(m, pool, cats) ==
    IF m.only THEN {}
    ELSE ToSet(Included(m, pool, cats)) \cup UNION {Allocated(c, pool, cats) : c \in ToSet(m.subs)}

(* menu_parse_context_list_to_menu_context_list(): the submenus of the     *)
(* second pass follow those of the first; when either pass gives nothing,  *)
(* what follows is left undone, the sorting of the menus too.              *)
Merge(first, second) ==
    IF first = No \/ second = No THEN first
    ELSE << [first[1] EXCEPT !.subs = MenuSort(@ \o second[1].subs)] >>

Unallocated(top, lst, cats) ==
    SelectSeq(lst, LAMBDA e : e \notin Allocated(top, lst, cats))

ContextList(top, lst, cats) ==
    Merge(ToMenu(top, lst, cats, FALSE), ToMenu(top, Unallocated(top, lst, cats), cats, TRUE))

----------------------------------------------------------------------------
(* The array: a submenu's title, its submenus, its entries, and an end.    *)

EndMark == [is |-> "end", of |-> 0]
Title(c) == [is |-> "submenu", of |-> c.name]
Entry(e) == [is |-> "item", of |-> e.id]
Logout == [is |-> "logout", of |-> 0]

(* construct_edelib_menu(); Logout goes into a menu that begins at 0.      *)
RECURSIVE Construct(_, _)
Construct(mi, c) ==
    IF ~ c.show THEN mi
    ELSE FoldLeft(Construct, Append(mi, Title(c)), c.subs)
           \o [i \in DOMAIN c.items |-> Entry(c.items[i])]
           \o (IF mi = No THEN <<Logout>> ELSE No) \o <<EndMark>>

ConstructAll(lst) ==
    Append(FoldLeft(LAMBDA mi, c : Construct(mi, c), No, lst), EndMark)

(* menu_context_list_count(), by which the array is allocated.             *)
RECURSIVE Count(_)
Count(c) == 2 + Len(c.items) + FoldLeft(LAMBDA n, d : n + Count(d), 0, c.subs)

Show(s, menu) == [s EXCEPT !.loaded = TRUE, !.menu = menu,
                           !.array = IF menu = No THEN No ELSE ConstructAll(menu)]

Load ==
    /\ ~ xm.loaded
    /\ \E q \in Sortings(Entries(xm.disk)) :
         xm' = Show([xm EXCEPT !.all = Unique(q)],
                    ContextList(xm.top, Unique(q), xm.cats))

Next == Load

Spec == Init /\ [][Next]_xm

----------------------------------------------------------------------------
(* The reference: what the rules mean.                                     *)
RECURSIVE Means(_, _, _)
Means(m, cats, id) ==
    CASE m.op = "all"      -> TRUE
      [] m.op = "filename" -> m.arg = id
      [] m.op = "category" -> m.arg \in cats[id]
      [] m.op = "and"      -> \A r \in ToSet(m.sub) : Means(r, cats, id)
      [] m.op = "or"       -> \E r \in ToSet(m.sub) : Means(r, cats, id)
      [] m.op = "not"      -> ~ \E r \in ToSet(m.sub) : Means(r, cats, id)

(* The rules the stack is good for: an operator comes last among others.   *)
RECURSIVE Simple(_)
Simple(m) ==
    \A i \in DOMAIN m.sub :
        /\ Simple(m.sub[i])
        /\ m.sub[i].op \in {"and", "or", "not"} => i = Len(m.sub)

Wanted(m, cats, id) ==
    /\ \E r \in ToSet(m.include) : Means(r, cats, id)
    /\ ~ \E r \in ToSet(m.exclude) : Means(r, cats, id)

Claimed(m, cats, id) == ~ m.only /\ \E r \in ToSet(m.include) : Means(r, cats, id)

Elsewhere(cats, id) == \E m \in ToSet(xm.top.subs) : Claimed(m, cats, id)

Menus == IF xm.menu = No THEN {} ELSE ToSet(xm.menu[1].subs)
ItemIds(name) == UNION {{e.id : e \in ToSet(c.items)} : c \in {c \in Menus : c.name = name}}

(* With rules the stack is good for, a menu holds what its rules say: an   *)
(* ordinary one the entries included and not excluded, one for unallocated *)
(* entries those of them that no ordinary menu has included - as long as   *)
(* the document has an ordinary menu that is not empty.                    *)
MenusAsWritten ==
    /\ xm.loaded /\ xm.menu # No
    /\ \A m \in ToSet(xm.top.subs) : \A r \in ToSet(m.include \o m.exclude) : Simple(r)
    =>
        \A m \in ToSet(xm.top.subs) :
            ItemIds(m.name) = {id \in ToSet(xm.disk) :
                                  Wanted(m, xm.cats, id)
                                  /\ (m.only => ~ Elsewhere(xm.cats, id))}

(* The array fits into what was allocated for it, every submenu in it is   *)
(* ended where it should be, one Logout is there, and it holds each entry  *)
(* of each menu shown, and no other.                                       *)
ArrayNested ==
    xm.loaded /\ xm.menu # No =>
        LET a == xm.array
            depth(i) == Cardinality({k \in 1..i : a[k].is = "submenu"})
                        - Cardinality({k \in 1..i : a[k].is = "end"})
        IN  /\ Len(a) <= Count(xm.menu[1]) + 2
            /\ \A i \in 1..(Len(a) - 2) : depth(i) >= 1
            /\ depth(Len(a)) = -1
            /\ Cardinality({k \in DOMAIN a : a[k].is = "logout"}) = 1
            /\ \A c \in Menus : c.show =>
                 \E k \in DOMAIN a :
                     /\ a[k] = Title(c)
                     /\ \A i \in DOMAIN c.items : a[k + i] = Entry(c.items[i])
                     /\ a[k + Len(c.items) + 1] = EndMark

(* No entry is twice in a menu ("remove duplicate id's",                   *)
(* XdgMenuReader.cpp:677), and the menus are sorted ("sort everthing at    *)
(* the end", :723).  Neither is so: a file found twice with another one,   *)
(* of a smaller id, between them stays, and without a menu of unallocated  *)
(* entries nothing is sorted.                                              *)
NoDuplicates == \A c \in Menus : Cardinality({e.id : e \in ToSet(c.items)}) = Len(c.items)
MenusSorted ==
    xm.menu # No => \A i, j \in DOMAIN xm.menu[1].subs :
        i <= j => xm.menu[1].subs[i].name <= xm.menu[1].subs[j].name
=============================================================================
