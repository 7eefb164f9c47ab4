------------------------------- MODULE Prompt -------------------------------
(***************************************************************************)
(* pekwm's command dialog: the edit buffer of InputDialog, its cursor and  *)
(* the part of it that is drawn, the history and the completion of         *)
(* CmdDialog and Completer.                                                *)
(*                                                                         *)
(* A character is a member of Chars or a blank and as wide as any other;   *)
(* positions count from 0, as in the code.  The ";" that divides a line    *)
(* into parts is left out, and the actions, menus and programs that can    *)
(* complete a word are the words of Dictionary that begin with it.  A key  *)
(* runs one input action, as in the configuration that pekwm installs.     *)
(***************************************************************************)
EXTENDS Naturals, Sequences, FiniteSets, SequencesExt, Sieve

CONSTANTS Chars,        \* what is typed besides the blank
          Starts,       \* the texts the dialog is opened with
          Dictionary,   \* the completions, a sequence of words
          Width,        \* the characters that fit into the dialog
          HistorySize,  \* HistorySize of the configuration
          HistoryUnique,\* HistoryUnique of the configuration
          MaxBuf,       \* nothing is typed into a buffer of this length
          MaxLine       \* no longer line is executed

VARIABLE dlg            \* the dialog, as one record

Blank == " "
Nothing == <<>>

Init ==
    dlg = [ mapped |-> FALSE, buf |-> Nothing, pos |-> 0, off |-> 0,
            on |-> Nothing, res |-> Nothing, posOn |-> 0,  \* _buf_on_complete,
                                         \* _buf_on_complete_result, _pos_on_complete
            list |-> <<>>, it |-> 1,     \* _complete_list, _complete_it
            hist |-> <<>>, hit |-> 1,    \* _hist_list, _hist_it
            new |-> Nothing ]            \* _hist_new

----------------------------------------------------------------------------
(* Completer.                                                              *)

BlanksBefore(s, pos) == {i \in 0..(Len(s) - 1) : i <= pos /\ s[i + 1] = Blank}
BlanksFrom(s, pos)   == {i \in 0..(Len(s) - 1) : i >= pos /\ s[i + 1] = Blank}

WordBegin(s, pos) ==
    IF BlanksBefore(s, pos) = {} THEN 0
    ELSE 1 + CHOOSE i \in BlanksBefore(s, pos) : \A j \in BlanksBefore(s, pos) : j <= i

(* On a blank the word would end before it begins: its length is then      *)
(* huge and runs to the end of the text.                                   *)
WordEnd(s, pos) ==
    IF BlanksFrom(s, pos) = {} \/ pos \in BlanksFrom(s, pos) THEN Len(s)
    ELSE CHOOSE i \in BlanksFrom(s, pos) : \A j \in BlanksFrom(s, pos) : i <= j

WordAt(s, pos) == SubSeq(s, WordBegin(s, pos) + 1, WordEnd(s, pos))

FindCompletions(s, pos) ==
    IF ToSet(s) \subseteq {Blank} THEN <<>>
    ELSE Sieve(Dictionary, {w \in ToSet(Dictionary) : IsPrefix(WordAt(s, pos), w)})

(* do_complete(): the text and the cursor that the it-th completion gives, *)
(* or the end of the list.  pos is the cursor as the last call left it.    *)
DoComplete(s, pos, list, it) ==
    IF it > Len(list)
    THEN [buf |-> s, pos |-> Len(s), it |-> 1]
    ELSE [buf |-> SubSeq(s, 1, WordBegin(s, pos)) \o list[it]
                     \o SubSeq(s, WordEnd(s, pos) + 1, Len(s)),
          pos |-> WordBegin(s, pos) + Len(list[it]), it |-> it + 1]

----------------------------------------------------------------------------
(* The buffer.                                                             *)

(* bufChanged(): the first character that is drawn.                        *)
FirstShown(buf, pos) ==
    IF pos > Width
    THEN CHOOSE o \in 0..pos :
            /\ o = pos \/ Len(buf) - o < Width
            /\ \A q \in 0..(o - 1) : Len(buf) - q >= Width
    ELSE 0

Changed(s) == [s EXCEPT !.off = FirstShown(s.buf, s.pos)]
CompleteReset(s) == [s EXCEPT !.on = Nothing, !.res = Nothing, !.posOn = 0]

Put(s, c) == [s EXCEPT !.buf = InsertAt(@, s.pos + 1, c), !.pos = @ + 1]

BufRemove(s) ==
    IF s.pos > Len(s.buf) \/ s.pos = 0 THEN s
    ELSE [s EXCEPT !.buf = RemoveAt(@, s.pos), !.pos = @ - 1]

BufClear(s) ==
    [CompleteReset(s) EXCEPT !.buf = Nothing, !.pos = 0, !.off = 0]

(* resize(): cuts the text behind the cursor.                              *)
BufKill(s) == [s EXCEPT !.buf = SubSeq(@, 1, s.pos)]

Right(s) == [s EXCEPT !.pos = IF @ + 1 > Len(s.buf) THEN Len(s.buf) ELSE @ + 1]
Left(s)  == [s EXCEPT !.pos = IF @ = 0 THEN 0 ELSE @ - 1]

(* Back at the end _hist_new is not read again: the model forgets it.      *)
HistNext(s) ==
    IF s.hit > Len(s.hist) THEN s
    ELSE LET buf == IF s.hit = Len(s.hist) THEN s.new ELSE s.hist[s.hit + 1]
         IN  [s EXCEPT !.hit = @ + 1, !.buf = buf, !.pos = Len(buf),
                       !.new = IF s.hit = Len(s.hist) THEN Nothing ELSE @]

HistPrev(s) ==
    IF s.hit = 1 THEN s
    ELSE [s EXCEPT !.new = IF s.hit > Len(s.hist) THEN s.buf ELSE @,
                   !.hit = @ - 1, !.buf = s.hist[s.hit - 1],
                   !.pos = Len(s.hist[s.hit - 1])]

FindFirst(s) ==
    IF s.buf = s.res THEN s
    ELSE [s EXCEPT !.on = s.buf, !.posOn = s.pos, !.it = 1,
                   !.list = FindCompletions(s.buf, s.pos)]

InsertNext(s) ==
    IF s.list = <<>> THEN s
    ELSE LET c == DoComplete(s.on, s.pos, s.list, s.it)
         IN  [s EXCEPT !.buf = c.buf, !.pos = c.pos, !.it = c.it, !.res = c.buf]

Complete(s) == InsertNext(FindFirst(s))

(* Mutant: the cursor stays where it is.                                   *)
CompleteAbortText(s) ==
    CompleteReset(IF s.on = Nothing THEN s ELSE [s EXCEPT !.buf = s.on])

CompleteAbort(s) ==
    CompleteReset(IF s.on = Nothing THEN s
                  ELSE [s EXCEPT !.buf = s.on, !.pos = s.posOn])

----------------------------------------------------------------------------
(* handleKeyPress(): one operator per input action.                        *)

Key(s) == dlg.mapped /\ dlg' = Changed(s)     \* s is what the key makes of dlg

Insert ==
    /\ Len(dlg.buf) < MaxBuf
    /\ \E c \in Chars \cup {Blank} : Key(CompleteReset(Put(dlg, c)))

Clear == Key(BufClear(dlg))
Erase == Key(BufRemove(dlg))
Kill  == Key(CompleteReset(BufKill(dlg)))

Cursor ==
    \/ Key(CompleteReset(Right(dlg)))
    \/ Key(CompleteReset(Left(dlg)))
    \/ Key(CompleteReset([dlg EXCEPT !.pos = 0]))
    \/ Key(CompleteReset([dlg EXCEPT !.pos = Len(dlg.buf)]))

History ==
    \/ Key(CompleteReset(HistNext(dlg)))
    \/ Key(CompleteReset(HistPrev(dlg)))

Tab   == Key(Complete(dlg))
Abort == Key(CompleteAbort(dlg))

(* CmdDialog::unmapWindow().                                               *)
Unmapped(s) == [BufClear(s) EXCEPT !.mapped = FALSE]

(* exec(): the line goes to the end of the history, which may drop its     *)
(* oldest entry; the window manager then closes the dialog.  _hist_it and  *)
(* _hist_new are set again before they are used: here, at once.            *)
PushBack(s) ==
    Append(IF HistoryUnique THEN Sieve(s.hist, ToSet(s.hist) \ {s.buf}) ELSE s.hist, s.buf)

Exec ==
    /\ dlg.mapped /\ Len(dlg.buf) <= MaxLine
    /\ LET h == PushBack(dlg)
       IN  dlg' = [Unmapped(dlg) EXCEPT
                     !.hist = IF Len(h) > HistorySize THEN Tail(h) ELSE h]

Close == dlg.mapped /\ dlg' = Unmapped(dlg)

(* mapCentered(), with the text that the action gives.                     *)
Map ==
    /\ ~ dlg.mapped
    /\ \E buf \in Starts :
          dlg' = Changed([dlg EXCEPT !.mapped = TRUE, !.hit = Len(dlg.hist) + 1,
                                     !.new = Nothing, !.buf = buf, !.pos = Len(buf)])

Next ==
    \/ Map \/ Close \/ Exec
    \/ Insert \/ Erase \/ Clear \/ Kill
    \/ Cursor \/ History \/ Tab \/ Abort

Spec == Init /\ [][Next]_dlg

----------------------------------------------------------------------------
(* Whatever sequence of keys is pressed, the cursor is in the text (insert *)
(* and erase at _buf.begin() + _pos would be undefined), the history's     *)
(* iterator is in the history, and the cursor is in the part of the text   *)
(* that is drawn.                                                          *)
CursorInText ==
    dlg.mapped => /\ dlg.pos \in 0..Len(dlg.buf)
                  /\ dlg.hit \in 1..(Len(dlg.hist) + 1)
                  /\ dlg.off <= dlg.pos /\ dlg.pos - dlg.off <= Width

(* However often the key is pressed, a completion asked for at the end of  *)
(* a text replaces the last word of that text, by a completion of it, or   *)
(* gives the text back, with the cursor at the end ("complete word at      *)
(* cursor position", CmdDialog.cc:100).                                    *)
CompletesLastWord ==
    /\ dlg.on # Nothing /\ dlg.posOn = Len(dlg.on)
    /\ dlg.res # Nothing /\ dlg.buf = dlg.res
    =>
        /\ dlg.pos = Len(dlg.buf)
        /\ \/ dlg.buf = dlg.on
           \/ \E w \in ToSet(Dictionary), n \in 0..Len(dlg.on) :
                 LET word == SubSeq(dlg.on, n + 1, Len(dlg.on))
                 IN  /\ Blank \notin ToSet(word) /\ (n > 0 => dlg.on[n] = Blank)
                     /\ IsPrefix(word, w)
                     /\ dlg.buf = SubSeq(dlg.on, 1, n) \o w

(* The same for a cursor anywhere: the completed word is the cursor's, and *)
(* what stood around it is kept.  This is not so: do_complete() looks for  *)
(* the word in the old text at the cursor of the new one.                  *)
CompletesWordAtCursor ==
    dlg.on # Nothing /\ dlg.res \notin {Nothing, dlg.on} /\ dlg.buf = dlg.res =>
        LET b == WordBegin(dlg.on, dlg.posOn)
            e == WordEnd(dlg.on, dlg.posOn)
        IN  \E w \in ToSet(Dictionary) :
              dlg.buf = SubSeq(dlg.on, 1, b) \o w \o SubSeq(dlg.on, e + 1, Len(dlg.on))
=============================================================================
