----------------------------- MODULE FrameState ----------------------------
(***************************************************************************)
(* The states of one pekwm frame (Frame.cc, PDecor.cc): border, titlebar,  *)
(* shaded, maximized, fullscreen and layer.  Each has a flag in the frame  *)
(* and one in the client in front, each changes the size of the frame, and *)
(* each has a place of its own for what is to be given back later:         *)
(* _real_height while shaded, _old_gm for maximized and for fullscreen,    *)
(* _non_fullscreen_decor_state and _non_fullscreen_layer.  The module is   *)
(* about the order in which users and programs may set and unset them.     *)
(*                                                                         *)
(* Of the geometry only heights are modelled, in small numbers: a titlebar *)
(* is TITLE high, top and bottom border together BORDER, the head HEAD and *)
(* the part of it not reserved by panels EDGE.  x and width take part in   *)
(* the code the way y and height do, without the shading.                  *)
(***************************************************************************)
EXTENDS Integers, Functions

CONSTANTS
    Children,  \* the tabs the frame may have
    Arriving,  \* the state a client may arrive with
    Configs,   \* [above, detect, narrow: BOOLEAN, ops: SUBSET Ops]:
               \* FullscreenAbove and FullscreenDetect, whether titles are less
               \* wide than the frame, and the requests that are made
    Requests,  \* heights programs ask for
    MaxHeight  \* the bound of frames that grow: by a titlebar for each time
               \* one is shown while they are fullscreen

BORDER == 1
TITLE == 2
EDGE == 8
HEAD == 9
FILL == 6      \* what is free between other frames

BELOW == 2
NORMAL == 4
ONTOP == 6
ABOVE_DOCK == 10

Actions == {"set", "unset", "toggle"}
Ops == {"maximize", "fill", "fullscreen", "shade", "decor", "layer", "configure"}

ASSUME FrameAssumption ==
    /\ Arriving \subseteq [border : BOOLEAN, titlebar : BOOLEAN, shaded : BOOLEAN,
                           full : BOOLEAN, maxh : BOOLEAN, maxv : BOOLEAN,
                           layer : Int, height : Nat \ {0}]   \* no window is empty
    /\ Configs \subseteq [above : BOOLEAN, detect : BOOLEAN, narrow : BOOLEAN,
                          ops : SUBSET Ops]
    /\ Requests \subseteq Int

VARIABLES
    frame,    \* the Frame: flags, _gm.height (height), _real_height (real),
              \* _old_gm (old), _decor_name (name)
    client,   \* the client in front: its flags and the height of its window
    front,    \* which client that is: _client
    behind,   \* the other tabs: whether their fullscreen flag is set, all
              \* that is left of their state when they are put in front
    config,
    bare      \* history: the frame was opened for a window that asks to be
              \* shaded and has no part to be shaded to, and is so still

frameVars == <<frame, client, front, behind, config, bare>>

(* What every operation works on *)
State == [frame |-> frame, client |-> client]

(* ActionUtil::needToggle *)
NeedToggle(sa, on) == ~ (on /\ sa = "set") /\ ~ (~ on /\ sa = "unset")
----------------------------------------------------------------------------
(* Sizes *)

TitleHeight(f) == IF f.titlebar THEN TITLE ELSE 0
BorderHeight(f) == IF f.border THEN BORDER ELSE 0
DecorHeight(f) == TitleHeight(f) + BorderHeight(f)
RealHeight(f) == IF f.shaded THEN f.real ELSE f.height

ChildHeight(f) ==
    IF DecorHeight(f) >= RealHeight(f) THEN 1 ELSE RealHeight(f) - DecorHeight(f)

(* All that is seen of a shaded frame. *)
Bar(f) == TitleHeight(f) + (IF config.narrow THEN 0 ELSE BorderHeight(f))

(* PDecor::resize and moveResize *)
Resize(s, h) ==
    LET f == IF s.frame.shaded
             THEN [s.frame EXCEPT !.real = h, !.height = Bar(s.frame)]
             ELSE [s.frame EXCEPT !.height = h]
    IN  [frame |-> f, client |-> [s.client EXCEPT !.height = ChildHeight(f)]]

(* PDecor::resizeChild *)
ResizeChild(s, h) == Resize(s, h + DecorHeight(s.frame))

(* PDecor::setDecor, which loads the decor only when its name is new. *)
SetDecor(s, name) ==
    IF s.frame.name = name THEN s
    ELSE ResizeChild([s EXCEPT !.frame.name = name], s.client.height)

(* PDecor::updateDecorName, and what its callers do without a new name *)
UpdateDecor(s) ==
    ResizeChild([s EXCEPT !.frame.name = <<s.frame.border, s.frame.titlebar>>],
                s.client.height)

DEFAULT == <<TRUE, TRUE>>
----------------------------------------------------------------------------
(* Decoration and shading *)

(* The last part of a shaded frame is not removed. *)
SetBorder(s, sa) ==
    IF ~ NeedToggle(sa, s.frame.border) THEN s
    ELSE LET keep == s.frame.border /\ s.frame.shaded /\ ~ s.frame.titlebar
         IN  UpdateDecor([s EXCEPT !.frame.border = ~ @ \/ keep])

(* Mutants carry the name of the operator they change; this one forgets    *)
(* what the comment at PDecor.cc:1038 is about.                            *)
SetTitlebarUnguarded(s, sa) ==
    IF ~ NeedToggle(sa, s.frame.titlebar) THEN s
    ELSE UpdateDecor([s EXCEPT !.frame.titlebar = ~ @])

SetTitlebar(s, sa) ==
    IF ~ NeedToggle(sa, s.frame.titlebar) THEN s
    ELSE LET keep == s.frame.titlebar /\ s.frame.shaded /\ ~ s.frame.border
         IN  UpdateDecor([s EXCEPT !.frame.titlebar = ~ @ \/ keep])

(* Something of f is left to be seen when it is shaded. *)
Shadeable(f) == f.titlebar \/ (f.border /\ ~ config.narrow)

(* PDecor::setShaded: the child keeps its size.  (_real_height is not read *)
(* before it is set again, and 0 till then.)                               *)
Shade(f) ==
    IF f.shaded THEN [f EXCEPT !.height = f.real, !.real = 0, !.shaded = FALSE]
    ELSE IF Shadeable(f)
         THEN [f EXCEPT !.real = f.height, !.height = Bar(f), !.shaded = TRUE]
         ELSE f

(* Frame::setShaded *)
SetShaded(s, sa) ==
    IF ~ NeedToggle(sa, s.frame.shaded) THEN s
    ELSE LET f == Shade(s.frame)
         IN  [frame |-> f, client |-> IF f.shaded = s.frame.shaded THEN s.client
                                      ELSE [s.client EXCEPT !.shaded = f.shaded]]

(* The client is told of a change only. *)
SetStateDecorBorder(s, sa) ==
    LET t == SetBorder(s, sa)
    IN  IF t.frame.border = s.frame.border THEN t
        ELSE [t EXCEPT !.client.border = t.frame.border]

SetStateDecorTitlebar(s, sa) ==
    LET t == SetTitlebar(s, sa)
    IN  IF t.frame.titlebar = s.frame.titlebar THEN t
        ELSE [t EXCEPT !.client.titlebar = t.frame.titlebar]
----------------------------------------------------------------------------
(* Fullscreen and maximized *)

(* The decor is compared as (mask & DECOR_BORDER) != hasBorder(), a 4 or 0 *)
(* with a 1 or 0: what the window had is toggled whether it is there now   *)
(* or not.  (What is kept for this is not read again and therefore reset.) *)
RestoreBorder(s) ==
    IF s.frame.nfborder \/ s.frame.border THEN SetBorder(s, "toggle") ELSE s

RestoreTitlebar(s) ==
    IF s.frame.nftitlebar \/ s.frame.titlebar THEN SetTitlebar(s, "toggle") ELSE s

RestoreSize(s) ==
    Resize([s EXCEPT !.frame.full = FALSE, !.client.full = FALSE,
                     !.frame.height = s.frame.old,
                     !.frame.nfborder = FALSE, !.frame.nftitlebar = FALSE],
           s.frame.old)

Restore(s) == RestoreSize(RestoreTitlebar(RestoreBorder(s)))

Remember(s) ==
    [s EXCEPT !.frame.old = s.frame.height, !.frame.nflayer = s.client.layer,
              !.frame.nfborder = s.client.border, !.frame.nftitlebar = s.client.titlebar]

CoverHead(s) ==
    Resize([s EXCEPT !.frame.full = TRUE, !.client.full = TRUE, !.frame.height = HEAD],
           HEAD)

Cover(s) == CoverHead(SetTitlebar(SetBorder(Remember(s), "unset"), "unset"))

(* FullscreenAbove *)
Above(s) ==
    IF ~ config.above THEN s
    ELSE [s EXCEPT !.frame.layer = IF s.frame.full THEN ABOVE_DOCK ELSE s.frame.nflayer]

SetStateFullscreen(s, sa) ==
    IF ~ NeedToggle(sa, s.frame.full) THEN s
    ELSE Above(IF s.frame.full THEN Restore(s) ELSE Cover(s))

(* The vertical half of setStateMaximized; the flag is inverted whatever sa *)
(* says.                                                                   *)
MaximizeVert(s, sa, fill) ==
    LET f == s.frame
        on == sa = "set" \/ (sa = "toggle" /\ ~ f.maxv)
        g == IF on /\ fill THEN [f EXCEPT !.height = FILL]
             ELSE IF on THEN [f EXCEPT !.old = f.height, !.height = EDGE]
             ELSE [f EXCEPT !.height = f.old]
        m == ~ fill /\ ~ f.maxv
    IN  [frame |-> [g EXCEPT !.maxv = m], client |-> [s.client EXCEPT !.maxv = m]]

MaximizeHorz(s, fill) ==
    LET m == ~ fill /\ ~ s.frame.maxh
    IN  [frame |-> [s.frame EXCEPT !.maxh = m], client |-> [s.client EXCEPT !.maxh = m]]

(* What remains to be done when shading and fullscreen are ended: both     *)
(* directions toggled at once go the same way.                             *)
MaximizeEnded(s, sa, horz, vert, fill) ==
    LET sync == horz = vert /\ sa = "toggle" /\ s.frame.maxh # s.frame.maxv
        h == IF sync THEN ~ s.frame.maxh ELSE horz
        v == IF sync THEN ~ s.frame.maxv ELSE vert
        u == IF h THEN MaximizeHorz(s, fill) ELSE s
    IN  IF v THEN MaximizeVert(u, IF fill THEN "set" ELSE sa, fill) ELSE u

FitEdge(s) == Resize(s, IF s.frame.height > EDGE THEN EDGE ELSE s.frame.height)

EndOthers(s) == SetStateFullscreen(SetShaded(s, "unset"), "unset")

(* Mutant: without the moveResize() at the end. *)
SetStateMaximizedUnmoved(s, sa, horz, vert, fill) ==
    MaximizeEnded(EndOthers(s), sa, horz, vert, fill)

SetStateMaximized(s, sa, horz, vert, fill) ==
    FitEdge(MaximizeEnded(EndOthers(s), sa, horz, vert, fill))

(* A layer set by setStateAlwaysOnTop: from any layer that is not lower it *)
(* is LAYER_NORMAL.                                                        *)
SetStateAlwaysOnTop(s, sa) ==
    IF ~ NeedToggle(sa, s.frame.layer = ONTOP) THEN s
    ELSE LET l == IF s.frame.layer < ONTOP THEN ONTOP ELSE NORMAL
         IN  [s EXCEPT !.frame.layer = l, !.client.layer = l]

SetStateAlwaysBelow(s, sa) ==
    IF ~ NeedToggle(sa, s.frame.layer = BELOW) THEN s
    ELSE LET l == IF s.frame.layer > BELOW THEN BELOW ELSE NORMAL
         IN  [s EXCEPT !.frame.layer = l, !.client.layer = l]
----------------------------------------------------------------------------
(* Tabs that come, go and take the front *)

(* Frame::getState, for the states of this module *)
MatchMaxHorz(s) ==
    IF s.frame.maxh = s.client.maxh THEN s
    ELSE SetStateMaximized(s, "toggle", TRUE, FALSE, FALSE)

MatchMaxVert(s) ==
    IF s.frame.maxv = s.client.maxv THEN s
    ELSE SetStateMaximized(s, "toggle", FALSE, TRUE, FALSE)

MatchShaded(s) ==
    IF s.frame.shaded = s.client.shaded THEN s ELSE SetShaded(s, "toggle")

MatchLayer(s) == [s EXCEPT !.frame.layer = s.client.layer]

MatchBorder(s) ==
    IF s.frame.border = s.client.border THEN s ELSE SetBorder(s, "toggle")

MatchTitlebar(s) ==
    IF s.frame.titlebar = s.client.titlebar THEN s ELSE SetTitlebar(s, "toggle")

MatchFullscreen(s) ==
    IF s.frame.full = s.client.full THEN s ELSE SetStateFullscreen(s, "toggle")

GetState(s) ==
    MatchFullscreen(MatchTitlebar(MatchBorder(MatchLayer(MatchShaded(
        MatchMaxVert(MatchMaxHorz(s)))))))

(* Frame::fixGeometry *)
FixGeometry(s) ==
    IF s.frame.height > EDGE THEN Resize([s EXCEPT !.frame.height = EDGE], EDGE) ELSE s

(* Frame::Frame *)
NewFrame(cl) ==
    LET h == cl.height + DecorHeight(cl)
        f == [border |-> cl.border, titlebar |-> cl.titlebar, shaded |-> FALSE,
              full |-> FALSE, maxh |-> FALSE, maxv |-> FALSE, layer |-> cl.layer,
              name |-> <<cl.border, cl.titlebar>>, height |-> h, real |-> 0,
              old |-> h, nfborder |-> FALSE, nftitlebar |-> FALSE, nflayer |-> cl.layer]
    IN  FixGeometry(GetState(SetDecor([frame |-> f, client |-> cl], DEFAULT)))

FrameInit ==
    /\ config \in Configs
    /\ front \in Children
    /\ behind = [c \in {} |-> FALSE]
    /\ \E cl \in Arriving :
         /\ LET s == NewFrame(cl) IN frame = s.frame /\ client = s.client
         /\ bare = (cl.shaded /\ ~ Shadeable(cl))

(* Mutant: the new tab stays as it was. *)
ApplyStateUnshaded(f, full) ==
    [maxh |-> f.maxh, maxv |-> f.maxv, shaded |-> FALSE, layer |-> f.layer,
     border |-> f.border, titlebar |-> f.titlebar, full |-> full,
     height |-> ChildHeight(f)]

(* Frame::applyState: of the old state of cl its fullscreen flag is left.   *)
ApplyState(f, full) ==
    [maxh |-> f.maxh, maxv |-> f.maxv, shaded |-> f.shaded, layer |-> f.layer,
     border |-> f.border, titlebar |-> f.titlebar, full |-> full,
     height |-> ChildHeight(f)]

(* Frame::activateChild *)
ActivateChild(c, full) ==
    LET s == SetDecor([frame |-> frame, client |-> ApplyState(frame, full)], DEFAULT)
    IN  front' = c /\ frame' = s.frame /\ client' = s.client

Remains ==
    /\ config' = config
    /\ bare' = (bare /\ client'.shaded # frame'.shaded)

(* The tab c is put behind, its fullscreen flag being full. *)
Put(tabs, c, full) ==
    [d \in DOMAIN tabs \cup {c} |-> IF d = c THEN full ELSE tabs[d]]

Tabs == {front} \cup DOMAIN behind

Activate(c) ==
    /\ c \in DOMAIN behind
    /\ ActivateChild(c, behind[c])
    /\ behind' = Put(Restrict(behind, DOMAIN behind \ {c}), front, client.full)
    /\ Remains

(* The tab in front chosen again: PDecor::activateChild fits it anew.      *)
ActivateAgain ==
    /\ LET s == SetDecor([State EXCEPT !.client.height = ChildHeight(frame)], DEFAULT)
       IN  frame' = s.frame /\ client' = s.client
    /\ UNCHANGED <<front, behind>> /\ Remains

(* Frame::addChild, with the client put in front or not *)
Join(c) ==
    /\ c \notin Tabs
    /\ \E cl \in Arriving :
         \/ /\ behind' = Put(behind, c, cl.full)
            /\ UNCHANGED <<frame, client, front>>
         \/ ActivateChild(c, cl.full) /\ behind' = Put(behind, front, client.full)
    /\ Remains

(* PDecor::removeChild; without tabs the frame is deleted. *)
RemoveChild(c) ==
    /\ c \in Tabs /\ Tabs # {c}
    /\ IF c = front
       THEN \E d \in DOMAIN behind :
              ActivateChild(d, behind[d]) /\ behind' = Restrict(behind, DOMAIN behind \ {d})
       ELSE behind' = Restrict(behind, DOMAIN behind \ {c}) /\ UNCHANGED <<frame, client, front>>
    /\ Remains
----------------------------------------------------------------------------
(* Requests, of the user by the ActionHandler and of programs by           *)
(* _NET_WM_STATE and ConfigureRequest                                      *)

Becomes(s) ==
    /\ frame' = s.frame /\ client' = s.client
    /\ UNCHANGED <<front, behind>> /\ Remains

Maximize(sa, horz, vert) ==
    /\ "maximize" \in config.ops /\ (horz \/ vert)
    /\ Becomes(SetStateMaximized(State, sa, horz, vert, FALSE))

MaxFill(horz, vert) ==
    /\ "fill" \in config.ops /\ (horz \/ vert)
    /\ Becomes(SetStateMaximized(State, "set", horz, vert, TRUE))

Fullscreen(sa) == "fullscreen" \in config.ops /\ Becomes(SetStateFullscreen(State, sa))
ToggleShade(sa) == "shade" \in config.ops /\ Becomes(SetShaded(State, sa))
Decorate == "decor" \in config.ops /\ RealHeight(frame) < MaxHeight
Border(sa) == Decorate /\ Becomes(SetStateDecorBorder(State, sa))
Titlebar(sa) == Decorate /\ Becomes(SetStateDecorTitlebar(State, sa))
OnTop(sa) == "layer" \in config.ops /\ Becomes(SetStateAlwaysOnTop(State, sa))
Below(sa) == "layer" \in config.ops /\ Becomes(SetStateAlwaysBelow(State, sa))

(* Frame::handleConfigureRequestGeometry: the size of the head is taken    *)
(* for a wish to be fullscreen, and for nothing else.                      *)
Configure(h) ==
    /\ "configure" \in config.ops
    /\ IF h = HEAD
       THEN Becomes(IF config.detect THEN SetStateFullscreen(State, "set") ELSE State)
       ELSE LET s == ResizeChild(State, h)
            IN  Becomes(IF config.detect THEN SetStateFullscreen(s, "unset") ELSE s)

FrameNext ==
    \/ \E sa \in Actions :
         \/ Fullscreen(sa) \/ ToggleShade(sa) \/ Border(sa) \/ Titlebar(sa)
         \/ OnTop(sa) \/ Below(sa)
         \/ \E horz, vert \in BOOLEAN : Maximize(sa, horz, vert)
    \/ \E horz, vert \in BOOLEAN : MaxFill(horz, vert)
    \/ \E h \in Requests : Configure(h)
    \/ ActivateAgain
    \/ \E c \in Children : Activate(c) \/ Join(c) \/ RemoveChild(c)

FrameSpec == FrameInit /\ [][FrameNext]_frameVars
----------------------------------------------------------------------------
(* A frame is never reduced to nothing: one that is shaded has a part left *)
(* to see, also after fullscreen or a tab has changed its decoration.      *)
SomethingLeft == frame.shaded => frame.titlebar \/ frame.border

BarLeft == frame.shaded => Bar(frame) > 0

(* The states of the frame are those of the client in front: the two are   *)
(* set in different places, and what is published is the client's.  Only a *)
(* window that was opened shaded and has no part to be shaded to is        *)
(* "shaded" while its frame is not, until the two agree for the first time.*)
(* So it is of shaded, maximized and, without FullscreenAbove, the layer.  *)
FlagsAgree ==
    /\ client.maxh = frame.maxh
    /\ client.maxv = frame.maxv
    /\ frame.shaded => client.shaded
    /\ ~ bare => client.shaded = frame.shaded
    /\ ~ config.above => client.layer = frame.layer

(* The same of the other states is not true.  What a frame had of border   *)
(* and titlebar is toggled when it leaves fullscreen, in the frame alone,  *)
(* also where it is there already: shown meanwhile, or kept because the    *)
(* frame was shaded.  A tab put in front keeps its own fullscreen flag,    *)
(* and FullscreenAbove raises the frame, not the window.                   *)
DecorAgrees ==
    ~ frame.full => client.border = frame.border /\ client.titlebar = frame.titlebar
FullscreenAgrees == client.full = frame.full
LayerAgrees == client.layer = frame.layer

(* Frame.cc:173, "set the window states, shaded, maximized...": the frame  *)
(* takes over what the window asks for.                                    *)
ShadedTogether == client.shaded = frame.shaded

(* The window in front fills its frame. *)
ChildFits == client.height = ChildHeight(frame)

============================================================================
