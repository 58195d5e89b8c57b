------------------------------- MODULE Canvas -------------------------------
(***************************************************************************)
(* The panels of one screen (ScreenState of src/workspace.rs) and their    *)
(* placement on the canvas (src/canvas.rs): panels are dragged by the      *)
(* title, resized by the grip, added, removed, saved and loaded, and never *)
(* overlap. The index of a panel is its name in both vectors and in the    *)
(* settings window.                                                        *)
(*                                                                         *)
(* The canvas is a grid: lengths are whole numbers, Size stands for 1.0.   *)
(***************************************************************************)
EXTENDS Integers, Sequences, FiniteSets, SequencesExt, FiniteSetsExt

CONSTANTS
  Size,      \* width and height of the canvas
  MinSize,   \* MIN
  Slot,      \* side of a panel added where there is room: 0.3
  Steps,     \* the coordinates free_slot tries
  Centre,    \* the place of the pane that fills an empty screen
  Configs,   \* layouts loaded: per panel a frame, or NoFrame
  NoFrame,
  Diagonal,  \* one drag of the grip may widen and heighten a panel at once
  MaxPanels, \* bound: panels on the screen
  MaxDrags   \* bound: frames in which a panel is dragged

Coord == 0..Size
Rect == [fx: Coord, fy: Coord, fw: Coord, fh: Coord]
Right(r) == r.fx + r.fw
Bottom(r) == r.fy + r.fh

OverlapsX(a, b) == a.fx < Right(b) /\ b.fx < Right(a)
OverlapsY(a, b) == a.fy < Bottom(b) /\ b.fy < Bottom(a)
RectsOverlap(a, b) == OverlapsX(a, b) /\ OverlapsY(a, b)

Inside(r) == Right(r) <= Size /\ Bottom(r) <= Size /\ r.fw >= MinSize /\ r.fh >= MinSize
Apart(rects) ==
  \A i, j \in DOMAIN rects : i # j => ~RectsOverlap(rects[i], rects[j])

VARIABLES
  layout,   \* the placements of the panels; panels grows and shrinks with it
  settings, \* settings_open: the index its window is open for, 0 for None
  drags,    \* drags so far
  about     \* history: the index now of the panel the window was opened for

vars == <<layout, settings, drags, about>>

TypeOK ==
  /\ layout \in Seq(Rect)
  /\ settings \in 0..Len(layout) /\ about \in 0..Len(layout)
  /\ drags \in 0..MaxDrags

-----------------------------------------------------------------------------
(* Loading: from_screen_config. *)

(* The smallest number of columns whose square holds n panels. *)
Columns(n) == Min({c \in 1..n : c * c >= n})

AutoArrange(n) ==
  LET cols == Columns(n)
      rows == (n + cols - 1) \div cols
  IN [i \in 1..n |-> [fx |-> ((i - 1) % cols) * (Size \div cols),
                      fy |-> ((i - 1) \div cols) * (Size \div rows),
                      fw |-> Size \div cols, fh |-> Size \div rows]]

(* The saved frames are used only if every panel has one. *)
Placements(frames) ==
  IF frames = << >> THEN << >>
  ELSE IF \A i \in DOMAIN frames : frames[i] # NoFrame THEN frames
  ELSE AutoArrange(Len(frames))

Init ==
  /\ \E c \in Configs : layout = Placements(c)
  /\ settings = 0 /\ about = 0 /\ drags = 0

(* Saved and loaded again. *)
Reload ==
  /\ layout' = Placements(layout)
  /\ settings' = 0 /\ about' = 0
  /\ UNCHANGED drags

(* An empty screen is shown with one pane to pick a type in. *)
EnsureUndefinedPane ==
  /\ layout = << >> /\ layout' = <<Centre>>
  /\ UNCHANGED <<settings, about, drags>>

Shown == layout # << >>

-----------------------------------------------------------------------------
(* Drags. What snapping makes of the pointer's position is any position.    *)

Others(i) == {layout[j] : j \in DOMAIN layout \ {i}}

Clamped(x, lo, hi) == IF x < lo THEN lo ELSE IF x > hi THEN hi ELSE x

ClampXFarthest(prev, target, others) ==
  LET beside == {o \in others : OverlapsY(prev, o)}
      walls == IF target > prev.fx
               THEN {o.fx - prev.fw : o \in {o \in beside : Right(prev) <= o.fx}}
               ELSE {Right(o) : o \in {o \in beside : Right(o) <= prev.fx}}
  IN IF walls = {} THEN Clamped(target, 0, Size - prev.fw)
     ELSE IF target > prev.fx THEN Min({target, Max(walls)}) ELSE Max({target, Min(walls)})

(* The walls are the panels beside this one on the side it moves to; it     *)
(* stops at the nearest, and at the edge of the canvas. *)
ClampX(prev, target, others) ==
  LET beside == {o \in others : OverlapsY(prev, o)}
      goal == Clamped(target, 0, Size - prev.fw)
  IN IF target > prev.fx
     THEN Min({goal} \cup {o.fx - prev.fw : o \in {o \in beside : Right(prev) <= o.fx}})
     ELSE IF target < prev.fx
     THEN Max({goal} \cup {Right(o) : o \in {o \in beside : Right(o) <= prev.fx}})
     ELSE goal

ClampY(prev, target, others) ==
  LET beside == {o \in others : OverlapsX(prev, o)}
      goal == Clamped(target, 0, Size - prev.fh)
  IN IF target > prev.fy
     THEN Min({goal} \cup {o.fy - prev.fh : o \in {o \in beside : Bottom(prev) <= o.fy}})
     ELSE IF target < prev.fy
     THEN Max({goal} \cup {Bottom(o) : o \in {o \in beside : Bottom(o) <= prev.fy}})
     ELSE goal

ResolveMoveAtOnce(prev, x, y, others) ==
  [prev EXCEPT !.fx = ClampX(prev, x, others), !.fy = ClampY(prev, y, others)]

(* First along X, then along Y from where that ended. *)
ResolveMove(prev, x, y, others) ==
  LET stepped == [prev EXCEPT !.fx = ClampX(prev, x, others)]
  IN [stepped EXCEPT !.fy = ClampY(stepped, y, others)]

Drag(i, places) ==
  /\ Shown /\ drags < MaxDrags /\ drags' = drags + 1
  /\ \E r \in places : layout' = [layout EXCEPT ![i] = r]
  /\ UNCHANGED <<settings, about>>

Move(i) ==
  LET prev == layout[i]
      others == Others(i)
  IN Drag(i, {ResolveMove(prev, p[1], p[2], others) : p \in Coord \X Coord})

(* The bottom right corner stops at the panels to the right and below. *)
ResolveResize(prev, w, h, others) ==
  LET right == {o \in others : OverlapsY(prev, o) /\ prev.fx < o.fx}
      below == {o \in others : OverlapsX(prev, o) /\ prev.fy < o.fy}
  IN [prev EXCEPT
       !.fw = Min({Clamped(w, MinSize, Size - prev.fx)}
                  \cup {Max({o.fx - prev.fx, MinSize}) : o \in right}),
       !.fh = Min({Clamped(h, MinSize, Size - prev.fy)}
                  \cup {Max({o.fy - prev.fy, MinSize}) : o \in below})]

Grown(r) == {s \in (MinSize..Size) \X (MinSize..Size) :
               Diagonal \/ s[1] <= r.fw \/ s[2] <= r.fh}

Resize(i) ==
  LET prev == layout[i]
      others == Others(i)
  IN Drag(i, {ResolveResize(prev, s[1], s[2], others) : s \in Grown(prev)})

-----------------------------------------------------------------------------
(* Adding a panel. *)

Crowded(r) == \E i \in DOMAIN layout : RectsOverlap(r, layout[i])

SlotAt(x, y) == [fx |-> x, fy |-> y, fw |-> Slot, fh |-> Slot]
Free == {p \in Steps \X Steps : ~Crowded(SlotAt(p[2], p[1]))}

(* The first free place, row by row. *)
FreeSlot ==
  LET first == CHOOSE p \in Free : \A q \in Free :
                 p[1] < q[1] \/ (p[1] = q[1] /\ p[2] <= q[2])
  IN SlotAt(first[2], first[1])

Area(r) == r.fw * r.fh

(* The last of the largest panels is halved along its longer side. *)
Victim == Max({i \in DOMAIN layout :
                 \A j \in DOMAIN layout : Area(layout[j]) <= Area(layout[i])})

HalvesOf(r) ==
  IF r.fw >= r.fh
  THEN LET half == r.fw \div 2 IN
       << [r EXCEPT !.fw = @ - half], [r EXCEPT !.fx = @ + r.fw - half, !.fw = half] >>
  ELSE LET half == r.fh \div 2 IN
       << [r EXCEPT !.fh = @ - half], [r EXCEPT !.fy = @ + r.fh - half, !.fh = half] >>

(* carve_slot: a free place, or half of a panel. *)
Carved ==
  IF Free # {} THEN Append(layout, FreeSlot)
  ELSE LET halves == HalvesOf(layout[Victim])
       IN Append([layout EXCEPT ![Victim] = halves[1]], halves[2])

(* add_undefined_at: where the user clicked, unless that is taken. *)
Added(r) == IF Crowded(r) THEN Carved ELSE Append(layout, r)

AddAt ==
  /\ Shown /\ Len(layout) < MaxPanels
  /\ \E x, y \in 0..(Size - Slot) : layout' = Added(SlotAt(x, y))
  /\ UNCHANGED <<settings, about, drags>>

(* add_panel, from the channel tree. *)
AddPanel ==
  /\ Len(layout) < MaxPanels
  /\ layout' = Carved
  /\ UNCHANGED <<settings, about, drags>>

-----------------------------------------------------------------------------
(* The other events of the canvas. *)

RemovePanelKeepsSettings(i) ==
  /\ layout' = RemoveAt(layout, i)
  /\ settings' = IF settings = i THEN 0 ELSE Min({settings, Len(layout')})
  /\ about' = IF about > i THEN about - 1 ELSE IF about = i THEN 0 ELSE about
  /\ UNCHANGED drags

(* remove_panel closes the settings window, whichever panel it is for. *)
RemovePanel(i) ==
  /\ layout' = RemoveAt(layout, i)
  /\ settings' = 0 /\ about' = 0
  /\ UNCHANGED drags

OpenSettings(i) ==
  /\ settings' = i /\ about' = i
  /\ UNCHANGED <<layout, drags>>

CloseSettings ==
  /\ settings # 0 /\ settings' = 0 /\ about' = 0
  /\ UNCHANGED <<layout, drags>>

-----------------------------------------------------------------------------
Next ==
  \/ Reload \/ EnsureUndefinedPane
  \/ \E i \in DOMAIN layout :
       Move(i) \/ Resize(i) \/ RemovePanel(i) \/ OpenSettings(i)
  \/ AddAt \/ AddPanel \/ CloseSettings

Spec == Init /\ [][Next]_vars

-----------------------------------------------------------------------------
(* Properties. *)

(* "Panels are placed freely, never overlap, and scale with the window"     *)
(* (configuration/layout.md): said of every drag, whatever its direction.   *)
NeverOverlap == Apart(layout)

(* Every panel stays on the canvas, large enough to be grabbed, and clear   *)
(* of the others, whatever was dragged, added, carved or reloaded. *)
WellPlaced == Apart(layout) /\ \A i \in DOMAIN layout : Inside(layout[i])

(* The settings window edits the panel it was opened for, though it only    *)
(* knows an index and panels before it come and go. *)
SettingsFollow == settings # 0 => settings = about

(* Everything a panel covers while it slides from a to b along one axis.    *)
Swept(a, b) ==
  LET x == IF a.fx < b.fx THEN a.fx ELSE b.fx
      y == IF a.fy < b.fy THEN a.fy ELSE b.fy
  IN [fx |-> x, fy |-> y, fw |-> a.fx + b.fx - 2 * x + a.fw, fh |-> a.fy + b.fy - 2 * y + a.fh]

(* Collisions "block at contact": however far the pointer went in a frame,  *)
(* a moved panel slid through free space, first along X and then along Y,   *)
(* and never came out on the far side of a neighbour. *)
SlideStep ==
  drags' # drags =>
    \A i \in DOMAIN layout :
      layout'[i].fw = layout[i].fw /\ layout'[i].fh = layout[i].fh /\ layout'[i] # layout[i] =>
        LET stepped == [layout[i] EXCEPT !.fx = layout'[i].fx]
        IN \A o \in Others(i) : /\ ~RectsOverlap(Swept(layout[i], stepped), o)
                                /\ ~RectsOverlap(Swept(stepped, layout'[i]), o)

BlockedAtContact == [][SlideStep]_vars
=============================================================================
