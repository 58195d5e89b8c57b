------------------------------- MODULE Panels -------------------------------
(***************************************************************************)
(* Which times the plots of a workspace show (src/viz): the trailing view  *)
(* of the frame's clock, a panel's own zoom, and the window all share once *)
(* the toolbar's link is armed and one plot was zoomed.                    *)
(*                                                                         *)
(* A window is a pair of ticks. A drag selects one half of what its plot   *)
(* shows; the y range is left out: it stays with the panel it was dragged  *)
(* in. Panels on other screens are not drawn but keep their zoom.          *)
(***************************************************************************)
EXTENDS Integers, FiniteSets

CONSTANTS
  Waveforms,   \* plots with gestures of their own
  StateGraphs, \* plots without
  ScreenOf,    \* the screen each plot is on
  Spans,       \* visible spans the user chooses between
  MaxClock,    \* bound: the clock runs over 0..MaxClock
  Unset

Plots == Waveforms \union StateGraphs
Screens == {ScreenOf[p] : p \in Plots}
Forever == 100  \* beyond every tick of the model

VARIABLES
  clock,     \* frame_clock
  global,    \* global_window_s
  linked,    \* link_zoom
  shared,    \* the linked zoom range
  zoom,      \* each plot's own time zoom
  override,  \* each plot's own span
  active     \* the screen shown

vars == <<clock, global, linked, shared, zoom, override, active>>

Ticks == -Forever..Forever

TypeOK ==
  /\ clock \in 0..MaxClock /\ global \in Spans /\ linked \in BOOLEAN
  /\ shared = Unset \/ shared \in Ticks \X Ticks
  /\ \A p \in Plots : zoom[p] = Unset \/ zoom[p] \in Ticks \X Ticks
  /\ override \in [Plots -> Spans \union {Unset}]
  /\ active \in Screens

Init ==
  /\ clock = 0 /\ global \in Spans
  /\ linked = FALSE /\ shared = Unset
  /\ zoom = [p \in Plots |-> Unset]
  /\ override = [p \in Plots |-> Unset]
  /\ active \in Screens

-----------------------------------------------------------------------------
(* What is shown. *)

(* effective_window_s *)
Span(p) == IF override[p] # Unset THEN override[p] ELSE global
Trailing(span) == <<clock - span, clock>>

(* linked_window *)
Linked == IF linked THEN shared ELSE Unset

Window(p) ==
  IF Linked # Unset THEN Linked
  ELSE IF zoom[p] # Unset THEN zoom[p] ELSE Trailing(Span(p))

-----------------------------------------------------------------------------
(* The app: the clock of the next frame, which runs on or was scrubbed, the *)
(* toolbar, the screen tabs and a layout loaded.                            *)

ClockMoves ==
  /\ clock' \in 0..MaxClock
  /\ UNCHANGED <<global, linked, shared, zoom, override, active>>

SetGlobal ==
  /\ global' \in Spans
  /\ UNCHANGED <<clock, linked, shared, zoom, override, active>>

SwitchScreen ==
  /\ active' \in Screens
  /\ UNCHANGED <<clock, global, linked, shared, zoom, override>>

(* reset_zoom on every panel of every screen. *)
ResetAllShown ==
  /\ shared' = Unset
  /\ zoom' = [p \in Plots |-> IF ScreenOf[p] = active THEN Unset ELSE zoom[p]]
  /\ UNCHANGED <<clock, global, linked, override, active>>

ResetAll ==
  /\ shared' = Unset
  /\ zoom' = [p \in Plots |-> Unset]
  /\ UNCHANGED <<clock, global, linked, override, active>>

Arm ==
  /\ ~linked /\ linked' = TRUE
  /\ shared' = Unset
  /\ UNCHANGED <<clock, global, zoom, override, active>>

(* freeze_time_zoom *)
FrozenShown(p) == IF ScreenOf[p] = active THEN shared ELSE zoom[p]
Frozen(p) == shared

Release ==
  /\ linked /\ linked' = FALSE
  /\ zoom' = IF shared = Unset THEN zoom ELSE [p \in Plots |-> Frozen(p)]
  /\ shared' = Unset
  /\ UNCHANGED <<clock, global, override, active>>

(* The new panels have no zoom; the link and its window stay.               *)
LoadLayout ==
  /\ zoom' = [p \in Plots |-> Unset]
  /\ override' \in {[p \in Plots |-> Unset], [p \in Plots |-> 1]}
  /\ global' \in Spans
  /\ UNCHANGED <<clock, linked, shared, active>>

-----------------------------------------------------------------------------
(* The panels of the screen shown. *)

Shown == {p \in Plots : ScreenOf[p] = active}

Halves(w) ==
  LET mid == w[1] + (w[2] - w[1]) \div 2 IN {<<w[1], mid>>, <<mid, w[2]>>}

(* The time window becomes the one of all plots while they are linked. *)
ZoomTimeAndOwn(p, w) ==
  /\ zoom' = [zoom EXCEPT ![p] = w]
  /\ shared' = IF linked THEN w ELSE shared

ZoomTime(p, w) ==
  IF linked THEN shared' = w /\ UNCHANGED zoom
  ELSE zoom' = [zoom EXCEPT ![p] = w] /\ UNCHANGED shared

Drag(p) ==
  /\ \E w \in Halves(Window(p)) : w[1] < w[2] /\ ZoomTime(p, w)
  /\ UNCHANGED <<clock, global, linked, override, active>>

DoubleClick(p) ==
  /\ IF linked THEN shared' = Unset /\ UNCHANGED zoom
     ELSE zoom' = [zoom EXCEPT ![p] = Unset] /\ UNCHANGED shared
  /\ UNCHANGED <<clock, global, linked, override, active>>

(* "Reset zoom" in the panel's own menu. *)
ResetPanel(p) ==
  /\ zoom' = [zoom EXCEPT ![p] = Unset]
  /\ UNCHANGED <<clock, global, linked, shared, override, active>>

(* window_config_row *)
SetOverride(p) ==
  /\ override' = [override EXCEPT ![p] = IF @ = Unset THEN global ELSE Unset]
  /\ UNCHANGED <<clock, global, linked, shared, zoom, active>>

-----------------------------------------------------------------------------
Next ==
  \/ ClockMoves \/ SetGlobal \/ SwitchScreen \/ ResetAll \/ Arm \/ Release \/ LoadLayout
  \/ \E p \in Shown : ResetPanel(p) \/ SetOverride(p)
  \/ \E w \in Shown \intersect Waveforms : Drag(w) \/ DoubleClick(w)

Spec == Init /\ [][Next]_vars

-----------------------------------------------------------------------------
(* Properties. *)

(* Releasing the link changes the view of no plot, nor of one on a hidden   *)
(* screen: what was on display stays where it is. *)
ReleaseStep == Release => \A p \in Plots : Window(p)' = Window(p)

(* After "Reset zoom on all panels" everything follows the clock again, on  *)
(* every screen, linked or not, and whatever was zoomed how. *)
ResetStep ==
  ResetAll => \A p \in Plots : Window(p)' = Trailing(Span(p))' /\ Linked' = Unset

(* A gesture in one plot moves that plot alone or, linked, all of them to   *)
(* the same window; it leaves the zoom they had before they were linked, so *)
(* that ending the shared zoom brings each back to its own view. *)
GestureStep ==
  \A w \in Waveforms : Drag(w) \/ DoubleClick(w) =>
    /\ linked => zoom' = zoom
    /\ ~linked => \A p \in Plots \ {w} : Window(p)' = Window(p)
=============================================================================
