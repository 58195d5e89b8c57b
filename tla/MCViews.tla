------------------------------- MODULE MCViews ------------------------------
(***************************************************************************)
(* What the panels show: which times (Panels), up to which instant         *)
(* (Readouts), of which channels still produce (Freshness), of text        *)
(* (TextStore), of a window of samples (Plots) and what is worked out from *)
(* it (Measures); one of the six in each behaviour.                        *)
(***************************************************************************)
EXTENDS Integers, Sequences

CONSTANTS
  Waveforms, StateGraphs, ScreenOf, Spans, MaxClock, Unset,
  Sizes, Windows, MaxPosition, MaxStamps,
  Lags, MinGap, MaxGap, MaxBurst, Recent, MaxHidden, None,
  Texts, MaxLines, MaxPushed, NoText,
  Values, MaxSamples, MaxJoins, Buckets, Names,
  Levels, W, MaxNow, MaxTotal, MaxShown

(* A channel that pauses does not pause for five times as long now and then, *)
(* even if a panel notices one pause a tick early. *)
ASSUME ViewsAssumption ==
  /\ MinGap \in Nat /\ MaxGap \in Nat /\ MinGap <= MaxGap /\ MaxGap < 5 * (MinGap - 1)
  /\ MaxBurst \in Nat \ {0} /\ Recent \in Nat \ {0, 1} /\ MaxHidden \in Nat
  /\ MaxLines \in Nat \ {0}
  /\ None \notin [text : Texts, code : Nat \cup {None}]
  /\ None \notin [advanced : Nat, interval : Nat, evaluated : Nat, cached : {"fresh", "slowing", "stalled"}]
  /\ Sizes \subseteq Nat \ {0} /\ Windows \subseteq Nat \X Nat /\ Unset \notin Windows
  /\ MaxPosition \in Nat

(* Buckets hold samples, and a name has segments, each with its separator.   *)
ASSUME DrawingAssumption ==
  /\ Values \subseteq Int /\ Buckets \in Nat \ {0}
  /\ Names \subseteq Seq(STRING \X STRING) \ {<< >>}

VARIABLES
  scene, \* which of the six
  clock, global, linked, shared, zoom, override, active,
  position, stamps, window, fft_size, tail, label, short, still,
  lag, alive, quiet, burst, gaps, visible, hidden, drawn, unseen, tracked, begun, prompt, paced,
  pushed, labels, ring, lines, writing, badge, graph,
  samples, breaks, bound,
  now, series, cursors, snapped

Views   == INSTANCE Panels
Reads   == INSTANCE Readouts
Dot     == INSTANCE Freshness
Text    == INSTANCE TextStore
Drawing == INSTANCE Plots
Measured == INSTANCE Measures

views   == <<clock, global, linked, shared, zoom, override, active>>
reads   == <<position, stamps, window, fft_size, tail, label, short, still>>
dot     == <<lag, alive, quiet, burst, gaps, visible, hidden, drawn, unseen, tracked,
             begun, prompt, paced>>
text    == <<pushed, labels, ring, lines, writing, badge, graph>>
drawing == <<samples, breaks, bound>>
measures == <<now, series, cursors, snapped>>
vars    == <<scene, views, reads, dot, text, drawing, measures>>

(* Two waveforms, on two screens, the second with a state graph. *)
MCScreenOf == [w1 |-> 1, w2 |-> 2, g |-> 2]

MCWindows == {<<0, 2>>, <<1, 4>>}

(* a/x, a/y, a.x and a/b/x: names with a segment in common, or only alike.  *)
MCNames ==
  {<<<<"a", "/">>, <<"x", "">>>>, <<<<"a", "/">>, <<"y", "">>>>,
   <<<<"a", ".">>, <<"x", "">>>>, <<<<"a", "/">>, <<"b", "/">>, <<"x", "">>>>}

Init ==
  /\ scene \in {"views", "reads", "dot", "text", "drawing", "measures"}
  /\ Views!Init /\ Reads!Init /\ Dot!Init /\ Text!Init /\ Drawing!Init /\ Measured!Init
  /\ scene # "views" => global = 1 /\ active = 1
  /\ scene # "reads" => \A n \in Sizes : fft_size <= n
  /\ scene # "dot" => lag = 0 /\ visible /\ burst = 1 /\ \A i \in DOMAIN gaps : gaps[i] = MinGap

Next ==
  /\ UNCHANGED scene
  /\ \/ scene = "views" /\ Views!Next /\ UNCHANGED <<reads, dot, text, drawing, measures>>
     \/ scene = "reads" /\ Reads!Next /\ UNCHANGED <<views, dot, text, drawing, measures>>
     \/ scene = "dot" /\ Dot!Next /\ UNCHANGED <<views, reads, text, drawing, measures>>
     \/ scene = "text" /\ Text!Next /\ UNCHANGED <<views, reads, dot, drawing, measures>>
     \/ scene = "drawing" /\ Drawing!Next /\ UNCHANGED <<views, reads, dot, text, measures>>
     \/ scene = "measures" /\ Measured!Next /\ UNCHANGED <<views, reads, dot, text, drawing>>

(* Time passes, a visible panel is drawn, and a channel that produces does. *)
Fairness ==
  /\ WF_dot(scene = "dot" /\ Dot!Tick) /\ WF_dot(scene = "dot" /\ Dot!Draw)
  /\ WF_dot(scene = "dot" /\ Dot!Sample)

FairSpec == Init /\ [][Next]_vars /\ Fairness

-----------------------------------------------------------------------------
(* Properties. *)

(* Releasing the link moves no plot, on no screen; a gesture moves the plot *)
(* it was made in, or all of them together when they are linked; and "Reset *)
(* zoom on all panels" brings every plot back to the clock. *)
ViewsKept ==
  [][scene = "views" => Views!ReleaseStep /\ Views!GestureStep /\ Views!ResetStep]_vars

(* What is read at an instant is the newest sample not after it, the right- *)
(* most of the plots when a window is shared; and a spectrum that looked    *)
(* back too little does not do so twice. *)
ReadoutsTruthful == scene = "reads" => Reads!ValueAtEnd /\ Reads!SpectrumHeals

(* A channel that produces, in bursts or not, is not marked as stopped if   *)
(* the samples read reach back over a pause, or its bursts were noticed as  *)
(* they began. *)
NoFalseAlarm == [][scene = "dot" => Dot!AlarmStep]_vars

(* A channel that stopped is marked so, if its panel stays on the screen.   *)
StoppedIsNoticed == scene = "dot" => Dot!StoppedIsNoticed

(* A text is shown as it was written. A plot shows what its samples say:    *)
(* states are held between samples and not across joins, lines break where  *)
(* states do, no extreme is thinned away, and the legend's short names are  *)
(* told apart. *)
ShownAsWritten ==
  /\ scene = "text" => Text!TextShownAsWritten
  /\ scene = "drawing" =>
       /\ Drawing!StateHeld /\ Drawing!LinesBreakAtJoins
       /\ Drawing!ExtremesDrawn /\ Drawing!LegendTellsApart

(* Cursors stand on samples and measure what is between them, pairs are     *)
(* aligned, logs show the newest lines, a spectrum says when its samples    *)
(* are not evenly spaced. *)
MeasuresTruthful ==
  /\ scene = "measures" =>
       /\ Measured!CursorsReadSamples /\ Measured!SelectionHoldsCursors /\ Measured!PairsAligned
       /\ Measured!LogShowsNewest /\ Measured!TicksReadable
  /\ scene = "reads" => Reads!RateTrusted
=============================================================================
