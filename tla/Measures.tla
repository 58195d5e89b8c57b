------------------------------ MODULE Measures ------------------------------
(***************************************************************************)
(* What panels work out from the samples in their window (src/viz): the    *)
(* cursors of a waveform and the statistics between them, the pairs of an  *)
(* xy plot, the lines of a log, and the ticks of a state graph.            *)
(*                                                                         *)
(* Two channels, whose newest samples are in the window of W ticks up to   *)
(* now. A sample's value stands for its text where a text is shown.        *)
(***************************************************************************)
EXTENDS Integers, Sequences, SequencesExt, FiniteSetsExt

CONSTANTS
  Levels,   \* values
  W,        \* the window's width
  MaxNow,   \* bound on the clock
  MaxTotal, \* bound on the samples of both channels
  MaxShown, \* max_lines of the log, and the points an xy plot draws
  None

VARIABLES
  now,      \* frame_clock
  series,   \* the samples of channels 1 and 2
  cursors,  \* cursor_a_ns and cursor_b_ns
  snapped   \* history: was there a sample in the window when it was set?

vars == <<now, series, cursors, snapped>>

Channels == {1, 2}
Snap(ch) == SelectSeq(series[ch], LAMBDA s : now - W <= s.t /\ s.t <= now)
Plotted == ToSet(Snap(1)) \union ToSet(Snap(2))

TypeOK ==
  /\ now \in 0..MaxNow /\ cursors \in [{"a", "b"} -> -W..MaxNow \union {None}]
  /\ \A ch \in Channels : \A i \in 2..Len(series[ch]) : series[ch][i - 1].t < series[ch][i].t

Init ==
  /\ now = 0 /\ series = [ch \in Channels |-> <<>>]
  /\ cursors = [c \in {"a", "b"} |-> None] /\ snapped = [c \in {"a", "b"} |-> FALSE]

-----------------------------------------------------------------------------
(* Cursors. *)

Dist(a, b) == IF a < b THEN b - a ELSE a - b

(* min_by_key: the first of the nearest, the channels in their order.       *)
nearest_sample_ts(ts) ==
  LET all == Snap(1) \o Snap(2)
      nearest == {i \in DOMAIN all : \A j \in DOMAIN all : Dist(all[i].t, ts) <= Dist(all[j].t, ts)}
  IN IF all = <<>> THEN ts ELSE all[Min(nearest)].t

nearest_point(line, target) ==
  LET nearest == {i \in DOMAIN line : \A j \in DOMAIN line : Dist(line[i].t, target) <= Dist(line[j].t, target)}
  IN IF line = <<>> THEN {} ELSE {line[Min(nearest)]}

Click(c, ts) ==
  /\ series[1] \o series[2] # <<>>
  /\ cursors' = [cursors EXCEPT ![c] = nearest_sample_ts(ts)]
  /\ snapped' = [snapped EXCEPT ![c] = Plotted # {}]
  /\ UNCHANGED <<now, series>>

ClearCursors ==
  /\ cursors' = [c \in {"a", "b"} |-> None]
  /\ UNCHANGED <<now, series, snapped>>

(* stats, of which the mean and the rms are left out. *)
Stats(vals) == [min |-> Min(ToSet(vals)), max |-> Max(ToSet(vals)), count |-> Len(vals)]

(* With a slip: the right end of the selection is not in it. *)
selection_stats_open(line, lo, hi) ==
  LET sel == SelectSeq(line, LAMBDA s : s.t >= lo /\ s.t < hi)
  IN IF sel = <<>> THEN {} ELSE {Stats([i \in DOMAIN sel |-> sel[i].v])}

selection_stats(line, lo, hi) ==
  LET sel == SelectSeq(line, LAMBDA s : s.t >= lo /\ s.t <= hi)
  IN IF sel = <<>> THEN {} ELSE {Stats([i \in DOMAIN sel |-> sel[i].v])}

-----------------------------------------------------------------------------
(* The other panels. *)

Newest(s, n) == IF Len(s) <= n THEN s ELSE SubSeq(s, Len(s) - n + 1, Len(s))

(* With a slip: the oldest samples are paired. *)
index_align_oldest(x, y, max) ==
  LET n == Min({Len(x), Len(y)}) IN [i \in 1..Min({n, max}) |-> <<x[i], y[i]>>]

(* Pairs from the newest sample backwards, every stride-th of them.         *)
index_align(x, y, max) ==
  LET n == Min({Len(x), Len(y)})
      stride == IF n <= max THEN 1 ELSE (n + max - 1) \div max
      tails == [i \in 1..n |-> <<Newest(x, n)[i], Newest(y, n)[i]>>]
  IN [i \in 1..(n + stride - 1) \div stride |-> tails[1 + (i - 1) * stride]]

(* The sort is stable: lines of one time stay in the order of the channels. *)
(* A filter is the set of the texts it matches. *)
merge_filter(sets, filter, max) ==
  LET all == FlattenSeq(sets)
      order == SetToSortSeq(DOMAIN all,
                 LAMBDA i, j : all[i].t < all[j].t \/ (all[i].t = all[j].t /\ i < j))
  IN Newest(SelectSeq([k \in DOMAIN order |-> all[order[k]]], LAMBDA s : s.v \in filter), max)

(* The step of a time axis: a round number, for about `target` ticks.       *)
nice_time_step_ns(span, target) ==
  LET rough == Max({span \div target, 1})
      mag == Max({m \in {10^k : k \in 0..8} : m <= rough})
  IN mag * (IF 2 * rough <= 3 * mag THEN 1 ELSE IF rough <= 3 * mag THEN 2
            ELSE IF rough <= 7 * mag THEN 5 ELSE 10)

-----------------------------------------------------------------------------
Arrive(ch, v) ==
  /\ Len(series[1]) + Len(series[2]) < MaxTotal
  /\ \A i \in DOMAIN series[ch] : series[ch][i].t < now
  /\ series' = [series EXCEPT ![ch] = Append(@, [t |-> now, v |-> v])]
  /\ UNCHANGED <<now, cursors, snapped>>

Tick ==
  /\ now < MaxNow /\ now' = now + 1
  /\ UNCHANGED <<series, cursors, snapped>>

Next ==
  \/ Tick \/ ClearCursors
  \/ \E ch \in Channels, v \in Levels : Arrive(ch, v)
  \/ \E c \in {"a", "b"}, ts \in now - W .. now : Click(c, ts)

-----------------------------------------------------------------------------
(* Properties. *)

InView(c) == cursors[c] # None /\ snapped[c] /\ now - W <= cursors[c] /\ cursors[c] <= now

(* A cursor stands on a sample, and as long as that is in view the readout  *)
(* of its channel is that sample's value. *)
CursorsReadSamples ==
  \A c \in {"a", "b"} : InView(c) =>
    \E ch \in Channels : \E p \in nearest_point(Snap(ch), cursors[c]) : p.t = cursors[c]

(* The selection between two cursors, whichever is the first, counts the    *)
(* samples they stand on and every one between. *)
SelectionHoldsCursors ==
  InView("a") /\ InView("b") =>
    LET lo == Min({cursors["a"], cursors["b"]})
        hi == Max({cursors["a"], cursors["b"]})
        between(ch) == {s \in ToSet(Snap(ch)) : lo <= s.t /\ s.t <= hi}
    IN /\ {lo, hi} \subseteq UNION {{s.t : s \in between(ch)} : ch \in Channels}
       /\ \A ch \in Channels :
            selection_stats(Snap(ch), lo, hi) =
              IF between(ch) = {} THEN {}
              ELSE {[min |-> Min({s.v : s \in between(ch)}), max |-> Max({s.v : s \in between(ch)}),
                     count |-> Cardinality(between(ch))]}

(* An xy plot draws a bounded number of pairs, each of samples equally far  *)
(* from the newest of their channels. *)
PairsAligned ==
  LET x == Snap(1)
      y == Snap(2)
      pairs == index_align(x, y, MaxShown)
  IN /\ Len(pairs) <= MaxShown
     /\ (pairs = <<>>) = (x = <<>> \/ y = <<>>)
     /\ \A k \in DOMAIN pairs : \E d \in 0..Min({Len(x), Len(y)}) - 1 :
          pairs[k] = <<x[Len(x) - d], y[Len(y) - d]>>

(* A log shows the newest lines that match, in the order of their times.    *)
LogShowsNewest ==
  LET filter == Levels \ {0}
      matching == {s \in Plotted : s.v \in filter}
      shown == merge_filter(<<Snap(1), Snap(2)>>, filter, MaxShown)
  IN /\ Len(shown) <= MaxShown /\ ToSet(shown) \subseteq matching
     /\ \A i \in 2..Len(shown) : shown[i - 1].t <= shown[i].t
     /\ \A s \in matching \ ToSet(shown) : Len(shown) = MaxShown /\ s.t <= shown[1].t

(* An axis has at least three steps and at most ten.   *)
TicksReadable ==
  Plotted = {} /\ now = 0 =>
    \A span \in 5..1500 : LET step == nice_time_step_ns(span, 5) IN
      3 * step <= span /\ span <= 10 * step
=============================================================================
