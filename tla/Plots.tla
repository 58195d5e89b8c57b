-------------------------------- MODULE Plots --------------------------------
(***************************************************************************)
(* What a plot draws of the samples in its window (src/viz): the lines of  *)
(* a waveform, thinned where there are too many samples, the spans of a    *)
(* state graph, and the names of a legend. The samples are those of one    *)
(* channel of some recordings played as one, whose joins are the breaks.   *)
(*                                                                         *)
(* A sample is a record of its time and value. A channel's name is the     *)
(* sequence of its segments, each with the separator after it.             *)
(***************************************************************************)
EXTENDS Integers, Sequences, SequencesExt, FiniteSetsExt, Sublists

CONSTANTS
  Values,
  MaxSamples, \* bound: samples in the window
  MaxJoins,   \* bound: joins in it
  Buckets,    \* MAX_PLOT_BUCKETS
  Names       \* channels that can be bound

VARIABLES
  samples, \* of the snapshot, in time order
  breaks,  \* break_times
  bound    \* the names of a waveform's channels

vars == <<samples, breaks, bound>>

TypeOK ==
  /\ Len(samples) <= MaxSamples
  /\ \A i \in 2..Len(samples) : samples[i - 1].t < samples[i].t
  /\ IsInjective(bound)

Init == samples = <<>> /\ breaks = {} /\ bound = <<>>

Newest == IF samples = <<>> THEN 0 ELSE Last(samples).t

(* One or two ticks after the last; a later recording may have begun        *)
(* meanwhile, at its first sample or at another channel's. *)
Sample ==
  /\ bound = <<>> /\ Len(samples) < MaxSamples
  /\ \E t \in Newest + 1 .. Newest + 2, v \in Values :
       /\ samples' = Append(samples, [t |-> t, v |-> v])
       /\ \E join \in SUBSET (Newest + 1 .. t) :
            /\ Cardinality(join) <= 1 /\ Cardinality(breaks \union join) <= MaxJoins
            /\ breaks' = breaks \union join
  /\ UNCHANGED bound

(* drop_channel. The legend does not depend on the samples.                 *)
Bind ==
  /\ samples = <<>>
  /\ \E n \in Names : ~Contains(bound, n) /\ bound' = Append(bound, n)
  /\ UNCHANGED <<samples, breaks>>

Unbind ==
  /\ samples = <<>>
  /\ \E i \in DOMAIN bound : bound' = RemoveAt(bound, i)
  /\ UNCHANGED <<samples, breaks>>

Next == Sample \/ Bind \/ Unbind

Spec == Init /\ [][Next]_vars

-----------------------------------------------------------------------------
(* The spans of a state graph. *)

N == Len(samples)
Broken(i) == \E b \in breaks : samples[i - 1].t < b /\ b <= samples[i].t
Changed(i) == samples[i].v # samples[i - 1].v

Span(s, e, v) == [from |-> s, to |-> e, v |-> v]

(* A run goes up to the sample that begins the next, or ends with its last  *)
(* sample at a join. *)
RunEnd(starts, i) ==
  LET later == {j \in starts : j > i} IN
  IF later = {} THEN samples[N].t
  ELSE LET j == Min(later) IN samples[IF Broken(j) THEN j - 1 ELSE j].t

SpansAt(starts) == {Span(samples[i].t, RunEnd(starts, i), samples[i].v) : i \in starts}

segmentsUnbroken == SpansAt({i \in 1..N : i = 1 \/ Changed(i)})
segments == SpansAt({i \in 1..N : i = 1 \/ Broken(i) \/ Changed(i)})

(* painted_spans: the first run fills back to the left edge of the window,  *)
(* the last up to its end. *)
painted_spans(t0, end) ==
  LET starts == {s.from : s \in segments} IN
  {Span(IF s.from = Min(starts) THEN Min({s.from, t0}) ELSE s.from,
        IF s.from = Max(starts) THEN Max({s.to, end}) ELSE s.to,
        s.v) : s \in segments}

-----------------------------------------------------------------------------
(* The lines of a waveform. *)

(* Where the samples are split: before the first one at or after a break,   *)
(* unless one of the parts would be empty. *)
splitsLate ==
  {Cardinality({i \in 1..N : samples[i].t <= b}) : b \in breaks} \ {0, N}

splits ==
  {Cardinality({i \in 1..N : samples[i].t < b}) : b \in breaks} \ {0, N}

Lines ==
  {SubSeq(samples, s + 1, Min({e \in splits \union {N} : e > s})) :
     s \in {0} \union splits}

(* decimate_minmax: of each bucket the first smallest and the first largest *)
(* sample, unless there are at most two samples for each bucket.            *)
CeilDiv(a, b) == (a + b - 1) \div b
SamplesOf(line, start, size) == start .. Min({start + size - 1, Len(line)})
FirstLeast(is, value(_)) == Min({i \in is : \A j \in is : value(i) <= value(j)})
Extremes(line, is) ==
  {FirstLeast(is, LAMBDA i : line[i].v), FirstLeast(is, LAMBDA i : -line[i].v)}

KeptWithoutTail(line) ==
  LET size == Len(line) \div Buckets
  IN UNION {Extremes(line, SamplesOf(line, 1 + k * size, size)) : k \in 0..Buckets - 1}

Kept(line) ==
  LET size == CeilDiv(Len(line), Buckets)
      starts == {i \in 1..Len(line) : (i - 1) % size = 0}
  IN UNION {Extremes(line, SamplesOf(line, i, size)) : i \in starts}

decimate_minmax(line) ==
  IF Len(line) <= 2 * Buckets THEN line ELSE Picked(line, Kept(line))

-----------------------------------------------------------------------------
(* The legend of a waveform: shorten_common_prefix. *)

SharedSegments(k) == \A i \in DOMAIN bound : bound[i][k][1] = bound[1][k][1]
SharedTokens(k) == \A i \in DOMAIN bound : bound[i][k] = bound[1][k]

(* Every name keeps its last segment. *)
SharedLen ==
  IF Len(bound) < 2 THEN 0
  ELSE LET cap == Min({Len(bound[i]) : i \in DOMAIN bound}) - 1
       IN Max({k \in 0..cap : \A j \in 1..k : SharedTokens(j)})

Prefix == IF bound = <<>> THEN <<>> ELSE SubSeq(bound[1], 1, SharedLen)
Shorts == [i \in DOMAIN bound |-> SubSeq(bound[i], SharedLen + 1, Len(bound[i]))]

-----------------------------------------------------------------------------
(* Properties. *)

ShownAt(x) == {s.v : s \in {s \in painted_spans(0, Newest + 2) : s.from <= x /\ x < s.to}}

(* Between two samples a state graph shows the state of the earlier one,    *)
(* and nothing where the recordings do not meet; before the first sample of *)
(* the window it shows the first state and after the last one the last. No  *)
(* instant is painted twice. *)
StateHeld ==
  N > 0 =>
    /\ \A i \in 1..N - 1 : \A x \in samples[i].t .. samples[i + 1].t - 1 :
         ShownAt(x) = IF Broken(i + 1) THEN {} ELSE {samples[i].v}
    /\ \A x \in 0 .. samples[1].t - 1 : ShownAt(x) = {samples[1].v}
    /\ \A x \in Newest .. Newest + 1 : ShownAt(x) = {samples[N].v}

(* A line of a waveform never crosses a join, and a join is where the state *)
(* graph of the same samples breaks: the two agree on which samples belong  *)
(* together. *)
LinesBreakAtJoins ==
  N > 0 => \A i \in 2..N :
    Broken(i) <=> \A line \in Lines : ~(Contains(line, samples[i - 1]) /\ Contains(line, samples[i]))

(* However few points are drawn, the extremes of each line are among them,  *)
(* at their times, and the line runs forward in time. *)
ExtremesDrawn ==
  N > 0 => \A line \in Lines :
    LET drawn == decimate_minmax(line) IN
    /\ Len(drawn) <= 2 * Buckets /\ ToSet(drawn) \subseteq ToSet(line)
    /\ {Max({s.v : s \in ToSet(line)}), Min({s.v : s \in ToSet(line)})} \subseteq {s.v : s \in ToSet(drawn)}
    /\ \A i \in 2..Len(drawn) : drawn[i - 1].t < drawn[i].t

(* The legend's shortened names stay names: each is what its channel adds   *)
(* to the prefix shown, and no two channels are shown alike. *)
LegendTellsApart ==
  /\ \A i \in DOMAIN bound : Prefix \o Shorts[i] = bound[i]
  /\ IsInjective(Shorts) /\ \A i \in DOMAIN bound : Shorts[i] # <<>>
=============================================================================
