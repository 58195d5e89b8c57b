------------------------------ MODULE Readouts -------------------------------
(***************************************************************************)
(* The panels that read one channel up to an instant (src/viz): a number,  *)
(* a gauge or a badge shows the newest sample, a spectrum analyses the     *)
(* newest fft_size of them. The instant is the position of the store's     *)
(* clock, which may be scrubbed, or the end of the window all panels share *)
(* (Panels). A spectrum bounds how far it looks back by what its last      *)
(* frame found.                                                            *)
(*                                                                         *)
(* Samples are known by their place in the store; their times never fall.  *)
(***************************************************************************)
EXTENDS Integers, Sequences, SequencesExt, FiniteSetsExt

CONSTANTS
  Sizes,       \* fft sizes offered
  Windows,     \* windows that may be shared: pairs of times
  MaxPosition, \* bound: times are in 0..MaxPosition
  MaxStamps,   \* bound on the samples
  Unset

Beginning == -1  \* i64::MIN: before every sample

VARIABLES
  position, \* now_ns of the store
  stamps,   \* the times of the samples
  window,   \* linked_window
  fft_size,
  tail,     \* tail_span_ns
  label,    \* what the last frame of the spectrum showed
  short,    \* history: frames in a row that fell short of samples there are
  still     \* history: nothing changed since that frame

vars == <<position, stamps, window, fft_size, tail, label, short, still>>

TypeOK ==
  /\ position \in 0..MaxPosition
  /\ stamps \in Seq(0..MaxPosition)
  /\ \A i \in 2..Len(stamps) : stamps[i - 1] <= stamps[i]
  /\ window \in Windows \union {Unset} /\ fft_size \in Sizes
  /\ tail # Unset => tail > 0

Init ==
  /\ position = 0 /\ stamps = <<>> /\ window = Unset
  /\ fft_size \in Sizes /\ tail = Unset
  /\ label = "nodata" /\ short = 0 /\ still = FALSE

-----------------------------------------------------------------------------
(* What is read. *)

Held(from, to) == {i \in DOMAIN stamps : from <= stamps[i] /\ stamps[i] <= to}

(* The instant a number, a gauge and a badge show.                          *)
At == IF window # Unset THEN window[2] ELSE position

(* With slips: the clock is not looked at; a sample at the end is left out. *)
latest(end) == IF stamps = <<>> THEN {} ELSE {Len(stamps)}
latest_before(end) ==
  LET before == Held(Beginning, end - 1) IN IF before = {} THEN {} ELSE {Max(before)}

(* The newest sample, if it is not later, else the last of the snapshot.    *)
latest_at(end) ==
  LET until == Held(Beginning, end)
  IN IF stamps = <<>> THEN {}
     ELSE IF stamps[Len(stamps)] <= end THEN {Len(stamps)}
     ELSE IF until = {} THEN {} ELSE {Max(until)}

(* What a spectrum snapshots.                                               *)
Snapshot ==
  IF window # Unset THEN Held(window[1], window[2])
  ELSE Held(IF tail = Unset THEN Beginning ELSE position - tail, position)

FallsShort == Cardinality(Snapshot) < fft_size

(* The median of the gaps, of which there must be one and which must not be *)
(* zero, and whether no gap is off by more than a tenth.                    *)
estimate_rate(ts) ==
  LET gap(i) == ts[i + 1] - ts[i]
      order == SetToSortSeq(1..Len(ts) - 1,
                 LAMBDA i, j : gap(i) < gap(j) \/ (gap(i) = gap(j) /\ i < j))
      median == gap(order[Len(order) \div 2 + 1])
      tol == median \div 10
  IN IF Len(ts) < 2 THEN {}
     ELSE IF median <= 0 THEN {}
     ELSE {[gap |-> median,
            uniform |-> median - gap(order[1]) <= tol /\ gap(Last(order)) - median <= tol]}

Rate ==
  LET before == Max(Snapshot) - fft_size
  IN estimate_rate([k \in 1..fft_size |-> stamps[before + k]])

-----------------------------------------------------------------------------
(* The channel and the user. *)

Push ==
  /\ Len(stamps) < MaxStamps
  /\ \E t \in 0..MaxPosition :
       /\ stamps # <<>> => stamps[Len(stamps)] <= t
       /\ stamps' = Append(stamps, t)
  /\ still' = FALSE
  /\ UNCHANGED <<position, window, fft_size, tail, label, short>>

Move ==
  /\ position' \in 0..MaxPosition
  /\ still' = FALSE
  /\ UNCHANGED <<stamps, window, fft_size, tail, label, short>>

Link ==
  /\ window' \in Windows \union {Unset}
  /\ still' = FALSE
  /\ UNCHANGED <<position, stamps, fft_size, tail, label, short>>

(* config_ui *)
Resize ==
  /\ fft_size' \in Sizes
  /\ still' = FALSE
  /\ UNCHANGED <<position, stamps, window, tail, label, short>>

-----------------------------------------------------------------------------
(* A frame of the spectrum. *)

(* With a slip: a short read leaves the bound as it is. *)
CollectKeeping == FallsShort /\ label' = "collecting" /\ UNCHANGED tail

Collect == FallsShort /\ label' = "collecting" /\ tail' = Unset

NoRate == ~FallsShort /\ Rate = {} /\ label' = "norate" /\ UNCHANGED tail

Analyse ==
  /\ ~FallsShort /\ label' = "spectrum"
  /\ \E rate \in Rate : tail' = 2 * fft_size * rate.gap

Frame ==
  /\ stamps # <<>>
  /\ Collect \/ NoRate \/ Analyse
  /\ short' = IF /\ window = Unset /\ label' = "collecting"
                 /\ Cardinality(Held(Beginning, position)) >= fft_size
              THEN short + 1 ELSE 0
  /\ still' = TRUE
  /\ UNCHANGED <<position, stamps, window, fft_size>>

Next == Push \/ Move \/ Link \/ Resize \/ Frame

Spec == Init /\ [][Next]_vars

-----------------------------------------------------------------------------
(* Properties. *)

(* What is read at the end of a shared window is the newest of the samples  *)
(* the plots draw in it, and otherwise nothing later than the clock and     *)
(* nothing older than need be, live or scrubbed, whatever arrived since.    *)
ValueAtEnd ==
  /\ window # Unset =>
       LET plotted == Held(window[1], window[2])
       IN plotted # {} => latest_at(At) = {Max(plotted)}
  /\ \A i \in latest_at(At) : stamps[i] <= At
  /\ \A i \in Held(Beginning, At) : \E j \in latest_at(At) : i <= j

(* A spectrum warns exactly when the gaps differ. *)
RateTrusted ==
  LET gaps == {stamps[i] - stamps[i - 1] : i \in 2..Len(stamps)}
  IN \A r \in estimate_rate(stamps) :
       r.gap \in gaps /\ (r.uniform <=> Cardinality(gaps) = 1)

(* "widen back to the full history next frame so the panel self-heals"      *)
(* (src/viz/spectrum.rs): the panel does not fall short twice in a row of   *)
(* samples that are there, however the clock is scrubbed, whatever arrives  *)
(* and is set in between. *)
SpectrumHeals == short <= 1

(* "~2x the span these `fft_size` samples cover, absorbing rate wobble and  *)
(* bursty arrival" (src/viz/spectrum.rs): the frame after one that showed a *)
(* spectrum up to the newest sample, with nothing changed, does again.      *)
BurstsAbsorbed ==
  /\ label = "spectrum" /\ still /\ window = Unset
  /\ stamps[Len(stamps)] = position
  => ~FallsShort
=============================================================================
