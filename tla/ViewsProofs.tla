---------------------------- MODULE ViewsProofs ----------------------------
(***************************************************************************)
(* Proofs about what the panels show, for any plots, channels and texts.   *)
(***************************************************************************)
EXTENDS MCViews, FunctionTheorems, FiniteSetTheorems, SequenceTheorems, WellFoundedInduction, TLAPS

SafeSpec == Init /\ [][Next]_vars

LEMMA FairIsSafe == FairSpec => SafeSpec
BY PTL DEF FairSpec, SafeSpec

LEMMA SceneStays == ASSUME [Next]_vars PROVE scene' = scene
BY DEF Next, vars

-----------------------------------------------------------------------------
(* The dot of a channel that produces. *)

LEMMA Larger ==
  ASSUME NEW a \in Int, NEW b \in Int
  PROVE  /\ Dot!Max({a, b}) \in {a, b} /\ Dot!Max({a, b}) >= a /\ Dot!Max({a, b}) >= b
<1>1. \E x \in {a, b} : \A y \in {a, b} : x >= y
  OBVIOUS
<1>. QED
  BY <1>1 DEF Dot!Max

LEMMA LargerPositive ==
  ASSUME NEW a \in Nat, NEW b \in Nat \ {0}
  PROVE  Dot!Max({a, b}) \in Nat \ {0} /\ Dot!Max({a, b}) >= a
<1>1. Dot!Max({a, b}) \in {a, b} /\ Dot!Max({a, b}) >= a /\ Dot!Max({a, b}) >= b
  BY Larger
<1>. QED
  BY <1>1

LEMMA Smaller ==
  ASSUME NEW a \in Int, NEW b \in Int
  PROVE  Dot!Min({a, b}) = IF a <= b THEN a ELSE b
<1>1. \E x \in {a, b} : \A y \in {a, b} : x <= y
  OBVIOUS
<1>. QED
  BY <1>1 DEF Dot!Min

LEMMA LeastOf ==
  ASSUME NEW S \in SUBSET Nat, S # {}
  PROVE  \E x \in S : \A y \in S : x <= y
<1>1. IsWellFoundedOn({ss \in Nat \X Nat : ss[1] < ss[2]}, Nat)
  BY NatLessThanWellFounded DEF OpToRel
<1>2. PICK x \in S : \A y \in S : <<y, x>> \notin {ss \in Nat \X Nat : ss[1] < ss[2]}
  BY <1>1, WFMin
<1>3. \A y \in S : x <= y
  <2>. TAKE y \in S
  <2>1. x \in Nat /\ y \in Nat /\ ~(y < x)
    BY <1>2
  <2>. QED
    BY <2>1
<1>. QED
  BY <1>3

LEMMA GreatestOf ==
  ASSUME NEW n \in Nat, NEW S \in SUBSET (0..n), S # {}
  PROVE  \E x \in S : \A y \in S : y <= x
<1>. DEFINE T == {n - x : x \in S}
<1>1. T \in SUBSET Nat /\ T # {}
  <2>1. \A x \in S : n - x \in Nat
    OBVIOUS
  <2>. QED
    BY <2>1
<1>2. PICK t \in T : \A u \in T : t <= u
  BY <1>1, LeastOf
<1>3. PICK x \in S : t = n - x
  BY <1>2
<1>4. \A y \in S : y <= x
  <2>. TAKE y \in S
  <2>1. n - y \in T
    OBVIOUS
  <2>2. n - x <= n - y /\ x \in 0..n /\ y \in 0..n
    BY <1>2, <1>3, <2>1
  <2>. QED
    BY <2>2
<1>. QED
  BY <1>4

LEMMA Longest ==
  ASSUME NEW n \in Nat, NEW S \in SUBSET (0..n), S # {}
  PROVE  Dot!Max(S) \in S /\ \A x \in S : x <= Dot!Max(S)
<1>1. PICK s \in S : \A x \in S : s >= x
  BY GreatestOf
<1>2. \E m \in S : \A x \in S : m >= x
  BY <1>1
<1>. QED
  BY <1>2 DEF Dot!Max

Track == [advanced : Nat, interval : Nat \ {0}, evaluated : Nat,
          cached : {"fresh", "slowing", "stalled"}]

(* What the samples say: a channel that produces is not silent for longer   *)
(* than MaxGap, and the samples read reach over a pause if the last burst   *)
(* is shorter than they are. *)
ChannelInv ==
  /\ quiet \in Nat /\ burst \in Nat \ {0}
  /\ gaps \in [1..Recent - 1 -> 0..MaxGap]
  /\ alive => quiet <= MaxGap
  /\ burst < Recent => gaps[Recent - burst] >= MinGap

(* What the panel keeps: the time for which nothing was seen to arrive is   *)
(* no longer than nothing did; a prompt verdict is from no later than a     *)
(* tick after the burst it saw, so that the next is found a pause later;    *)
(* and a verdict of an earlier tick is not kept. *)
KeptInv ==
  /\ begun => unseen
  /\ tracked = None => ~paced
  /\ tracked # None =>
       /\ tracked \in Track
       /\ ~unseen => tracked.advanced <= quiet
       /\ prompt => IF begun THEN tracked.advanced >= MinGap - 1 ELSE quiet <= tracked.advanced + 1
       /\ paced => tracked.interval >= MinGap - 1
       /\ ~drawn => tracked.evaluated # 0

DotInv == scene = "dot" => ChannelInv /\ KeptInv

LEMMA DotInvInit == Init => DotInv
<1>. SUFFICES ASSUME Init PROVE DotInv
  OBVIOUS
<1>1. /\ quiet = 0 /\ tracked = None /\ unseen = TRUE /\ paced = FALSE /\ burst \in 1..MaxBurst
      /\ gaps \in [1..Recent - 1 -> {0, MinGap}]
      /\ burst < Recent => gaps[Recent - burst] = MinGap
  BY DEF Init, Dot!Init
<1>2. {0, MinGap} \subseteq 0..MaxGap
  BY ViewsAssumption
<1>. QED
  BY <1>1, <1>2, ViewsAssumption DEF DotInv, ChannelInv, KeptInv

LEMMA CapLarge == Dot!Cap \in Nat /\ Dot!Cap >= MinGap /\ Dot!Cap >= 1
BY ViewsAssumption DEF Dot!Cap

LEMMA Ageing ==
  /\ \A n \in Nat : Dot!Older(n) \in Nat \ {0} /\ Dot!Older(n) <= n + 1
  /\ \A n \in Nat : n >= MinGap - 1 => Dot!Older(n) >= MinGap - 1
  /\ \A m, n \in Nat : m <= n => Dot!Older(m) <= Dot!Older(n)
  /\ \A m, n \in Nat : m <= n + 1 => Dot!Older(m) <= Dot!Older(n) + 1
<1>1. \A n \in Nat : Dot!Older(n) = IF n + 1 <= Dot!Cap THEN n + 1 ELSE Dot!Cap
  BY CapLarge, Smaller DEF Dot!Older
<1>. QED
  BY <1>1, CapLarge, ViewsAssumption

(* What a look at the samples finds. *)
LEMMA Looked ==
  ASSUME ChannelInv, KeptInv
  PROVE  /\ Dot!Intra \in Nat \ {0}
         /\ burst < Recent => Dot!Intra >= MinGap
         /\ Dot!Advance.advanced \in Nat /\ Dot!Advance.interval \in Nat \ {0}
         /\ Dot!Advance.advanced <= quiet
<1>. DEFINE S == {gaps[i] : i \in DOMAIN gaps} \union {1}
<1>1. S \in SUBSET (0..MaxGap) /\ 1 \in S /\ S # {}
  BY ViewsAssumption DEF ChannelInv
<1>2. Dot!Max(S) \in S /\ \A x \in S : x <= Dot!Max(S)
  BY <1>1, Longest, ViewsAssumption
<1>3. Dot!Intra \in Nat \ {0}
  <2>1. Dot!Max(S) >= 1 /\ Dot!Max(S) \in Nat
    BY <1>1, <1>2
  <2>. QED
    BY <2>1 DEF Dot!Intra
<1>4. ASSUME burst < Recent PROVE Dot!Intra >= MinGap
  <2>1. Recent - burst \in 1..Recent - 1
    BY <1>4, ViewsAssumption DEF ChannelInv
  <2>2. gaps[Recent - burst] \in S /\ gaps[Recent - burst] >= MinGap /\ gaps[Recent - burst] \in Nat
    BY <1>4, <2>1 DEF ChannelInv
  <2>3. gaps[Recent - burst] <= Dot!Max(S) /\ Dot!Max(S) \in Nat
    BY <1>1, <1>2, <2>2
  <2>. QED
    BY <2>2, <2>3, ViewsAssumption DEF Dot!Intra
<1>. HIDE DEF S
<1>5. /\ Dot!Advance.advanced \in Nat /\ Dot!Advance.interval \in Nat \ {0}
      /\ Dot!Advance.advanced <= quiet
  <2>1. CASE tracked = None
    BY <1>3, <2>1 DEF ChannelInv, Dot!Advance
  <2>2. CASE tracked # None /\ unseen
    <3>1. tracked.advanced \in Nat /\ quiet \in Nat
      BY <2>2 DEF ChannelInv, KeptInv, Track
    <3>2. Dot!Max({tracked.advanced, 1}) \in Nat \ {0}
      BY <3>1, LargerPositive
    <3>. QED
      BY <2>2, <3>1, <3>2 DEF Dot!Advance
  <2>3. CASE tracked # None /\ ~unseen
    BY <2>3 DEF KeptInv, Dot!Advance, Track
  <2>. QED
    BY <2>1, <2>2, <2>3
<1>. QED
  BY <1>3, <1>4, <1>5

(* The interval learned between two prompt looks is a pause.                *)
LEMMA Learned ==
  ASSUME ChannelInv, KeptInv, Dot!Evaluate, paced'
  PROVE  Dot!Advance.interval >= MinGap - 1
<1>1. CASE unseen /\ tracked # None
  <2>1. begun /\ prompt
    BY <1>1 DEF Dot!Evaluate
  <2>2. tracked.advanced \in Nat /\ tracked.advanced >= MinGap - 1
    BY <1>1, <2>1 DEF KeptInv, Track
  <2>3. Dot!Max({tracked.advanced, 1}) \in Nat /\ Dot!Max({tracked.advanced, 1}) >= tracked.advanced
    BY <2>2, LargerPositive
  <2>. QED
    BY <1>1, <2>2, <2>3, ViewsAssumption DEF Dot!Advance
<1>2. CASE tracked = None
  BY <1>2 DEF Dot!Evaluate, KeptInv
<1>3. CASE ~unseen /\ tracked # None
  BY <1>3 DEF Dot!Evaluate, Dot!Advance, KeptInv
<1>. QED
  BY <1>1, <1>2, <1>3

LEMMA DotDraw ==
  ASSUME ChannelInv, KeptInv, Dot!Draw
  PROVE  ChannelInv' /\ KeptInv'
<1>. DEFINE adv == Dot!Advance
            judged == Dot!Judged(Dot!Max({Dot!Intra, adv.interval}), adv.advanced)
<1>1. ChannelInv'
  BY DEF Dot!Draw, Dot!channel, ChannelInv
<1>2. CASE UNCHANGED <<unseen, tracked, begun, prompt, paced>>
  <2>1. quiet' = quiet /\ drawn' = TRUE
    BY DEF Dot!Draw, Dot!channel
  <2>. QED
    BY <1>1, <1>2, <2>1 DEF KeptInv
<1>3. CASE Dot!Evaluate
  <2>1. judged \in {"fresh", "slowing", "stalled"}
    BY DEF Dot!Judged, Dot!classify
  <2>2. /\ tracked' # None /\ tracked' \in Track
        /\ tracked'.advanced = adv.advanced /\ tracked'.interval = adv.interval
    <3>. HIDE DEF judged, adv
    <3>1. tracked' = [advanced |-> adv.advanced, interval |-> adv.interval, evaluated |-> 0,
                      cached |-> judged]
      BY <1>3 DEF Dot!Evaluate, adv, judged
    <3>2. adv.advanced \in Nat /\ adv.interval \in Nat \ {0}
      BY Looked DEF adv
    <3>3. tracked' \in Track
      BY <2>1, <3>1, <3>2 DEF Track
    <3>. QED
      BY <3>1, <3>3, ViewsAssumption DEF Track
  <2>3. prompt' => quiet <= adv.advanced + 1
    <3>1. CASE unseen \/ tracked = None
      <4>1. prompt' => quiet <= 1
        BY <1>3, <3>1 DEF Dot!Evaluate
      <4>2. adv.advanced \in Nat /\ quiet \in Nat
        BY Looked DEF ChannelInv
      <4>. QED
        BY <4>1, <4>2
    <3>2. CASE ~unseen /\ tracked # None
      BY <1>3, <3>2 DEF Dot!Evaluate, Dot!Advance, KeptInv
    <3>. QED
      BY <3>1, <3>2
  <2>4. paced' => adv.interval >= MinGap - 1
    BY <1>3, Learned
  <2>5. adv.advanced <= quiet
    BY Looked
  <2>6. unseen' = FALSE /\ begun' = FALSE /\ drawn' = TRUE /\ quiet' = quiet
    BY <1>3 DEF Dot!Draw, Dot!Evaluate, Dot!channel
  <2>. QED
    BY <1>1, <2>2, <2>3, <2>4, <2>5, <2>6 DEF KeptInv
<1>. QED
  BY <1>1, <1>2, <1>3 DEF Dot!Draw, Dot!kept, Dot!history

LEMMA DotSample ==
  ASSUME ChannelInv, KeptInv, Dot!Sample
  PROVE  ChannelInv' /\ KeptInv'
<1>1. PICK gap \in {0, quiet} : Dot!Arrives(gap)
  BY DEF Dot!Sample, Dot!Begin, Dot!Continue
<1>2. /\ alive /\ quiet' = 0 /\ unseen' = TRUE /\ gap \in 0..MaxGap
      /\ UNCHANGED <<alive, drawn, tracked, prompt, paced>>
      /\ gaps' = [i \in 1..Recent - 1 |-> IF i = Recent - 1 THEN gap ELSE gaps[i + 1]]
  BY <1>1, ViewsAssumption DEF Dot!Arrives, Dot!panel, ChannelInv
<1>3. gaps' \in [1..Recent - 1 -> 0..MaxGap]
  <2>1. ASSUME NEW i \in 1..Recent - 1, i # Recent - 1 PROVE i + 1 \in 1..Recent - 1
    BY <2>1, ViewsAssumption
  <2>2. ASSUME NEW i \in 1..Recent - 1
        PROVE  (IF i = Recent - 1 THEN gap ELSE gaps[i + 1]) \in 0..MaxGap
    BY <1>2, <2>1 DEF ChannelInv
  <2>. QED
    BY <1>2, <2>2
<1>4. CASE Dot!Begin
  <2>1. quiet >= MinGap /\ Dot!Arrives(quiet) /\ burst' = 1 /\ begun' = TRUE
    BY <1>4 DEF Dot!Begin
  <2>2. gaps'[Recent - 1] = quiet
    BY <2>1, ViewsAssumption DEF Dot!Arrives
  <2>3. ChannelInv'
    BY <1>2, <1>3, <2>1, <2>2, ViewsAssumption DEF ChannelInv
  <2>4. tracked # None /\ prompt => tracked.advanced >= MinGap - 1
    BY <2>1, ViewsAssumption DEF ChannelInv, KeptInv, Track
  <2>. QED
    BY <1>2, <2>1, <2>3, <2>4 DEF KeptInv
<1>5. CASE Dot!Continue
  <2>1. burst' = burst + 1 /\ begun' = begun /\ Dot!Arrives(0)
    BY <1>5 DEF Dot!Continue
  <2>2. ASSUME burst' < Recent PROVE gaps'[Recent - burst'] >= MinGap
    <3>1. /\ Recent - burst' \in 1..Recent - 1 /\ Recent - burst' # Recent - 1
          /\ Recent - burst' + 1 = Recent - burst
      BY <2>1, <2>2, ViewsAssumption DEF ChannelInv
    <3>2. gaps'[Recent - burst'] = gaps[Recent - burst]
      BY <1>2, <3>1
    <3>. QED
      BY <2>1, <2>2, <3>2, ViewsAssumption DEF ChannelInv
  <2>3. ChannelInv'
    BY <1>2, <1>3, <2>1, <2>2, ViewsAssumption DEF ChannelInv
  <2>4. tracked # None => 0 <= tracked.advanced + 1
    BY DEF KeptInv, Track
  <2>. QED
    BY <1>2, <2>1, <2>3, <2>4 DEF KeptInv
<1>. QED
  BY <1>4, <1>5 DEF Dot!Sample

LEMMA DotTick ==
  ASSUME ChannelInv, KeptInv, Dot!Tick
  PROVE  ChannelInv' /\ KeptInv'
<1>1. /\ UNCHANGED <<alive, burst, gaps, unseen, begun, prompt, paced>> /\ drawn' = FALSE
      /\ quiet' = Dot!Older(quiet) /\ (alive => quiet < MaxGap)
      /\ tracked' = IF tracked = None THEN None
                    ELSE [tracked EXCEPT !.advanced = Dot!Older(@), !.evaluated = Dot!Older(@)]
  BY DEF Dot!Tick, Dot!history
<1>2. ChannelInv'
  <2>1. quiet' \in Nat /\ (alive' => quiet' <= MaxGap)
    BY <1>1, Ageing, ViewsAssumption DEF ChannelInv
  <2>. QED
    BY <1>1, <2>1 DEF ChannelInv
<1>3. ASSUME tracked # None
      PROVE  /\ tracked \in Track /\ tracked' \in Track
             /\ tracked'.interval = tracked.interval
             /\ tracked'.advanced = Dot!Older(tracked.advanced)
             /\ tracked'.evaluated = Dot!Older(tracked.evaluated)
  BY <1>1, <1>3, Ageing DEF KeptInv, Track
<1>4. ASSUME tracked # None
      PROVE  /\ ~unseen => tracked'.advanced <= quiet'
             /\ prompt => IF begun THEN tracked'.advanced >= MinGap - 1
                                   ELSE quiet' <= tracked'.advanced + 1
             /\ tracked'.evaluated # 0
  BY <1>1, <1>3, <1>4, Ageing DEF ChannelInv, KeptInv, Track
<1>5. tracked' = None <=> tracked = None
  <2>1. tracked' \in Track => tracked' # None
    BY ViewsAssumption DEF Track
  <2>. QED
    BY <1>1, <1>3, <2>1
<1>. QED
  BY <1>1, <1>2, <1>3, <1>4, <1>5 DEF KeptInv

LEMMA DotInvStep == DotInv /\ [Next]_vars => DotInv'
<1>. SUFFICES ASSUME ChannelInv, KeptInv, [Next]_vars, scene = "dot", scene' = "dot"
              PROVE  ChannelInv' /\ KeptInv'
  BY SceneStays DEF DotInv
<1>1. CASE UNCHANGED vars
  BY <1>1 DEF vars, dot, ChannelInv, KeptInv
<1>2. CASE Dot!Sample
  BY <1>2, DotSample
<1>3. CASE Dot!Stop
  BY <1>3 DEF Dot!Stop, Dot!panel, Dot!kept, Dot!history, ChannelInv, KeptInv
<1>4. CASE Dot!Tick
  BY <1>4, DotTick
<1>5. CASE Dot!SwitchScreen
  BY <1>5 DEF Dot!SwitchScreen, Dot!channel, Dot!kept, Dot!history, ChannelInv, KeptInv
<1>6. CASE Dot!Draw
  BY <1>6, DotDraw
<1>. QED
  BY <1>1, <1>2, <1>3, <1>4, <1>5, <1>6 DEF Next, Dot!Next

LEMMA DotAlarm ==
  ASSUME DotInv, [Next]_vars, scene = "dot"
  PROVE  Dot!AlarmStep
<1>. SUFFICES ASSUME ~drawn, drawn', alive, burst < Recent \/ paced'
              PROVE  tracked'.cached # "stalled"
  BY DEF Dot!AlarmStep
<1>. USE DEF DotInv
<1>1. Dot!Draw
  BY DEF Next, Dot!Next, vars, dot, Dot!Sample, Dot!Begin, Dot!Continue, Dot!Arrives, Dot!Stop,
         Dot!Tick, Dot!SwitchScreen, Dot!panel
<1>2. Dot!Evaluate
  BY <1>1 DEF Dot!Draw, KeptInv
<1>. DEFINE base == Dot!Max({Dot!Intra, Dot!Advance.interval})
            since == Dot!Advance.advanced
<1>3. tracked'.cached = Dot!Judged(base, since)
  BY <1>2 DEF Dot!Evaluate
<1>4. base \in Nat \ {0} /\ base >= Dot!Intra /\ base >= Dot!Advance.interval
  <2>1. Dot!Intra \in Nat \ {0} /\ Dot!Advance.interval \in Nat \ {0}
    BY Looked
  <2>. QED
    BY <2>1, Larger
<1>5. since \in Nat /\ since <= quiet /\ quiet <= MaxGap /\ quiet \in Nat
  BY Looked DEF ChannelInv
<1>6. base >= MinGap - 1
  <2>1. CASE burst < Recent
    BY <1>4, <2>1, Looked, ViewsAssumption
  <2>2. CASE paced'
    BY <1>2, <1>4, <2>2, Looked, Learned, ViewsAssumption
  <2>. QED
    BY <2>1, <2>2
<1>7. since < 5 * base
  <2>. HIDE DEF base, since
  <2>. QED
    BY <1>4, <1>5, <1>6, ViewsAssumption
<1>. HIDE DEF base, since
<1>. QED
  BY <1>3, <1>7 DEF Dot!Judged, Dot!classify

(* A channel that produces is not found to have stopped, whatever the size  *)
(* of its bursts, its lag and the time its panel was hidden, if the samples *)
(* read reach back over a pause or its last two bursts were noticed as they *)
(* began. *)
THEOREM ProducersNeverMarked == FairSpec => NoFalseAlarm
<1>1. DotInv /\ [Next]_vars => [scene = "dot" => Dot!AlarmStep]_vars
  BY DotAlarm
<1>2. SafeSpec => []DotInv
  BY DotInvInit, DotInvStep, PTL DEF SafeSpec
<1>. QED
  BY <1>1, <1>2, FairIsSafe, PTL DEF SafeSpec, NoFalseAlarm

-----------------------------------------------------------------------------
(* Which times the panels show. *)

(* Every plot has a zoom of its own, set or not. *)
ZoomInv == scene = "views" => zoom = [p \in Views!Plots |-> zoom[p]]

LEMMA ZoomInvInit == Init => ZoomInv
BY DEF Init, Views!Init, ZoomInv

LEMMA ZoomInvStep == ZoomInv /\ [Next]_vars => ZoomInv'
<1>. SUFFICES ASSUME ZoomInv, [Next]_vars, scene = "views", scene' = "views"
              PROVE  zoom' = [p \in Views!Plots |-> zoom'[p]]
  BY SceneStays DEF ZoomInv
<1>1. CASE UNCHANGED zoom
  BY <1>1 DEF ZoomInv
<1>2. CASE \E p, w : zoom' = [zoom EXCEPT ![p] = w]
  BY <1>2 DEF ZoomInv
<1>3. CASE Views!ResetAll \/ Views!LoadLayout \/ Views!Release
  BY <1>3 DEF Views!ResetAll, Views!LoadLayout, Views!Release, ZoomInv
<1>4. ASSUME NEW p, Views!ResetPanel(p) \/ Views!SetOverride(p) \/ Views!Drag(p) \/ Views!DoubleClick(p)
      PROVE  UNCHANGED zoom \/ \E w : zoom' = [zoom EXCEPT ![p] = w]
  BY <1>4 DEF Views!ResetPanel, Views!SetOverride, Views!Drag, Views!DoubleClick, Views!ZoomTime
<1>5. CASE Views!ClockMoves \/ Views!SetGlobal \/ Views!SwitchScreen \/ Views!Arm \/ UNCHANGED vars
  BY <1>1, <1>5 DEF Views!ClockMoves, Views!SetGlobal, Views!SwitchScreen, Views!Arm, vars, views
<1>. QED
  BY <1>1, <1>2, <1>3, <1>4, <1>5 DEF Next, Views!Next

LEMMA ZoomInvAlways == SafeSpec => []ZoomInv
BY ZoomInvInit, ZoomInvStep, PTL DEF SafeSpec

LEMMA ReleaseKeeps == ASSUME ZoomInv, scene = "views" PROVE Views!ReleaseStep
<1>. SUFFICES ASSUME Views!Release, NEW p \in Views!Plots
              PROVE  Views!Window(p)' = Views!Window(p)
  BY DEF Views!ReleaseStep
<1>. USE DEF Views!Window, Views!Linked, Views!Trailing, Views!Span
<1>1. CASE shared = Unset
  BY <1>1 DEF Views!Release
<1>2. CASE shared # Unset
  BY <1>2 DEF Views!Release, Views!Frozen
<1>. QED
  BY <1>1, <1>2

LEMMA GestureKeeps == ASSUME ZoomInv, scene = "views" PROVE Views!GestureStep
<1>. SUFFICES ASSUME NEW w \in Waveforms, Views!Drag(w) \/ Views!DoubleClick(w)
              PROVE  /\ linked => zoom' = zoom
                     /\ ~linked => \A p \in Views!Plots \ {w} : Views!Window(p)' = Views!Window(p)
  BY DEF Views!GestureStep
<1>1. UNCHANGED <<clock, global, linked, override>>
  BY DEF Views!Drag, Views!DoubleClick
<1>2. ASSUME linked PROVE zoom' = zoom
  BY <1>2 DEF Views!Drag, Views!DoubleClick, Views!ZoomTime
<1>3. ASSUME ~linked, NEW p \in Views!Plots \ {w} PROVE Views!Window(p)' = Views!Window(p)
  <2>1. zoom'[p] = zoom[p]
    BY <1>3 DEF ZoomInv, Views!Drag, Views!DoubleClick, Views!ZoomTime
  <2>. QED
    BY <1>1, <1>3, <2>1 DEF Views!Window, Views!Linked, Views!Trailing, Views!Span
<1>. QED
  BY <1>2, <1>3

LEMMA ResetResets == Views!ResetStep
<1>. SUFFICES ASSUME Views!ResetAll, NEW p \in Views!Plots
              PROVE  Views!Window(p)' = Views!Trailing(Views!Span(p))' /\ Views!Linked' = Unset
  BY DEF Views!ResetStep
<1>. QED
  BY DEF Views!ResetAll, Views!Window, Views!Linked, Views!Trailing, Views!Span

(* Releasing the link moves no plot on any screen, a gesture moves its plot *)
(* or, linked, all of them alike, and the reset of all panels reaches every *)
(* plot. *)
THEOREM ViewsStayPut == FairSpec => ViewsKept
<1>1. ZoomInv => [scene = "views" => Views!ReleaseStep /\ Views!GestureStep /\ Views!ResetStep]_vars
  BY ReleaseKeeps, GestureKeeps, ResetResets
<1>. QED
  BY <1>1, FairIsSafe, ZoomInvAlways, PTL DEF ViewsKept

-----------------------------------------------------------------------------
(* Up to which instant the panels read. *)

StampsInOrder ==
  /\ stamps \in Seq(Nat)
  /\ \A i, j \in 1..Len(stamps) : i <= j => stamps[i] <= stamps[j]

(* A spectrum that fell short looks back to the beginning in its next frame.*)
ReadsInv ==
  scene = "reads" =>
    /\ StampsInOrder
    /\ position \in Nat /\ window \in Windows \union {Unset} /\ fft_size \in Sizes
    /\ short \in {0, 1} /\ (short = 1 => tail = Unset)

LEMMA ReadsInvInit == Init => ReadsInv
<1>. SUFFICES ASSUME Init PROVE ReadsInv
  OBVIOUS
<1>1. stamps = << >> /\ position = 0 /\ window = Unset /\ fft_size \in Sizes /\ short = 0
  BY DEF Init, Reads!Init
<1>. QED
  BY <1>1 DEF ReadsInv, StampsInOrder

LEMMA ReadsCounts == \A S : Reads!Cardinality(S) = Cardinality(S)
BY DEF Reads!Cardinality, Cardinality

LEMMA SpectrumFrame ==
  ASSUME ReadsInv, scene = "reads", Reads!Frame
  PROVE  short' \in {0, 1} /\ (short' = 1 => tail' = Unset)
<1>. SUFFICES ASSUME short' # 0 PROVE short' = 1 /\ tail' = Unset
  OBVIOUS
<1>1. /\ window = Unset /\ label' = "collecting" /\ short' = short + 1
      /\ Cardinality(Reads!Held(Reads!Beginning, position)) >= fft_size
  BY ReadsCounts DEF Reads!Frame
<1>2. Reads!FallsShort /\ tail' = Unset
  BY <1>1 DEF Reads!Frame, Reads!Collect, Reads!NoRate, Reads!Analyse
<1>3. short # 1
  <2>. SUFFICES ASSUME tail = Unset PROVE FALSE
    BY DEF ReadsInv
  <2>1. Cardinality(Reads!Held(Reads!Beginning, position)) < fft_size
    BY <1>1, <1>2, ReadsCounts DEF Reads!FallsShort, Reads!Snapshot
  <2>2. fft_size \in Nat /\ Cardinality(Reads!Held(Reads!Beginning, position)) \in Nat
    <3>1. IsFiniteSet(1..Len(stamps))
      BY FS_Interval DEF ReadsInv, StampsInOrder
    <3>2. Reads!Held(Reads!Beginning, position) \subseteq 1..Len(stamps)
      BY DEF Reads!Held, ReadsInv, StampsInOrder
    <3>3. IsFiniteSet(Reads!Held(Reads!Beginning, position))
      BY <3>1, <3>2, FS_Subset
    <3>. QED
      BY <3>3, FS_CardinalityType, ViewsAssumption DEF ReadsInv
  <2>. QED
    BY <1>1, <2>1, <2>2
<1>. QED
  BY <1>1, <1>2, <1>3 DEF ReadsInv

LEMMA ReadsInvStep == ReadsInv /\ [Next]_vars => ReadsInv'
<1>. SUFFICES ASSUME ReadsInv, [Next]_vars, scene = "reads", scene' = "reads" PROVE ReadsInv'
  BY SceneStays DEF ReadsInv
<1>. USE DEF ReadsInv, StampsInOrder
<1>1. CASE UNCHANGED vars
  BY <1>1 DEF vars, reads
<1>2. CASE Reads!Push
  <2>1. PICK t \in 0..MaxPosition : /\ stamps # << >> => stamps[Len(stamps)] <= t
                                   /\ stamps' = Append(stamps, t)
    BY <1>2 DEF Reads!Push
  <2>2. t \in Nat
    BY <2>1, ViewsAssumption
  <2>3. /\ stamps' \in Seq(Nat) /\ Len(stamps') = Len(stamps) + 1
        /\ stamps'[Len(stamps) + 1] = t /\ \A i \in 1..Len(stamps) : stamps'[i] = stamps[i]
    BY <2>1, <2>2
  <2>4. \A i \in 1..Len(stamps) : stamps[i] <= t
    <3>. TAKE i \in 1..Len(stamps)
    <3>1. stamps # << >> /\ Len(stamps) \in 1..Len(stamps)
      OBVIOUS
    <3>2. stamps[i] <= stamps[Len(stamps)] /\ stamps[Len(stamps)] <= t
      BY <2>1, <3>1
    <3>3. stamps[i] \in Nat /\ stamps[Len(stamps)] \in Nat
      BY <3>1
    <3>. QED
      BY <2>2, <3>2, <3>3
  <2>5. StampsInOrder'
    <3>. SUFFICES ASSUME NEW i \in 1..Len(stamps) + 1, NEW j \in 1..Len(stamps) + 1, i <= j
                  PROVE  stamps'[i] <= stamps'[j]
      BY <2>3
    <3>1. CASE j \in 1..Len(stamps)
      <4>1. i \in 1..Len(stamps)
        BY <3>1
      <4>. QED
        BY <2>3, <3>1, <4>1
    <3>2. CASE j = Len(stamps) + 1 /\ i = j
      <4>1. stamps'[i] = t /\ stamps'[j] = t
        BY <2>3, <3>2
      <4>. QED
        BY <2>2, <4>1
    <3>3. CASE j = Len(stamps) + 1 /\ i # j
      <4>1. i \in 1..Len(stamps)
        BY <3>3
      <4>. QED
        BY <2>3, <2>4, <3>3, <4>1
    <3>. QED
      BY <3>1, <3>2, <3>3
  <2>. QED
    BY <1>2, <2>5 DEF Reads!Push
<1>3. CASE Reads!Move
  BY <1>3, ViewsAssumption DEF Reads!Move
<1>4. CASE Reads!Link
  BY <1>4 DEF Reads!Link
<1>5. CASE Reads!Resize
  BY <1>5 DEF Reads!Resize
<1>6. CASE Reads!Frame
  BY <1>6, SpectrumFrame DEF Reads!Frame
<1>. QED
  BY <1>1, <1>2, <1>3, <1>4, <1>5, <1>6 DEF Next, Reads!Next

LEMMA NewestOf ==
  ASSUME StampsInOrder, NEW from \in Int, NEW to \in Int, Reads!Held(from, to) # {}
  PROVE  /\ Reads!Max(Reads!Held(from, to)) \in Reads!Held(from, to)
         /\ \A i \in Reads!Held(from, to) : i <= Reads!Max(Reads!Held(from, to))
<1>1. Len(stamps) \in Nat /\ Reads!Held(from, to) \in SUBSET (0..Len(stamps))
  BY DEF Reads!Held, StampsInOrder
<1>2. PICK s \in Reads!Held(from, to) : \A i \in Reads!Held(from, to) : i <= s
  BY <1>1, GreatestOf
<1>3. \E m \in Reads!Held(from, to) : \A i \in Reads!Held(from, to) : m >= i
  BY <1>1, <1>2
<1>4. /\ Reads!Max(Reads!Held(from, to)) \in Reads!Held(from, to)
      /\ \A i \in Reads!Held(from, to) : Reads!Max(Reads!Held(from, to)) >= i
  BY <1>3 DEF Reads!Max
<1>. QED
  BY <1>1, <1>4

(* Whichever way it takes, latest_at finds the newest sample not after end. *)
LEMMA LatestAt ==
  ASSUME StampsInOrder, NEW end \in Nat
  PROVE  LET before == Reads!Held(Reads!Beginning, end)
         IN Reads!latest_at(end) = IF before = {} THEN {} ELSE {Reads!Max(before)}
<1>. DEFINE before == Reads!Held(Reads!Beginning, end)
<1>1. Reads!Beginning \in Int /\ \A i \in 1..Len(stamps) : Reads!Beginning <= stamps[i]
  BY DEF Reads!Beginning, StampsInOrder
<1>2. before = {i \in 1..Len(stamps) : stamps[i] <= end}
  BY <1>1 DEF Reads!Held, StampsInOrder
<1>3. CASE stamps = << >>
  <2>1. before = {}
    BY <1>2, <1>3
  <2>. QED
    BY <1>3, <2>1 DEF Reads!latest_at
<1>4. CASE stamps # << >> /\ stamps[Len(stamps)] <= end
  <2>1. Len(stamps) \in before
    BY <1>2, <1>4 DEF StampsInOrder
  <2>2. Reads!Max(before) \in before /\ Len(stamps) <= Reads!Max(before)
    BY <1>1, <2>1, NewestOf
  <2>3. Reads!Max(before) = Len(stamps)
    BY <1>2, <2>2 DEF StampsInOrder
  <2>. QED
    BY <1>4, <2>1, <2>3 DEF Reads!latest_at
<1>5. CASE stamps # << >> /\ ~(stamps[Len(stamps)] <= end)
  BY <1>5 DEF Reads!latest_at
<1>. QED
  BY <1>3, <1>4, <1>5

LEMMA ReadAtEnd == ASSUME ReadsInv, scene = "reads" PROVE Reads!ValueAtEnd
<1>. DEFINE at == Reads!At
            before == Reads!Held(Reads!Beginning, at)
<1>1. StampsInOrder /\ at \in Nat /\ Reads!Beginning \in Int
  BY ViewsAssumption DEF ReadsInv, Reads!At, Reads!Beginning
<1>2. Reads!latest_at(at) = IF before = {} THEN {} ELSE {Reads!Max(before)}
  BY <1>1, LatestAt
<1>3. before # {} => Reads!Max(before) \in before /\ \A i \in before : i <= Reads!Max(before)
  BY <1>1, NewestOf
<1>4. ASSUME window # Unset, Reads!Held(window[1], window[2]) # {}
      PROVE  Reads!latest_at(at) = {Reads!Max(Reads!Held(window[1], window[2]))}
  <2>. DEFINE plotted == Reads!Held(window[1], window[2])
              m == Reads!Max(before)
              k == Reads!Max(plotted)
  <2>1. window[1] \in Nat /\ window[2] \in Nat /\ at = window[2]
    BY <1>4, ViewsAssumption DEF ReadsInv, Reads!At
  <2>2. k \in plotted /\ \A i \in plotted : i <= k
    BY <1>1, <1>4, <2>1, NewestOf
  <2>3. k \in before
    BY <1>1, <2>1, <2>2 DEF Reads!Held, Reads!Beginning, StampsInOrder
  <2>4. m \in before /\ k <= m
    BY <1>3, <2>3
  <2>5. m \in plotted
    <3>1. k \in 1..Len(stamps) /\ m \in 1..Len(stamps) /\ stamps[m] <= window[2] /\ window[1] <= stamps[k]
      BY <1>1, <2>1, <2>2, <2>4 DEF Reads!Held, StampsInOrder
    <3>2. stamps[k] <= stamps[m] /\ stamps[k] \in Nat /\ stamps[m] \in Nat
      BY <1>1, <2>4, <3>1 DEF StampsInOrder
    <3>. QED
      BY <1>1, <2>1, <3>1, <3>2 DEF Reads!Held, StampsInOrder
  <2>6. m = k
    <3>1. m <= k /\ k <= m
      BY <2>2, <2>4, <2>5
    <3>2. m \in Int /\ k \in Int
      BY <1>1, <2>2, <2>4 DEF Reads!Held, StampsInOrder
    <3>. HIDE DEF m, k
    <3>. QED
      BY <3>1, <3>2
  <2>. QED
    BY <1>2, <2>3, <2>6
<1>5. \A i \in Reads!latest_at(at) : stamps[i] <= at
  BY <1>2, <1>3 DEF Reads!Held
<1>6. \A i \in before : \E j \in Reads!latest_at(at) : i <= j
  BY <1>2, <1>3
<1>. QED
  BY <1>4, <1>5, <1>6 DEF Reads!ValueAtEnd

(* A number, a gauge and a badge show the newest sample not after the       *)
(* instant shown, which is the plots' rightmost when a window is shared;    *)
(* and a spectrum does not fall short twice in a row of samples that are    *)
(* there. *)
THEOREM ReadoutsAgree == FairSpec => []ReadoutsTruthful
<1>1. ReadsInv => ReadoutsTruthful
  BY ReadAtEnd DEF ReadsInv, ReadoutsTruthful, Reads!SpectrumHeals
<1>2. SafeSpec => []ReadsInv
  BY ReadsInvInit, ReadsInvStep, PTL DEF SafeSpec
<1>. QED
  BY <1>1, <1>2, FairIsSafe, PTL

-----------------------------------------------------------------------------
(* Texts. *)

(* A code in the ring has the label of what was pushed; the table of labels *)
(* only grows, before the code is in the ring. *)
Labelled ==
  /\ pushed \in Seq(Texts) /\ ring \in Seq(Nat) /\ labels \in Seq(Texts)
  /\ Len(ring) <= Len(pushed)
  /\ \A i \in 1..Len(ring) : ring[i] + 1 \in 1..Len(labels) /\ labels[ring[i] + 1] = pushed[i]

(* At most one text is being written, the last. *)
WritingLast ==
  /\ writing = None => Len(ring) = Len(pushed)
  /\ writing # None =>
       /\ writing \in [text : Texts, code : Nat \cup {None}]
       /\ Len(pushed) = Len(ring) + 1 /\ writing.text = pushed[Len(pushed)]
       /\ writing.code # None =>
            /\ writing.code + 1 \in 1..Len(labels)
            /\ labels[writing.code + 1] = writing.text

BadgeHonest ==
  badge # None =>
    /\ badge = [at |-> badge.at, shows |-> badge.shows] /\ badge.at \in 1..Len(ring)
    /\ badge.shows # None => badge.shows = pushed[badge.at]

(* The buffer of a declared channel is the end of what was pushed.          *)
LinesNewest ==
  /\ lines \in Seq(Texts) /\ pushed \in Seq(Texts)
  /\ Len(lines) = IF Len(pushed) <= MaxLines THEN Len(pushed) ELSE MaxLines
  /\ \A i \in 1..Len(lines) : lines[i] = pushed[Len(pushed) - Len(lines) + i]

TextInv == scene = "text" => Labelled /\ WritingLast /\ BadgeHonest /\ LinesNewest

LEMMA TextInvInit == Init => TextInv
<1>. SUFFICES ASSUME Init PROVE TextInv
  OBVIOUS
<1>1. /\ pushed = << >> /\ labels = << >> /\ ring = << >> /\ lines = << >>
      /\ writing = None /\ badge = None
  BY DEF Init, Text!Init
<1>. QED
  BY <1>1, ViewsAssumption DEF TextInv, Labelled, WritingLast, BadgeHonest, LinesNewest

LEMMA LinesStep ==
  ASSUME LinesNewest, NEW t \in Texts,
         pushed' = Append(pushed, t), lines' = Text!Appended(lines, t)
  PROVE  LinesNewest'
<1>. DEFINE n == Len(pushed)
            k == Len(lines)
<1>1. n \in Nat /\ k \in Nat /\ Len(pushed') = n + 1 /\ pushed'[n + 1] = t
      /\ pushed' \in Seq(Texts) /\ \A i \in 1..n : pushed'[i] = pushed[i]
  BY DEF LinesNewest
<1>2. k = (IF n <= MaxLines THEN n ELSE MaxLines) /\ MaxLines \in Nat \ {0}
      /\ \A i \in 1..k : lines[i] = pushed[n - k + i]
  BY ViewsAssumption DEF LinesNewest
<1>3. CASE k = MaxLines
  <2>1. lines' = Append(Tail(lines), t) /\ lines # << >>
    BY <1>2, <1>3 DEF Text!Appended
  <2>2. /\ Tail(lines) \in Seq(Texts) /\ Len(Tail(lines)) = k - 1
        /\ \A i \in 1..k - 1 : Tail(lines)[i] = lines[i + 1]
    BY <2>1 DEF LinesNewest
  <2>3. /\ lines' \in Seq(Texts) /\ Len(lines') = k /\ lines'[k] = t
        /\ \A i \in 1..k - 1 : lines'[i] = lines[i + 1]
    BY <1>1, <1>2, <1>3, <2>1, <2>2
  <2>4. n >= k
    BY <1>1, <1>2
  <2>5. ASSUME NEW i \in 1..k PROVE lines'[i] = pushed'[(n + 1) - k + i]
    <3>1. CASE i = k
      BY <1>1, <2>3, <3>1
    <3>2. CASE i # k
      <4>1. i \in 1..k - 1 /\ i + 1 \in 1..k /\ n - k + (i + 1) \in 1..n
            /\ (n + 1) - k + i = n - k + (i + 1)
        BY <1>1, <2>4, <3>2
      <4>. QED
        BY <1>1, <1>2, <2>3, <4>1
    <3>. QED
      BY <3>1, <3>2
  <2>. QED
    <3>1. Len(lines') = IF Len(pushed') <= MaxLines THEN Len(pushed') ELSE MaxLines
      BY <1>1, <1>2, <1>3, <2>3, <2>4
    <3>2. \A i \in 1..Len(lines') : lines'[i] = pushed'[Len(pushed') - Len(lines') + i]
      BY <1>1, <2>3, <2>5
    <3>. QED
      BY <1>1, <2>3, <3>1, <3>2 DEF LinesNewest
<1>4. CASE k # MaxLines
  <2>1. k = n /\ n < MaxLines
    BY <1>1, <1>2, <1>4
  <2>2. lines' = Append(lines, t)
    BY <1>4 DEF Text!Appended
  <2>3. /\ lines' \in Seq(Texts) /\ Len(lines') = n + 1 /\ lines'[n + 1] = t
        /\ \A i \in 1..n : lines'[i] = lines[i]
    BY <2>1, <2>2 DEF LinesNewest
  <2>4. ASSUME NEW i \in 1..n PROVE lines[i] = pushed[i]
    <3>1. i \in 1..k /\ n - k + i = i
      BY <1>1, <2>1
    <3>2. lines[i] = pushed[n - k + i]
      BY <1>2, <3>1
    <3>. QED
      BY <3>1, <3>2
  <2>5. \A i \in 1..n + 1 : lines'[i] = pushed'[i]
    BY <1>1, <2>3, <2>4
  <2>. QED
    BY <1>1, <1>2, <2>1, <2>3, <2>5 DEF LinesNewest
<1>. QED
  BY <1>3, <1>4

(* intern gives a code whose label is the text, and leaves all others.      *)
LEMMA Interned ==
  ASSUME labels \in Seq(Texts), NEW t \in Texts
  PROVE  LET c == Text!intern(t) IN
         /\ c.labels \in Seq(Texts) /\ Len(c.labels) >= Len(labels)
         /\ \A i \in 1..Len(labels) : c.labels[i] = labels[i]
         /\ c.code \in Nat /\ c.code + 1 \in 1..Len(c.labels) /\ c.labels[c.code + 1] = t
<1>1. CASE Text!Contains(labels, t)
  <2>. DEFINE at == CHOOSE i \in 1..Len(labels) : labels[i] = t
  <2>1. at \in 1..Len(labels) /\ labels[at] = t
    BY <1>1 DEF Text!Contains
  <2>2. Text!intern(t) = [code |-> at - 1, labels |-> labels]
    BY <1>1 DEF Text!intern
  <2>. HIDE DEF at
  <2>. QED
    BY <2>1, <2>2
<1>2. CASE ~Text!Contains(labels, t)
  <2>1. Text!intern(t) = [code |-> Len(labels), labels |-> Append(labels, t)]
    BY <1>2 DEF Text!intern
  <2>. QED
    BY <2>1
<1>. QED
  BY <1>1, <1>2

LEMMA TextWrites ==
  ASSUME Labelled, WritingLast, BadgeHonest, Text!WriteStep
  PROVE  Labelled' /\ WritingLast' /\ BadgeHonest'
<1>. DEFINE t == writing.text
            c == Text!intern(t)
<1>1. /\ writing # None /\ writing \in [text : Texts, code : Nat \cup {None}]
      /\ pushed \in Seq(Texts) /\ ring \in Seq(Nat) /\ labels \in Seq(Texts)
      /\ Len(pushed) = Len(ring) + 1 /\ t = pushed[Len(pushed)] /\ t \in Texts
      /\ UNCHANGED <<pushed, badge>>
  BY DEF Text!WriteStep, WritingLast, Labelled
<1>2. CASE writing.code = None
  <2>1. /\ c.labels \in Seq(Texts) /\ Len(c.labels) >= Len(labels)
        /\ \A i \in 1..Len(labels) : c.labels[i] = labels[i]
        /\ c.code \in Nat /\ c.code + 1 \in 1..Len(c.labels) /\ c.labels[c.code + 1] = t
    BY <1>1, Interned
  <2>2. labels' = c.labels /\ writing' = [writing EXCEPT !.code = c.code] /\ UNCHANGED ring
    BY <1>2 DEF Text!WriteStep
  <2>. HIDE DEF c
  <2>3. writing' \in [text : Texts, code : Nat \cup {None}] /\ writing'.text = t /\ writing'.code = c.code
    BY <1>1, <2>1, <2>2
  <2>4. Labelled'
    BY <1>1, <2>1, <2>2, SMTT(30) DEF Labelled
  <2>5. WritingLast'
    BY <1>1, <2>1, <2>2, <2>3, ViewsAssumption DEF WritingLast
  <2>6. BadgeHonest'
    BY <1>1, <2>2 DEF BadgeHonest
  <2>. QED
    BY <2>4, <2>5, <2>6
<1>3. CASE writing.code # None
  <2>1. ring' = Append(ring, writing.code) /\ writing' = None /\ UNCHANGED labels
    BY <1>3 DEF Text!WriteStep
  <2>2. /\ writing.code \in Nat /\ writing.code + 1 \in 1..Len(labels)
        /\ labels[writing.code + 1] = t
    BY <1>1, <1>3 DEF WritingLast
  <2>3. /\ ring' \in Seq(Nat) /\ Len(ring') = Len(ring) + 1 /\ ring'[Len(ring) + 1] = writing.code
        /\ \A i \in 1..Len(ring) : ring'[i] = ring[i]
    BY <1>1, <2>1, <2>2
  <2>4. Labelled'
    BY <1>1, <2>1, <2>2, <2>3 DEF Labelled
  <2>5. WritingLast'
    BY <1>1, <2>1, <2>3 DEF WritingLast
  <2>6. BadgeHonest'
    BY <1>1, <2>3 DEF BadgeHonest
  <2>. QED
    BY <2>4, <2>5, <2>6
<1>. QED
  BY <1>2, <1>3

LEMMA TextStep ==
  ASSUME Labelled, WritingLast, BadgeHonest, LinesNewest, Text!Next
  PROVE  Labelled' /\ WritingLast' /\ BadgeHonest' /\ LinesNewest'
<1>1. CASE Text!StartWrite
  <2>1. PICK t \in Texts : /\ pushed' = Append(pushed, t) /\ writing' = [text |-> t, code |-> None]
                           /\ lines' = Text!Appended(lines, t)
    BY <1>1 DEF Text!StartWrite
  <2>2. UNCHANGED <<labels, ring, badge>> /\ Len(ring) = Len(pushed)
    BY <1>1 DEF Text!StartWrite, WritingLast
  <2>3. /\ pushed' \in Seq(Texts) /\ Len(pushed') = Len(pushed) + 1 /\ pushed'[Len(pushed) + 1] = t
        /\ \A i \in 1..Len(pushed) : pushed'[i] = pushed[i]
    BY <2>1 DEF Labelled
  <2>4. Labelled'
    <3>1. Len(ring) \in Nat /\ Len(pushed) \in Nat
      BY DEF Labelled
    <3>2. ASSUME NEW i \in 1..Len(ring)
          PROVE  ring[i] + 1 \in 1..Len(labels) /\ labels[ring[i] + 1] = pushed'[i]
      BY <2>2, <2>3, <3>1 DEF Labelled
    <3>. QED
      BY <2>2, <2>3, <3>1, <3>2 DEF Labelled
  <2>5. WritingLast'
    <3>1. writing' \in [text : Texts, code : Nat \cup {None}] /\ writing'.text = t /\ writing'.code = None
      BY <2>1
    <3>2. writing' # None
      BY <3>1, ViewsAssumption
    <3>. QED
      BY <2>2, <2>3, <3>1, <3>2 DEF WritingLast
  <2>6. BadgeHonest'
    BY <2>2, <2>3 DEF BadgeHonest
  <2>. QED
    BY <2>1, <2>4, <2>5, <2>6, LinesStep
<1>2. CASE Text!WriteStep
  <2>1. LinesNewest'
    BY <1>2 DEF Text!WriteStep, LinesNewest
  <2>. QED
    BY <1>2, <2>1, TextWrites
<1>3. CASE Text!BadgeReads \/ Text!BadgeShows \/ Text!BadgeDone
  <2>1. UNCHANGED <<pushed, labels, ring, lines, writing>>
    BY <1>3 DEF Text!BadgeReads, Text!BadgeShows, Text!BadgeDone
  <2>2. BadgeHonest'
    <3>1. CASE Text!BadgeReads
      BY <2>1, <3>1 DEF Text!BadgeReads, BadgeHonest, Labelled
    <3>2. CASE Text!BadgeShows
      <4>1. /\ badge = [at |-> badge.at, shows |-> badge.shows] /\ badge.at \in 1..Len(ring)
            /\ badge' = [at |-> badge.at, shows |-> Text!LabelOf(labels, ring[badge.at])]
        BY <3>2 DEF Text!BadgeShows, BadgeHonest
      <4>2. Text!LabelOf(labels, ring[badge.at]) = pushed[badge.at]
        BY <4>1 DEF Text!LabelOf, Labelled
      <4>. QED
        BY <2>1, <4>1, <4>2 DEF BadgeHonest
    <3>3. CASE Text!BadgeDone
      BY <3>3 DEF Text!BadgeDone, BadgeHonest
    <3>. QED
      BY <1>3, <3>1, <3>2, <3>3
  <2>. QED
    BY <2>1, <2>2 DEF Labelled, WritingLast, LinesNewest
<1>4. CASE Text!GraphLabels \/ Text!GraphCodes \/ Text!GraphDone
  <2>1. UNCHANGED <<pushed, labels, ring, lines, writing, badge>>
    BY <1>4 DEF Text!GraphLabels, Text!GraphCodes, Text!GraphDone
  <2>. QED
    BY <2>1 DEF Labelled, WritingLast, BadgeHonest, LinesNewest
<1>. QED
  BY <1>1, <1>2, <1>3, <1>4 DEF Text!Next

LEMMA TextInvStep == TextInv /\ [Next]_vars => TextInv'
<1>. SUFFICES ASSUME TextInv, [Next]_vars, scene = "text", scene' = "text" PROVE TextInv'
  BY SceneStays DEF TextInv
<1>1. CASE UNCHANGED vars
  BY <1>1 DEF vars, text, TextInv, Labelled, WritingLast, BadgeHonest, LinesNewest
<1>2. CASE Text!Next
  BY <1>2, TextStep DEF TextInv
<1>. QED
  BY <1>1, <1>2 DEF Next

(* A badge shows the text that was written although it looks it up after    *)
(* it read the code, and a declared channel holds its newest lines.         *)
THEOREM TextsReadBack == FairSpec => [](scene = "text" => Text!TextShownAsWritten)
<1>1. TextInv => (scene = "text" => Text!TextShownAsWritten)
  <2>. SUFFICES ASSUME BadgeHonest, LinesNewest PROVE Text!TextShownAsWritten
    BY DEF TextInv
  <2>1. Text!Min({Len(pushed), MaxLines}) = IF Len(pushed) <= MaxLines THEN Len(pushed) ELSE MaxLines
    <3>1. Len(pushed) \in Int /\ MaxLines \in Int
      BY ViewsAssumption DEF LinesNewest
    <3>2. \E x \in {Len(pushed), MaxLines} : \A y \in {Len(pushed), MaxLines} : x <= y
      BY <3>1
    <3>. QED
      BY <3>1, <3>2 DEF Text!Min
  <2>2. DOMAIN lines = 1..Len(lines)
    BY DEF LinesNewest
  <2>. QED
    BY <2>1, <2>2 DEF BadgeHonest, LinesNewest, Text!TextShownAsWritten
<1>2. SafeSpec => []TextInv
  BY TextInvInit, TextInvStep, PTL DEF SafeSpec
<1>. QED
  BY <1>1, <1>2, FairIsSafe, PTL

-----------------------------------------------------------------------------
(* A plot and its samples. *)

LEMMA DrawingMin ==
  ASSUME NEW S \in SUBSET Nat, S # {}
  PROVE  Drawing!Min(S) \in S /\ \A y \in S : Drawing!Min(S) <= y
BY LeastOf, Zenon DEF Drawing!Min

LEMMA DrawingMax ==
  ASSUME NEW n \in Nat, NEW S \in SUBSET (0..n), S # {}
  PROVE  Drawing!Max(S) \in S /\ \A y \in S : y <= Drawing!Max(S)
<1>1. \E x \in S : \A y \in S : x >= y
  BY GreatestOf
<1>2. Drawing!Max(S) \in S /\ \A y \in S : Drawing!Max(S) >= y
  BY <1>1, Zenon DEF Drawing!Max
<1>. QED
  BY <1>2

Samples == [t : Nat, v : Values]

(* Samples come in the order of time, joins have a time, and a channel is   *)
(* bound once. *)
DrawInv ==
  /\ samples \in Seq(Samples)
  /\ \A i, j \in 1..Len(samples) : i < j => samples[i].t < samples[j].t
  /\ breaks \subseteq Nat
  /\ bound \in Seq(Names)
  /\ \A i, j \in 1..Len(bound) : bound[i] = bound[j] => i = j

LEMMA DrawInvInit == Init => DrawInv
BY DEF Init, Drawing!Init, DrawInv

LEMMA NewestIsLast ==
  ASSUME DrawInv
  PROVE  /\ Drawing!Newest \in Nat
         /\ \A i \in 1..Len(samples) : samples[i].t <= Drawing!Newest
<1>1. CASE samples = << >>
  BY <1>1 DEF Drawing!Newest
<1>2. CASE samples # << >>
  <2>1. Len(samples) \in Nat \ {0}
    BY <1>2, EmptySeq DEF DrawInv
  <2>2. Len(samples) \in 1..Len(samples)
    BY <2>1
  <2>3. Drawing!Newest = samples[Len(samples)].t
    BY <1>2 DEF Drawing!Newest, Drawing!Last
  <2>4. \A i \in 1..Len(samples) : samples[i] \in Samples
    BY ElementOfSeq DEF DrawInv
  <2>5. \A i \in 1..Len(samples) : samples[i].t \in Nat
    BY <2>4 DEF Samples
  <2>6. \A i \in 1..Len(samples) : i = Len(samples) \/ i < Len(samples)
    BY <2>1
  <2>7. \A i \in 1..Len(samples) : i < Len(samples) => samples[i].t < samples[Len(samples)].t
    BY <2>2 DEF DrawInv
  <2>. QED
    BY <2>2, <2>3, <2>5, <2>6, <2>7
<1>. QED
  BY <1>1, <1>2

LEMMA DrawSample == ASSUME DrawInv, Drawing!Sample PROVE DrawInv'
<1>1. PICK t \in Drawing!Newest + 1 .. Drawing!Newest + 2, v \in Values :
        /\ samples' = Append(samples, [t |-> t, v |-> v])
        /\ \E join \in SUBSET (Drawing!Newest + 1 .. t) : breaks' = breaks \cup join
  BY DEF Drawing!Sample
<1>2. t \in Nat /\ t > Drawing!Newest /\ Drawing!Newest \in Nat
  BY NewestIsLast
<1>. DEFINE s == [t |-> t, v |-> v]
<1>3. s \in Samples /\ s.t = t
  BY <1>2 DEF Samples
<1>. HIDE DEF s
<1>4. samples' = Append(samples, s)
  BY <1>1 DEF s
<1>5. samples \in Seq(Samples)
  BY DEF DrawInv
<1>6. /\ samples' \in Seq(Samples)
      /\ Len(samples') = Len(samples) + 1
      /\ \A i \in 1..Len(samples) : samples'[i] = samples[i]
      /\ samples'[Len(samples) + 1] = s
  BY <1>3, <1>4, <1>5, AppendProperties
<1>7. Len(samples) \in Nat
  BY <1>5
<1>8. ASSUME NEW i \in 1..Len(samples'), NEW j \in 1..Len(samples'), i < j
      PROVE  samples'[i].t < samples'[j].t
  <2>1. i \in 1..Len(samples)
    BY <1>6, <1>7, <1>8
  <2>2. CASE j \in 1..Len(samples)
    BY <1>6, <1>8, <2>1, <2>2 DEF DrawInv
  <2>3. CASE j = Len(samples) + 1
    <3>1. samples'[j].t = t /\ samples'[i].t <= Drawing!Newest
      BY <1>3, <1>6, <2>1, <2>3, NewestIsLast
    <3>2. samples'[i].t \in Nat
      <4>1. samples[i] \in Samples
        BY <2>1, <1>5, ElementOfSeq
      <4>. QED
        BY <4>1, <1>6, <2>1 DEF Samples
    <3>. QED
      BY <1>2, <3>1, <3>2
  <2>. QED
    BY <1>6, <1>7, <2>2, <2>3
<1>9. breaks' \subseteq Nat
  BY <1>1, <1>2 DEF DrawInv
<1>10. bound' = bound
  BY DEF Drawing!Sample
<1>. QED
  BY <1>6, <1>8, <1>9, <1>10 DEF DrawInv

LEMMA DrawBind == ASSUME DrawInv, Drawing!Bind PROVE DrawInv'
<1>1. PICK n \in Names : ~Drawing!Contains(bound, n) /\ bound' = Append(bound, n)
  BY DEF Drawing!Bind
<1>2. bound \in Seq(Names) /\ Len(bound) \in Nat
  BY DEF DrawInv
<1>3. /\ bound' \in Seq(Names)
      /\ Len(bound') = Len(bound) + 1
      /\ \A i \in 1..Len(bound) : bound'[i] = bound[i]
      /\ bound'[Len(bound) + 1] = n
  BY <1>1, <1>2, AppendProperties
<1>4. \A i \in 1..Len(bound) : bound[i] # n
  BY <1>1 DEF Drawing!Contains
<1>5. \A i \in 1..Len(bound') : i \in 1..Len(bound) \/ i = Len(bound) + 1
  BY <1>2, <1>3
<1>6. \A i, j \in 1..Len(bound') : bound'[i] = bound'[j] => i = j
  BY <1>3, <1>4, <1>5 DEF DrawInv
<1>. QED
  BY <1>3, <1>6 DEF DrawInv, Drawing!Bind

LEMMA DrawUnbind == ASSUME DrawInv, Drawing!Unbind PROVE DrawInv'
<1>1. PICK r \in DOMAIN bound :
        bound' = SubSeq(bound, 1, r - 1) \o SubSeq(bound, r + 1, Len(bound))
  BY DEF Drawing!Unbind, Drawing!RemoveAt
<1>2. bound \in Seq(Names) /\ Len(bound) \in Nat /\ r \in 1..Len(bound)
  BY DEF DrawInv
<1>. DEFINE head == SubSeq(bound, 1, r - 1)
            rest == SubSeq(bound, r + 1, Len(bound))
<1>3. \A i \in 1..Len(bound) : bound[i] \in Names
  BY <1>2, ElementOfSeq
<1>4. /\ head \in Seq(Names) /\ Len(head) = r - 1
      /\ \A i \in 1..r - 1 : head[i] = bound[i]
  BY <1>2, <1>3, SubSeqProperties
<1>5. /\ rest \in Seq(Names) /\ Len(rest) = Len(bound) - r
      /\ \A i \in 1..Len(bound) - r : rest[i] = bound[r + i]
  BY <1>2, <1>3, SubSeqProperties
<1>6. bound' = head \o rest
  BY <1>1
<1>. HIDE DEF head, rest
<1>7. /\ bound' \in Seq(Names)
      /\ Len(bound') = Len(bound) - 1
      /\ \A i \in 1..Len(bound) - 1 : bound'[i] = IF i <= r - 1 THEN head[i] ELSE rest[i - (r - 1)]
  <2>1. /\ head \o rest \in Seq(Names) /\ Len(head \o rest) = Len(head) + Len(rest)
        /\ \A i \in 1..Len(head) + Len(rest) :
             (head \o rest)[i] = IF i <= Len(head) THEN head[i] ELSE rest[i - Len(head)]
    BY <1>4, <1>5, ConcatProperties
  <2>2. Len(head) = r - 1 /\ Len(head) + Len(rest) = Len(bound) - 1
    BY <1>2, <1>4, <1>5
  <2>. QED
    BY <2>1, <2>2, <1>6
<1>8. ASSUME NEW i \in 1..Len(bound')
      PROVE  bound'[i] = bound[IF i < r THEN i ELSE i + 1]
  <2>1. i \in 1..Len(bound) - 1
    BY <1>7
  <2>2. CASE i < r
    <3>1. i \in 1..r - 1
      BY <2>1, <2>2, <1>2
    <3>. QED
      BY <3>1, <2>1, <2>2, <1>4, <1>7
  <2>3. CASE i >= r
    <3>1. i - (r - 1) \in 1..Len(bound) - r /\ ~(i <= r - 1) /\ r + (i - (r - 1)) = i + 1
      BY <2>1, <2>3, <1>2
    <3>2. bound'[i] = rest[i - (r - 1)]
      BY <3>1, <2>1, <1>7
    <3>3. rest[i - (r - 1)] = bound[r + (i - (r - 1))]
      BY <3>1, <1>5
    <3>. QED
      BY <3>1, <3>2, <3>3, <2>3, <2>1, <1>2
  <2>. QED
    BY <2>1, <2>2, <2>3, <1>2
<1>9. ASSUME NEW i \in 1..Len(bound'), NEW j \in 1..Len(bound'), bound'[i] = bound'[j]
      PROVE  i = j
  <2>. DEFINE old(k) == IF k < r THEN k ELSE k + 1
  <2>1. old(i) \in 1..Len(bound) /\ old(j) \in 1..Len(bound)
    BY <1>2, <1>7
  <2>2. bound[old(i)] = bound[old(j)]
    BY <1>8, <1>9, Zenon
  <2>3. old(i) = old(j)
    BY <2>1, <2>2 DEF DrawInv
  <2>. QED
    BY <1>2, <1>7, <2>3
<1>. QED
  BY <1>7, <1>9 DEF DrawInv, Drawing!Unbind

LEMMA DrawInvStep == DrawInv /\ [Next]_vars => DrawInv'
<1>. SUFFICES ASSUME DrawInv, [Next]_vars PROVE DrawInv'
  OBVIOUS
<1>1. CASE Drawing!Next
  BY <1>1, DrawSample, DrawBind, DrawUnbind DEF Drawing!Next
<1>2. CASE UNCHANGED drawing
  BY <1>2 DEF DrawInv, drawing
<1>. QED
  BY <1>1, <1>2 DEF Next, vars

-----------------------------------------------------------------------------
(* The spans of a state graph. *)

RunStarts == {i \in 1..Drawing!N : i = 1 \/ Drawing!Broken(i) \/ Drawing!Changed(i)}
LastRun(i) == \A k \in RunStarts : k <= i
RunFrom(i) == IF i = 1 THEN 0 ELSE samples[i].t
RunTo(i) == IF LastRun(i) THEN Drawing!Newest + 2 ELSE Drawing!RunEnd(RunStarts, i)
Showing(i, x) == i \in RunStarts /\ RunFrom(i) <= x /\ x < RunTo(i)

LEMMA InTimeOrder ==
  ASSUME DrawInv, NEW i \in 1..Drawing!N
  PROVE  /\ samples[i].t \in Nat /\ samples[i].v \in Values
         /\ \A j \in 1..Drawing!N : /\ i < j <=> samples[i].t < samples[j].t
                                    /\ i <= j <=> samples[i].t <= samples[j].t
<1>1. \A j \in 1..Drawing!N : samples[j] \in Samples
  BY ElementOfSeq DEF DrawInv, Drawing!N
<1>2. \A j \in 1..Drawing!N : samples[j].t \in Nat
  BY <1>1 DEF Samples
<1>3. Drawing!N \in Nat
  BY DEF DrawInv, Drawing!N
<1>4. ASSUME NEW j \in 1..Drawing!N
      PROVE  /\ i < j => samples[i].t < samples[j].t
             /\ j < i => samples[j].t < samples[i].t
  BY DEF DrawInv, Drawing!N
<1>5. ASSUME NEW j \in 1..Drawing!N
      PROVE  /\ i < j <=> samples[i].t < samples[j].t
             /\ i <= j <=> samples[i].t <= samples[j].t
  <2>1. i = j => samples[i].t = samples[j].t
    OBVIOUS
  <2>2. i < j \/ i = j \/ j < i
    BY <1>3
  <2>. QED
    BY <1>2, <1>3, <1>4, <2>1, <2>2
<1>. QED
  BY <1>1, <1>2, <1>5 DEF Samples

LEMMA NewestSample ==
  ASSUME DrawInv, Drawing!N > 0
  PROVE  /\ Drawing!N \in Nat \ {0} /\ Drawing!Newest = samples[Drawing!N].t
         /\ 1 \in RunStarts /\ RunStarts \in SUBSET (1..Drawing!N)
<1>1. Drawing!N \in Nat \ {0} /\ samples # << >>
  BY DEF DrawInv, Drawing!N
<1>. QED
  BY <1>1 DEF Drawing!Newest, Drawing!Last, Drawing!N, RunStarts

(* Each sample is in the run that began last, which has its state.          *)
LEMMA RunOf ==
  ASSUME DrawInv, NEW i \in 1..Drawing!N
  PROVE  \E g \in RunStarts : /\ g <= i /\ samples[g].v = samples[i].v
                              /\ \A k \in RunStarts : k <= i => k <= g
<1>1. Drawing!N \in Nat
  BY DEF DrawInv, Drawing!N
<1>. DEFINE Before == {k \in RunStarts : k <= i}
<1>2. Before \in SUBSET (0..i) /\ Before # {}
  <2>1. Drawing!N > 0 /\ i >= 1
    BY <1>1
  <2>2. 1 \in RunStarts /\ RunStarts \in SUBSET (1..Drawing!N)
    BY <2>1, NewestSample
  <2>3. 1 \in Before
    BY <2>1, <2>2
  <2>4. \A k \in Before : k \in 0..i
    BY <1>1, <2>2
  <2>. QED
    BY <2>3, <2>4
<1>3. PICK g \in Before : \A k \in Before : k <= g
  <2>1. i \in Nat
    BY <1>1
  <2>. HIDE DEF Before
  <2>. QED
    BY <1>2, <2>1, GreatestOf
<1>4. g \in 1..Drawing!N /\ g <= i
  BY <1>3 DEF RunStarts
<1>5. samples[g].v = samples[i].v
  <2>1. SUFFICES ASSUME samples[g].v # samples[i].v PROVE FALSE
    OBVIOUS
  <2>. DEFINE Other == {k \in g..i : samples[k].v # samples[g].v}
  <2>2. Other \in SUBSET Nat /\ Other # {}
    BY <1>1, <1>4, <2>1
  <2>3. PICK k \in Other : \A l \in Other : k <= l
    BY <2>2, LeastOf
  <2>4. k \in g..i /\ samples[k].v # samples[g].v
    BY <2>3
  <2>5. k # g /\ k - 1 \in g..i /\ ~(k <= k - 1)
    BY <1>1, <1>4, <2>4
  <2>6. samples[k - 1].v = samples[g].v
    BY <2>3, <2>5
  <2>7. k \in RunStarts
    BY <1>1, <1>4, <2>4, <2>6 DEF RunStarts, Drawing!Changed
  <2>. QED
    BY <1>1, <1>3, <1>4, <2>4, <2>5, <2>7
<1>. QED
  BY <1>3, <1>4, <1>5

(* A run that is not the last ends where the next begins, or before a join. *)
LEMMA RunEnds ==
  ASSUME DrawInv, NEW i \in RunStarts, ~LastRun(i)
  PROVE  \E j \in RunStarts :
           /\ j > i /\ \A k \in RunStarts : k > i => j <= k
           /\ RunTo(i) = samples[IF Drawing!Broken(j) THEN j - 1 ELSE j].t
<1>1. Drawing!N \in Nat /\ RunStarts \in SUBSET (1..Drawing!N)
  BY DEF DrawInv, Drawing!N, RunStarts
<1>. DEFINE later == {k \in RunStarts : k > i}
<1>2. later \in SUBSET Nat /\ later # {}
  <2>1. PICK k \in RunStarts : ~(k <= i)
    BY DEF LastRun
  <2>2. k \in later
    BY <1>1, <2>1
  <2>3. \A l \in later : l \in Nat
    BY <1>1
  <2>. QED
    BY <2>2, <2>3
<1>3. Drawing!Min(later) \in later /\ \A k \in later : Drawing!Min(later) <= k
  BY <1>2, DrawingMin
<1>4. RunTo(i) = samples[IF Drawing!Broken(Drawing!Min(later)) THEN Drawing!Min(later) - 1
                                                              ELSE Drawing!Min(later)].t
  BY <1>2 DEF RunTo, Drawing!RunEnd
<1>. QED
  BY <1>3, <1>4

(* What is painted are the runs, the first from the left edge of the window *)
(* and the last up to its end. *)
LEMMA Painted ==
  ASSUME DrawInv, Drawing!N > 0, NEW x \in Nat
  PROVE  Drawing!ShownAt(x) = {samples[i].v : i \in {k \in RunStarts : Showing(k, x)}}
<1>1. /\ Drawing!N \in Nat \ {0} /\ Drawing!Newest = samples[Drawing!N].t
      /\ 1 \in RunStarts /\ RunStarts \in SUBSET (1..Drawing!N)
  BY NewestSample
<1>. DEFINE starts == {s.from : s \in Drawing!segments}
            run(i) == Drawing!Span(samples[i].t, Drawing!RunEnd(RunStarts, i), samples[i].v)
            paint(s) == Drawing!Span(
                          IF s.from = Drawing!Min(starts) THEN Drawing!Min({s.from, 0}) ELSE s.from,
                          IF s.from = Drawing!Max(starts) THEN Drawing!Max({s.to, Drawing!Newest + 2})
                                                          ELSE s.to,
                          s.v)
<1>2. Drawing!segments = {run(i) : i \in RunStarts}
  BY DEF Drawing!segments, Drawing!SpansAt, RunStarts
<1>3. \A i \in RunStarts : /\ run(i).from = samples[i].t
                           /\ run(i).to = Drawing!RunEnd(RunStarts, i)
                           /\ run(i).v = samples[i].v
  BY DEF Drawing!Span
<1>4. Drawing!painted_spans(0, Drawing!Newest + 2) = {paint(s) : s \in Drawing!segments}
  BY DEF Drawing!painted_spans
<1>. HIDE DEF run
<1>5. starts = {samples[i].t : i \in RunStarts}
  BY <1>2, <1>3
<1>6. \A i \in RunStarts : samples[i].t \in Nat /\ samples[i].t <= Drawing!Newest
  BY <1>1, InTimeOrder
<1>7. starts \in SUBSET Nat /\ starts \in SUBSET (0..Drawing!Newest) /\ starts # {}
      /\ Drawing!Newest \in Nat
  BY <1>1, <1>5, <1>6, InTimeOrder
<1>8. \A i \in RunStarts : samples[i].t = Drawing!Min(starts) <=> i = 1
  <2>1. PICK m \in RunStarts : Drawing!Min(starts) = samples[m].t
    BY <1>5, <1>7, DrawingMin
  <2>2. samples[m].t <= samples[1].t
    BY <1>1, <1>5, <1>7, <2>1, DrawingMin
  <2>3. m = 1
    BY <1>1, <2>1, <2>2, InTimeOrder
  <2>4. \A i \in RunStarts : samples[i].t = samples[1].t => i = 1
    <3>. TAKE i \in RunStarts
    <3>1. i \in 1..Drawing!N /\ 1 \in 1..Drawing!N
      BY <1>1
    <3>2. (i <= 1 <=> samples[i].t <= samples[1].t) /\ samples[i].t \in Nat
      BY <3>1, InTimeOrder
    <3>. QED
      BY <3>1, <3>2
  <2>. QED
    BY <2>1, <2>3, <2>4
<1>9. \A i \in RunStarts : samples[i].t = Drawing!Max(starts) <=> LastRun(i)
  <2>1. PICK m \in RunStarts : Drawing!Max(starts) = samples[m].t
    BY <1>5, <1>7, DrawingMax
  <2>2. \A k \in RunStarts : samples[k].t <= samples[m].t
    BY <1>5, <1>7, <2>1, DrawingMax
  <2>3. \A k \in RunStarts : k <= m
    BY <1>1, <2>1, <2>2, InTimeOrder
  <2>4. ASSUME NEW i \in RunStarts PROVE samples[i].t = samples[m].t <=> i = m
    <3>1. i \in 1..Drawing!N /\ m \in 1..Drawing!N
      BY <1>1, <2>1
    <3>2. /\ (i <= m <=> samples[i].t <= samples[m].t) /\ (m <= i <=> samples[m].t <= samples[i].t)
          /\ samples[i].t \in Nat /\ samples[m].t \in Nat
      BY <3>1, InTimeOrder
    <3>. QED
      BY <3>1, <3>2
  <2>5. ASSUME NEW i \in RunStarts PROVE i = m <=> LastRun(i)
    BY <1>1, <2>1, <2>3 DEF LastRun
  <2>. QED
    BY <2>1, <2>4, <2>5
<1>10. ASSUME NEW i \in RunStarts
       PROVE  /\ paint(run(i)).from = RunFrom(i)
              /\ paint(run(i)).to = RunTo(i)
              /\ paint(run(i)).v = samples[i].v
  <2>1. samples[i].t \in Nat
    BY <1>6
  <2>2. Drawing!Min({samples[i].t, 0}) = 0
    <3>1. {samples[i].t, 0} \in SUBSET Nat
      BY <2>1
    <3>2. Drawing!Min({samples[i].t, 0}) \in Nat /\ Drawing!Min({samples[i].t, 0}) <= 0
      BY <3>1, DrawingMin
    <3>. QED
      BY <3>2
  <2>3. paint(run(i)).from = RunFrom(i)
    BY <1>3, <1>8, <2>2 DEF Drawing!Span, RunFrom
  <2>4. paint(run(i)).v = samples[i].v
    BY <1>3 DEF Drawing!Span
  <2>5. LastRun(i) => Drawing!RunEnd(RunStarts, i) = Drawing!Newest
    <3>1. LastRun(i) => {j \in RunStarts : j > i} = {}
      <4>1. \A j \in RunStarts : j <= i => ~(j > i)
        BY <1>1
      <4>. QED
        BY <4>1 DEF LastRun
    <3>. QED
      BY <1>1, <3>1 DEF Drawing!RunEnd
  <2>6. Drawing!Max({Drawing!Newest, Drawing!Newest + 2}) = Drawing!Newest + 2
    <3>1. {Drawing!Newest, Drawing!Newest + 2} \in SUBSET (0..Drawing!Newest + 2)
      BY <1>7
    <3>2. Drawing!Newest + 2 \in Nat /\ {Drawing!Newest, Drawing!Newest + 2} # {}
      BY <1>7
    <3>3. /\ Drawing!Max({Drawing!Newest, Drawing!Newest + 2}) \in {Drawing!Newest, Drawing!Newest + 2}
          /\ Drawing!Newest + 2 <= Drawing!Max({Drawing!Newest, Drawing!Newest + 2})
      BY <3>1, <3>2, DrawingMax
    <3>. QED
      BY <1>7, <3>3
  <2>7. paint(run(i)).to = RunTo(i)
    BY <1>3, <1>9, <2>5, <2>6 DEF Drawing!Span, RunTo
  <2>. QED
    BY <2>3, <2>4, <2>7
<1>. HIDE DEF starts, paint
<1>11. Drawing!painted_spans(0, Drawing!Newest + 2) = {paint(run(i)) : i \in RunStarts}
  BY <1>2, <1>4
<1>12. Drawing!ShownAt(x) = {s.v : s \in {s \in {paint(run(i)) : i \in RunStarts} : s.from <= x /\ x < s.to}}
  BY <1>11 DEF Drawing!ShownAt
<1>13. ASSUME NEW v PROVE v \in Drawing!ShownAt(x) <=> \E i \in RunStarts : Showing(i, x) /\ v = samples[i].v
  BY <1>10, <1>12 DEF Showing
<1>. QED
  BY <1>13

LEMMA OneShowing ==
  ASSUME DrawInv, Drawing!N > 0, NEW x \in Nat, NEW g \in RunStarts, Showing(g, x),
         \A k \in RunStarts : Showing(k, x) => k = g
  PROVE  Drawing!ShownAt(x) = {samples[g].v}
<1>1. {k \in RunStarts : Showing(k, x)} = {g}
  OBVIOUS
<1>. QED
  BY <1>1, Painted

LEMMA RunsApart ==
  ASSUME DrawInv, NEW i \in RunStarts, NEW j \in RunStarts, i < j, NEW x \in Nat, Showing(i, x)
  PROVE  x < samples[j].t
<1>1. Drawing!N \in Nat /\ i \in 1..Drawing!N /\ j \in 1..Drawing!N
  BY DEF DrawInv, Drawing!N, RunStarts
<1>2. ~LastRun(i)
  BY <1>1 DEF LastRun
<1>3. PICK n \in RunStarts : /\ n > i /\ \A k \in RunStarts : k > i => n <= k
                             /\ RunTo(i) = samples[IF Drawing!Broken(n) THEN n - 1 ELSE n].t
  BY <1>2, RunEnds
<1>4. n \in 1..Drawing!N /\ n - 1 \in 1..Drawing!N /\ n <= j /\ n - 1 <= j
  BY <1>1, <1>3 DEF RunStarts
<1>5. /\ samples[n].t <= samples[j].t /\ samples[n - 1].t <= samples[j].t
      /\ samples[n].t \in Nat /\ samples[n - 1].t \in Nat /\ samples[j].t \in Nat
  BY <1>1, <1>4, InTimeOrder
<1>6. x < RunTo(i)
  BY DEF Showing
<1>7. RunTo(i) = samples[n].t \/ RunTo(i) = samples[n - 1].t
  BY <1>3
<1>. QED
  BY <1>5, <1>6, <1>7

LEMMA BetweenSamples ==
  ASSUME DrawInv, NEW i \in 1..Drawing!N - 1, NEW x \in samples[i].t .. samples[i + 1].t - 1
  PROVE  Drawing!ShownAt(x) = IF Drawing!Broken(i + 1) THEN {} ELSE {samples[i].v}
<1>1. /\ Drawing!N \in Nat /\ Drawing!N > 0 /\ i \in 1..Drawing!N /\ i + 1 \in 1..Drawing!N
      /\ i \in Nat
  BY DEF DrawInv, Drawing!N
<1>2. samples[i].t \in Nat /\ samples[i + 1].t \in Nat
  BY <1>1, InTimeOrder
<1>3. x \in Nat /\ samples[i].t <= x /\ x < samples[i + 1].t
  BY <1>2
<1>4. PICK g \in RunStarts : /\ g <= i /\ samples[g].v = samples[i].v
                             /\ \A k \in RunStarts : k <= i => k <= g
  BY <1>1, RunOf
<1>5. g \in 1..Drawing!N /\ samples[g].t \in Nat /\ samples[g].t <= samples[i].t
  <2>1. g \in 1..Drawing!N
    BY DEF RunStarts
  <2>. QED
    BY <1>1, <1>4, <2>1, InTimeOrder
<1>6. ASSUME NEW k \in RunStarts, Showing(k, x) PROVE k = g
  <2>1. k \in 1..Drawing!N /\ samples[k].t \in Nat
    <3>1. k \in 1..Drawing!N
      BY DEF RunStarts
    <3>. QED
      BY <3>1, InTimeOrder
  <2>2. k <= i
    <3>1. CASE k = 1
      BY <1>1, <3>1
    <3>2. CASE k # 1
      <4>1. samples[k].t < samples[i + 1].t
        BY <1>2, <1>3, <1>6, <2>1, <3>2 DEF Showing, RunFrom
      <4>2. k < i + 1
        BY <1>1, <2>1, <4>1, InTimeOrder
      <4>. QED
        BY <1>1, <2>1, <4>2
    <3>. QED
      BY <3>1, <3>2
  <2>3. ~(k < g)
    <3>1. k < g => x < samples[g].t
      BY <1>3, <1>6, RunsApart
    <3>. QED
      BY <1>2, <1>3, <1>5, <3>1
  <2>. QED
    BY <1>1, <1>4, <1>5, <2>1, <2>2, <2>3
<1>7. CASE Drawing!Broken(i + 1)
  <2>1. i + 1 \in RunStarts
    BY <1>1, <1>7 DEF RunStarts
  <2>2. ~LastRun(g)
    BY <1>1, <1>4, <1>5, <2>1 DEF LastRun
  <2>3. PICK n \in RunStarts : /\ n > g /\ \A k \in RunStarts : k > g => n <= k
                               /\ RunTo(g) = samples[IF Drawing!Broken(n) THEN n - 1 ELSE n].t
    BY <2>2, RunEnds
  <2>4. n \in 1..Drawing!N
    BY DEF RunStarts
  <2>5. n = i + 1
    BY <1>1, <1>4, <1>5, <2>1, <2>3, <2>4
  <2>6. RunTo(g) = samples[i].t
    BY <1>1, <1>7, <2>3, <2>5
  <2>7. ~Showing(g, x)
    BY <1>2, <1>3, <2>6 DEF Showing
  <2>8. {k \in RunStarts : Showing(k, x)} = {}
    BY <1>6, <2>7
  <2>. QED
    BY <1>1, <1>3, <1>7, <2>8, Painted
<1>8. CASE ~Drawing!Broken(i + 1)
  <2>1. RunFrom(g) <= x
    BY <1>2, <1>3, <1>5 DEF RunFrom
  <2>2. ASSUME LastRun(g) PROVE x < RunTo(g)
    <3>1. samples[i + 1].t <= Drawing!Newest /\ Drawing!Newest \in Nat
      BY <1>1, NewestIsLast DEF Drawing!N
    <3>. QED
      BY <1>2, <1>3, <2>2, <3>1 DEF RunTo
  <2>3. ASSUME ~LastRun(g) PROVE x < RunTo(g)
    <3>1. PICK n \in RunStarts : /\ n > g /\ \A k \in RunStarts : k > g => n <= k
                                 /\ RunTo(g) = samples[IF Drawing!Broken(n) THEN n - 1 ELSE n].t
      BY <2>3, RunEnds
    <3>2. n \in 1..Drawing!N
      BY DEF RunStarts
    <3>3. n >= i + 1
      BY <1>1, <1>4, <1>5, <3>1, <3>2
    <3>4. \E m \in 1..Drawing!N : m >= i + 1 /\ RunTo(g) = samples[m].t
      <4>1. CASE n = i + 1
        BY <1>1, <1>8, <3>1, <4>1
      <4>2. CASE n # i + 1
        <5>1. n - 1 \in 1..Drawing!N /\ n - 1 >= i + 1
          BY <1>1, <3>2, <3>3, <4>2
        <5>. QED
          BY <3>1, <3>2, <3>3, <5>1
      <4>. QED
        BY <4>1, <4>2
    <3>5. PICK m \in 1..Drawing!N : m >= i + 1 /\ RunTo(g) = samples[m].t
      BY <3>4
    <3>6. i + 1 <= m
      BY <1>1, <3>5
    <3>7. samples[i + 1].t <= samples[m].t /\ samples[m].t \in Nat
      BY <1>1, <3>6, InTimeOrder
    <3>. QED
      BY <1>2, <1>3, <3>5, <3>7
  <2>4. Showing(g, x)
    BY <2>1, <2>2, <2>3 DEF Showing
  <2>. QED
    BY <1>1, <1>3, <1>4, <1>6, <1>8, <2>4, OneShowing
<1>. QED
  BY <1>7, <1>8

LEMMA BeforeSamples ==
  ASSUME DrawInv, Drawing!N > 0, NEW x \in 0 .. samples[1].t - 1
  PROVE  Drawing!ShownAt(x) = {samples[1].v}
<1>1. /\ Drawing!N \in Nat \ {0} /\ 1 \in 1..Drawing!N /\ 1 \in RunStarts
      /\ RunStarts \in SUBSET (1..Drawing!N)
  BY NewestSample
<1>2. samples[1].t \in Nat /\ x \in Nat /\ x < samples[1].t
  BY <1>1, InTimeOrder
<1>3. ASSUME NEW k \in RunStarts, Showing(k, x) PROVE k = 1
  <2>1. SUFFICES ASSUME k # 1 PROVE FALSE
    OBVIOUS
  <2>2. samples[k].t <= x /\ k \in 1..Drawing!N
    BY <1>1, <1>3, <2>1 DEF Showing, RunFrom
  <2>3. 1 <= k /\ samples[1].t <= samples[k].t /\ samples[k].t \in Nat
    BY <1>1, <2>2, InTimeOrder
  <2>. QED
    BY <1>2, <2>2, <2>3
<1>4. x < RunTo(1)
  <2>1. CASE LastRun(1)
    <3>1. samples[1].t <= Drawing!Newest /\ Drawing!Newest \in Nat
      BY <1>1, NewestIsLast DEF Drawing!N
    <3>. QED
      BY <1>2, <2>1, <3>1 DEF RunTo
  <2>2. CASE ~LastRun(1)
    <3>1. PICK n \in RunStarts : n > 1 /\ RunTo(1) = samples[IF Drawing!Broken(n) THEN n - 1 ELSE n].t
      BY <1>1, <2>2, RunEnds
    <3>2. PICK m \in 1..Drawing!N : RunTo(1) = samples[m].t
      <4>1. n \in 1..Drawing!N /\ n - 1 \in 1..Drawing!N
        BY <1>1, <3>1
      <4>. QED
        BY <3>1, <4>1
    <3>3. 1 <= m
      BY <1>1
    <3>4. samples[1].t <= samples[m].t /\ samples[m].t \in Nat
      BY <1>1, <3>3, InTimeOrder
    <3>. QED
      BY <1>2, <3>2, <3>4
  <2>. QED
    BY <2>1, <2>2
<1>5. Showing(1, x)
  BY <1>1, <1>2, <1>4 DEF Showing, RunFrom
<1>. QED
  BY <1>1, <1>2, <1>3, <1>5, OneShowing

LEMMA AfterSamples ==
  ASSUME DrawInv, Drawing!N > 0, NEW x \in Drawing!Newest .. Drawing!Newest + 1
  PROVE  Drawing!ShownAt(x) = {samples[Drawing!N].v}
<1>1. /\ Drawing!N \in Nat \ {0} /\ Drawing!Newest = samples[Drawing!N].t
      /\ RunStarts \in SUBSET (1..Drawing!N) /\ Drawing!Newest \in Nat
  BY NewestSample, NewestIsLast
<1>2. Drawing!N \in 1..Drawing!N
  BY <1>1
<1>3. PICK g \in RunStarts : /\ g <= Drawing!N /\ samples[g].v = samples[Drawing!N].v
                             /\ \A k \in RunStarts : k <= Drawing!N => k <= g
  BY <1>2, RunOf
<1>4. \A k \in RunStarts : k <= Drawing!N /\ k \in Nat
  BY <1>1
<1>5. LastRun(g)
  BY <1>3, <1>4 DEF LastRun
<1>6. g \in 1..Drawing!N
  BY <1>1
<1>7. samples[g].t <= Drawing!Newest /\ samples[g].t \in Nat
  BY <1>1, <1>2, <1>3, <1>6, InTimeOrder
<1>8. x \in Nat /\ Drawing!Newest <= x /\ x < Drawing!Newest + 2
  BY <1>1
<1>9. Showing(g, x)
  BY <1>5, <1>7, <1>8, <1>1 DEF Showing, RunFrom, RunTo
<1>10. ASSUME NEW k \in RunStarts, Showing(k, x) PROVE k = g
  <2>1. k < g => x < samples[g].t
    BY <1>8, <1>10, RunsApart
  <2>. QED
    BY <1>3, <1>4, <1>7, <1>8, <2>1, <1>1
<1>. QED
  BY <1>3, <1>8, <1>9, <1>10, OneShowing

LEMMA StatesAreHeld == ASSUME DrawInv PROVE Drawing!StateHeld
BY BetweenSamples, BeforeSamples, AfterSamples DEF Drawing!StateHeld

-----------------------------------------------------------------------------
(* The lines of a waveform. *)

LEMMA DrawingCounts == \A S : Drawing!Cardinality(S) = Cardinality(S)
BY DEF Drawing!Cardinality, Cardinality

(* The samples before a time are the first few.                             *)
LEMMA CountBefore ==
  ASSUME DrawInv, NEW b \in Nat
  PROVE  \E c \in 0..Drawing!N :
           /\ Drawing!Cardinality({i \in 1..Drawing!N : samples[i].t < b}) = c
           /\ \A i \in 1..Drawing!N : samples[i].t < b <=> i <= c
<1>1. Drawing!N \in Nat
  BY DEF DrawInv, Drawing!N
<1>. DEFINE Before == {i \in 1..Drawing!N : samples[i].t < b}
<1>2. CASE Before = {}
  <2>1. Cardinality({}) = 0
    BY FS_EmptySet
  <2>2. Drawing!Cardinality(Before) = 0
    BY <1>2, <2>1, DrawingCounts
  <2>3. \A i \in 1..Drawing!N : ~(samples[i].t < b) /\ ~(i <= 0)
    BY <1>1, <1>2
  <2>4. 0 \in 0..Drawing!N
    BY <1>1
  <2>. QED
    BY <2>2, <2>3, <2>4
<1>3. CASE Before # {}
  <2>1. Before \in SUBSET (0..Drawing!N)
    BY <1>1
  <2>2. PICK c \in Before : \A k \in Before : k <= c
    <3>. HIDE DEF Before
    <3>. QED
      BY <1>1, <1>3, <2>1, GreatestOf
  <2>3. c \in 1..Drawing!N /\ samples[c].t < b /\ samples[c].t \in Nat
    BY <2>2, InTimeOrder
  <2>4. ASSUME NEW i \in 1..Drawing!N PROVE samples[i].t < b <=> i <= c
    <3>1. samples[i].t \in Nat /\ (i <= c <=> samples[i].t <= samples[c].t)
      BY <2>3, InTimeOrder
    <3>. QED
      BY <2>2, <2>3, <3>1
  <2>5. Before = 1..c
    BY <1>1, <2>3, <2>4
  <2>6. Cardinality(1..c) = c
    <3>1. c \in Int /\ 1 \in Int /\ 1 <= c
      BY <1>1, <2>3
    <3>2. Cardinality(1..c) = IF 1 > c THEN 0 ELSE c - 1 + 1
      BY <3>1, FS_Interval
    <3>. QED
      BY <3>1, <3>2
  <2>7. Drawing!Cardinality(Before) = c
    BY <2>5, <2>6, DrawingCounts
  <2>8. c \in 0..Drawing!N
    BY <2>3
  <2>. QED
    BY <2>4, <2>7, <2>8
<1>. QED
  BY <1>2, <1>3

LEMMA SplitsWithin ==
  ASSUME DrawInv
  PROVE  Drawing!splits \in SUBSET (1..Drawing!N - 1)
<1>1. Drawing!N \in Nat
  BY DEF DrawInv, Drawing!N
<1>2. ASSUME NEW s \in Drawing!splits PROVE s \in 1..Drawing!N - 1
  <2>1. PICK b \in breaks : s = Drawing!Cardinality({i \in 1..Drawing!N : samples[i].t < b})
    BY DEF Drawing!splits
  <2>2. s \in 0..Drawing!N
    BY <2>1, CountBefore DEF DrawInv
  <2>3. s # 0 /\ s # Drawing!N
    BY DEF Drawing!splits
  <2>. QED
    BY <1>1, <2>2, <2>3
<1>. QED
  BY <1>2

LEMMA SplitAtJoin ==
  ASSUME DrawInv, NEW i \in 2..Drawing!N
  PROVE  Drawing!Broken(i) <=> i - 1 \in Drawing!splits
<1>1. /\ Drawing!N \in Nat /\ i \in 1..Drawing!N /\ i - 1 \in 1..Drawing!N
      /\ i - 1 # 0 /\ i - 1 # Drawing!N
  BY DEF DrawInv, Drawing!N
<1>2. samples[i].t \in Nat /\ samples[i - 1].t \in Nat
  BY <1>1, InTimeOrder
<1>3. ASSUME NEW b \in breaks
      PROVE  (samples[i - 1].t < b /\ b <= samples[i].t)
               <=> i - 1 = Drawing!Cardinality({k \in 1..Drawing!N : samples[k].t < b})
  <2>1. b \in Nat
    BY DEF DrawInv
  <2>2. PICK c \in 0..Drawing!N :
           /\ Drawing!Cardinality({k \in 1..Drawing!N : samples[k].t < b}) = c
           /\ \A k \in 1..Drawing!N : samples[k].t < b <=> k <= c
    BY <2>1, CountBefore
  <2>3. (samples[i - 1].t < b <=> i - 1 <= c) /\ (samples[i].t < b <=> i <= c)
    BY <1>1, <2>2
  <2>. QED
    BY <1>1, <1>2, <2>1, <2>2, <2>3
<1>. QED
  BY <1>1, <1>3 DEF Drawing!Broken, Drawing!splits

(* A line goes from one split to the next. *)
LEMMA LineEnds ==
  ASSUME DrawInv, Drawing!N > 0, NEW s \in {0} \cup Drawing!splits
  PROVE  \E e \in Drawing!splits \cup {Drawing!N} :
           /\ e = Drawing!Min({f \in Drawing!splits \cup {Drawing!N} : f > s})
           /\ s \in 0..Drawing!N /\ e \in 1..Drawing!N /\ e > s
           /\ \A f \in Drawing!splits : f > s => e <= f
<1>1. Drawing!N \in Nat \ {0} /\ Drawing!splits \in SUBSET (1..Drawing!N - 1)
  BY NewestSample, SplitsWithin
<1>. DEFINE Ends == Drawing!splits \cup {Drawing!N}
            Later == {f \in Ends : f > s}
<1>2. s \in 0..Drawing!N - 1
  BY <1>1
<1>3. Ends \in SUBSET (1..Drawing!N) /\ Drawing!N \in Ends
  BY <1>1
<1>. HIDE DEF Ends
<1>4. Later \in SUBSET Nat /\ Drawing!N \in Later
  <2>1. \A f \in Ends : f \in Nat
    BY <1>1, <1>3
  <2>2. Drawing!N > s
    BY <1>1, <1>2
  <2>. QED
    BY <1>3, <2>1, <2>2
<1>5. Drawing!Min(Later) \in Later /\ \A f \in Later : Drawing!Min(Later) <= f
  <2>. HIDE DEF Later
  <2>. QED
    BY <1>4, DrawingMin
<1>6. Drawing!Min(Later) \in Ends /\ Drawing!Min(Later) > s
  BY <1>5
<1>7. Drawing!Min(Later) \in 1..Drawing!N /\ s \in 0..Drawing!N
  <2>1. Drawing!Min(Later) \in 1..Drawing!N
    BY <1>3, <1>6
  <2>2. s \in 0..Drawing!N
    BY <1>1, <1>2
  <2>. QED
    BY <2>1, <2>2
<1>8. \A f \in Drawing!splits : f > s => Drawing!Min(Later) <= f
  BY <1>5 DEF Ends
<1>. QED
  BY <1>6, <1>7, <1>8 DEF Ends

LEMMA LineOf ==
  ASSUME DrawInv, NEW a \in 1..Drawing!N, NEW e \in 1..Drawing!N, a <= e
  PROVE  /\ SubSeq(samples, a, e) \in Seq(Samples)
         /\ Len(SubSeq(samples, a, e)) = e - a + 1
         /\ \A k \in 1..e - a + 1 : SubSeq(samples, a, e)[k] = samples[a + k - 1]
         /\ \A k \in 1..Drawing!N :
              Drawing!Contains(SubSeq(samples, a, e), samples[k]) <=> a <= k /\ k <= e
<1>1. Drawing!N \in Nat
  BY DEF DrawInv, Drawing!N
<1>2. \A k \in a..e : samples[k] \in Samples
  <2>1. \A k \in a..e : k \in 1..Drawing!N
    BY <1>1
  <2>. QED
    BY <2>1, ElementOfSeq DEF DrawInv, Drawing!N
<1>. DEFINE line == SubSeq(samples, a, e)
<1>3. /\ line \in Seq(Samples) /\ Len(line) = e - a + 1
      /\ \A k \in 1..e - a + 1 : line[k] = samples[a + k - 1]
  BY <1>1, <1>2, SubSeqProperties
<1>. HIDE DEF line
<1>4. ASSUME NEW k \in 1..Drawing!N PROVE Drawing!Contains(line, samples[k]) <=> a <= k /\ k <= e
  <2>1. ASSUME Drawing!Contains(line, samples[k]) PROVE a <= k /\ k <= e
    <3>1. PICK l \in 1..e - a + 1 : samples[a + l - 1] = samples[k]
      BY <1>3, <2>1 DEF Drawing!Contains
    <3>2. a + l - 1 \in 1..Drawing!N /\ a <= a + l - 1 /\ a + l - 1 <= e
      BY <1>1, <3>1
    <3>3. /\ (a + l - 1 <= k <=> samples[a + l - 1].t <= samples[k].t)
          /\ (k <= a + l - 1 <=> samples[k].t <= samples[a + l - 1].t)
          /\ samples[k].t \in Nat
      BY <3>2, InTimeOrder
    <3>4. k = a + l - 1
      BY <1>1, <3>1, <3>2, <3>3
    <3>. QED
      BY <3>2, <3>4
  <2>2. ASSUME a <= k, k <= e PROVE Drawing!Contains(line, samples[k])
    <3>1. k - a + 1 \in 1..e - a + 1 /\ a + (k - a + 1) - 1 = k
      BY <1>1, <2>2
    <3>2. line[k - a + 1] = samples[k]
      BY <1>3, <3>1
    <3>. QED
      BY <1>3, <3>1, <3>2 DEF Drawing!Contains
  <2>. QED
    BY <2>1, <2>2
<1>. QED
  BY <1>3, <1>4 DEF line

LEMMA JoinsBreakLines == ASSUME DrawInv PROVE Drawing!LinesBreakAtJoins
<1>. SUFFICES ASSUME Drawing!N > 0, NEW i \in 2..Drawing!N
              PROVE  Drawing!Broken(i) <=>
                       \A line \in Drawing!Lines : ~(/\ Drawing!Contains(line, samples[i - 1])
                                                     /\ Drawing!Contains(line, samples[i]))
  BY DEF Drawing!LinesBreakAtJoins
<1>1. /\ Drawing!N \in Nat \ {0} /\ i \in 1..Drawing!N /\ i - 1 \in 1..Drawing!N
      /\ Drawing!splits \in SUBSET (1..Drawing!N - 1)
  BY NewestSample, SplitsWithin
<1>2. ASSUME i - 1 \in Drawing!splits, NEW line \in Drawing!Lines,
             Drawing!Contains(line, samples[i - 1]), Drawing!Contains(line, samples[i])
      PROVE  FALSE
  <2>1. PICK s \in {0} \cup Drawing!splits :
          line = SubSeq(samples, s + 1, Drawing!Min({f \in Drawing!splits \cup {Drawing!N} : f > s}))
    BY <1>2 DEF Drawing!Lines
  <2>2. PICK e \in Drawing!splits \cup {Drawing!N} :
           /\ e = Drawing!Min({f \in Drawing!splits \cup {Drawing!N} : f > s})
           /\ s \in 0..Drawing!N /\ e \in 1..Drawing!N /\ e > s
           /\ \A f \in Drawing!splits : f > s => e <= f
    BY LineEnds
  <2>3. s + 1 \in 1..Drawing!N /\ s + 1 <= e
    BY <1>1, <2>2
  <2>4. s + 1 <= i - 1 /\ i <= e
    BY <1>1, <1>2, <2>1, <2>2, <2>3, LineOf
  <2>. QED
    BY <1>1, <1>2, <2>2, <2>4
<1>3. ASSUME i - 1 \notin Drawing!splits
      PROVE  \E line \in Drawing!Lines : /\ Drawing!Contains(line, samples[i - 1])
                                         /\ Drawing!Contains(line, samples[i])
  <2>. DEFINE Before == {f \in {0} \cup Drawing!splits : f <= i - 1}
  <2>1. PICK s \in Before : \A f \in Before : f <= s
    <3>1. \A f \in Before : f \in 0..i - 1
      BY <1>1
    <3>2. 0 \in Before /\ i - 1 \in Nat
      BY <1>1
    <3>. HIDE DEF Before
    <3>. QED
      BY <3>1, <3>2, GreatestOf
  <2>2. PICK e \in Drawing!splits \cup {Drawing!N} :
           /\ e = Drawing!Min({f \in Drawing!splits \cup {Drawing!N} : f > s})
           /\ s \in 0..Drawing!N /\ e \in 1..Drawing!N /\ e > s
           /\ \A f \in Drawing!splits : f > s => e <= f
    <3>1. s \in {0} \cup Drawing!splits
      BY <2>1
    <3>. QED
      BY <3>1, LineEnds
  <2>3. s + 1 \in 1..Drawing!N /\ s + 1 <= e /\ s + 1 <= i - 1
    BY <1>1, <1>3, <2>1, <2>2
  <2>4. i <= e
    <3>1. SUFFICES ASSUME e <= i - 1 PROVE FALSE
      BY <1>1, <2>2
    <3>2. e \in Before
      BY <1>1, <2>2, <3>1
    <3>. QED
      BY <1>1, <2>1, <2>2, <3>2
  <2>5. s + 1 <= i /\ i - 1 <= e
    BY <1>1, <2>2, <2>3, <2>4
  <2>6. /\ Drawing!Contains(SubSeq(samples, s + 1, e), samples[i - 1])
        /\ Drawing!Contains(SubSeq(samples, s + 1, e), samples[i])
    BY <1>1, <2>2, <2>3, <2>4, <2>5, LineOf
  <2>7. SubSeq(samples, s + 1, e) \in Drawing!Lines
    BY <2>1, <2>2 DEF Drawing!Lines
  <2>. QED
    BY <2>6, <2>7
<1>. QED
  BY <1>2, <1>3, SplitAtJoin

-----------------------------------------------------------------------------
(* The samples of a line that are drawn. *)

IsLine(line) ==
  /\ line \in Seq(Samples) /\ Len(line) \in Nat \ {0}
  /\ \A i, j \in 1..Len(line) : i < j => line[i].t < line[j].t

LEMMA LinesAreLines == ASSUME DrawInv, Drawing!N > 0, NEW line \in Drawing!Lines PROVE IsLine(line)
<1>1. Drawing!N \in Nat \ {0}
  BY NewestSample
<1>2. PICK s \in {0} \cup Drawing!splits :
        line = SubSeq(samples, s + 1, Drawing!Min({f \in Drawing!splits \cup {Drawing!N} : f > s}))
  BY DEF Drawing!Lines
<1>3. PICK e \in Drawing!splits \cup {Drawing!N} :
         /\ e = Drawing!Min({f \in Drawing!splits \cup {Drawing!N} : f > s})
         /\ s \in 0..Drawing!N /\ e \in 1..Drawing!N /\ e > s
  BY LineEnds
<1>4. s + 1 \in 1..Drawing!N /\ s + 1 <= e
  BY <1>1, <1>3
<1>5. line = SubSeq(samples, s + 1, e)
  BY <1>2, <1>3
<1>6. /\ line \in Seq(Samples) /\ Len(line) = e - (s + 1) + 1
      /\ \A k \in 1..e - (s + 1) + 1 : line[k] = samples[s + 1 + k - 1]
  BY <1>3, <1>4, <1>5, LineOf
<1>7. ASSUME NEW i \in 1..Len(line), NEW j \in 1..Len(line), i < j PROVE line[i].t < line[j].t
  <2>1. /\ s + 1 + i - 1 \in 1..Drawing!N /\ s + 1 + j - 1 \in 1..Drawing!N
        /\ s + 1 + i - 1 < s + 1 + j - 1
        /\ i \in 1..e - (s + 1) + 1 /\ j \in 1..e - (s + 1) + 1
    BY <1>1, <1>3, <1>4, <1>6, <1>7
  <2>2. samples[s + 1 + i - 1].t < samples[s + 1 + j - 1].t
    BY <2>1, InTimeOrder
  <2>. QED
    BY <1>6, <2>1, <2>2
<1>8. Len(line) \in Nat \ {0}
  BY <1>1, <1>3, <1>4, <1>6
<1>. QED
  BY <1>6, <1>7, <1>8 DEF IsLine

LEMMA LeastValue ==
  ASSUME NEW a \in Nat, NEW b \in Nat, a <= b, NEW w, \A i \in a..b : w[i] \in Int
  PROVE  \E i \in a..b : \A j \in a..b : w[i] <= w[j]
<1>. DEFINE Least(i, k) == \A j \in a..k : w[i] <= w[j]
            Bad == {k \in a..b : ~\E i \in a..k : Least(i, k)}
<1>1. SUFFICES ASSUME b \in Bad PROVE FALSE
  <2>1. b \in a..b
    OBVIOUS
  <2>. QED
    BY <2>1, Zenon
<1>2. Bad \in SUBSET Nat /\ Bad # {}
  <2>1. \A k \in a..b : k \in Nat
    OBVIOUS
  <2>. QED
    BY <1>1, <2>1, Zenon
<1>3. PICK k \in Bad : \A l \in Bad : k <= l
  <2>. HIDE DEF Bad
  <2>. QED
    BY <1>2, LeastOf
<1>4. k \in a..b /\ k \in Nat
  BY <1>3
<1>5. k # a
  <2>1. SUFFICES ASSUME k = a PROVE FALSE
    OBVIOUS
  <2>2. \A j \in a..a : j = a
    OBVIOUS
  <2>3. a \in a..a /\ w[a] \in Int
    BY <1>4
  <2>4. Least(a, a)
    BY <2>2, <2>3
  <2>. QED
    BY <1>3, <2>1, <2>3, <2>4
<1>6. k - 1 \in a..b /\ ~(k <= k - 1)
  BY <1>4, <1>5
<1>7. PICK i \in a..k - 1 : Least(i, k - 1)
  BY <1>3, <1>6
<1>8. i \in a..k /\ w[i] \in Int /\ w[k] \in Int /\ k \in a..k /\ i \in a..b
  BY <1>4, <1>7
<1>9. \A j \in a..k : (j \in a..k - 1 \/ j = k) /\ w[j] \in Int
  BY <1>4
<1>10. CASE w[i] <= w[k]
  <2>1. Least(i, k)
    BY <1>7, <1>9, <1>10
  <2>. QED
    BY <1>3, <1>8, <2>1
<1>11. CASE w[k] <= w[i]
  <2>1. ASSUME NEW j \in a..k PROVE w[k] <= w[j]
    <3>1. CASE j = k
      BY <3>1, <1>8
    <3>2. CASE j \in a..k - 1
      <4>1. w[i] <= w[j] /\ w[j] \in Int
        BY <1>7, <1>9, <3>2
      <4>. QED
        BY <1>8, <1>11, <4>1
    <3>. QED
      BY <1>9, <3>1, <3>2
  <2>. QED
    BY <1>3, <1>8, <2>1
<1>. QED
  BY <1>8, <1>10, <1>11

(* Of some neighbouring samples, one smallest and one largest.              *)
LEMMA ExtremesOf ==
  ASSUME NEW line, IsLine(line), NEW a \in 1..Len(line), NEW b \in 1..Len(line), a <= b
  PROVE  \E lo \in a..b, hi \in a..b :
           /\ Drawing!Extremes(line, a..b) = {lo, hi}
           /\ lo = Drawing!FirstLeast(a..b, LAMBDA i : line[i].v)
           /\ hi = Drawing!FirstLeast(a..b, LAMBDA i : -line[i].v)
           /\ \A j \in a..b : line[lo].v <= line[j].v /\ line[j].v <= line[hi].v
<1>1. a \in Nat /\ b \in Nat
  BY DEF IsLine
<1>2. \A i \in a..b : line[i].v \in Int
  <2>1. ASSUME NEW i \in a..b PROVE line[i] \in Samples
    <3>1. i \in 1..Len(line)
      BY DEF IsLine
    <3>. QED
      BY <3>1, ElementOfSeq DEF IsLine
  <2>. QED
    BY <2>1, DrawingAssumption DEF Samples
<1>. DEFINE low == [i \in a..b |-> line[i].v]
            high == [i \in a..b |-> -line[i].v]
            Lows == {i \in a..b : \A j \in a..b : line[i].v <= line[j].v}
            Highs == {i \in a..b : \A j \in a..b : -line[i].v <= -line[j].v}
<1>3. Lows # {}
  <2>1. \E i \in a..b : \A j \in a..b : low[i] <= low[j]
    <3>1. \A i \in a..b : low[i] \in Int
      BY <1>2
    <3>. HIDE DEF low
    <3>. QED
      BY <1>1, <3>1, LeastValue
  <2>. QED
    BY <2>1
<1>4. Highs # {}
  <2>1. \E i \in a..b : \A j \in a..b : high[i] <= high[j]
    <3>1. \A i \in a..b : high[i] \in Int
      BY <1>2
    <3>. HIDE DEF high
    <3>. QED
      BY <1>1, <3>1, LeastValue
  <2>. QED
    BY <2>1
<1>5. Lows \in SUBSET Nat /\ Highs \in SUBSET Nat
  BY <1>1
<1>6. Drawing!Min(Lows) \in Lows /\ Drawing!Min(Highs) \in Highs
  <2>. HIDE DEF Lows, Highs
  <2>. QED
    BY <1>3, <1>4, <1>5, DrawingMin
<1>7. /\ Drawing!FirstLeast(a..b, LAMBDA i : line[i].v) = Drawing!Min(Lows)
      /\ Drawing!FirstLeast(a..b, LAMBDA i : -line[i].v) = Drawing!Min(Highs)
  BY DEF Drawing!FirstLeast
<1>8. Drawing!Extremes(line, a..b) = {Drawing!Min(Lows), Drawing!Min(Highs)}
  BY DEF Drawing!Extremes, Drawing!FirstLeast
<1>9. \A j \in a..b : line[Drawing!Min(Lows)].v <= line[j].v
  BY <1>6
<1>10. ASSUME NEW j \in a..b PROVE line[j].v <= line[Drawing!Min(Highs)].v
  <2>1. -line[Drawing!Min(Highs)].v <= -line[j].v /\ Drawing!Min(Highs) \in a..b
    BY <1>6
  <2>. QED
    BY <1>2, <2>1
<1>. QED
  BY <1>6, <1>7, <1>8, <1>9, <1>10

LEMMA DivMod ==
  ASSUME NEW n \in Nat, NEW d \in Nat \ {0}
  PROVE  /\ n \div d \in Nat /\ n % d \in Nat /\ n % d < d
         /\ n = d * (n \div d) + (n % d)
OBVIOUS

LEMMA Multiple ==
  ASSUME NEW d \in Nat \ {0}, NEW k \in Nat
  PROVE  (d * k) % d = 0
<1>. DEFINE q == (d * k) \div d
            r == (d * k) % d
<1>1. d * k \in Nat
  OBVIOUS
<1>2. d * k = d * q + r /\ r \in Nat /\ r < d /\ q \in Nat
  BY <1>1, DivMod
<1>. HIDE DEF q, r
<1>3. d * (k - q) = r
  BY <1>2
<1>4. ~(k - q >= 1)
  <2>1. k - q >= 1 => d * (k - q) >= d
    BY <1>2
  <2>. QED
    BY <1>2, <1>3, <2>1
<1>5. ~(k - q <= -1)
  <2>1. k - q <= -1 => d * (k - q) <= -d
    BY <1>2
  <2>. QED
    BY <1>2, <1>3, <2>1
<1>6. k = q
  BY <1>2, <1>4, <1>5
<1>. QED
  BY <1>2, <1>3, <1>6 DEF r

(* The places of some numbers in their order.                               *)
Rank(K, k) == Drawing!Cardinality({j \in K : j <= k})

LEMMA Ranks ==
  ASSUME NEW n \in Nat, NEW K \in SUBSET (1..n)
  PROVE  /\ IsFiniteSet(K) /\ Cardinality(K) \in Nat
         /\ \A k \in K : Rank(K, k) \in 1..Cardinality(K)
         /\ \A k, l \in K : k < l => Rank(K, k) < Rank(K, l)
         /\ \A r \in 1..Cardinality(K) : \E k \in K : Rank(K, k) = r
<1>. DEFINE C == Cardinality(K)
            Upto(k) == {j \in K : j <= k}
<1>1. IsFiniteSet(K) /\ C \in Nat
  <2>1. IsFiniteSet(1..n)
    BY FS_Interval
  <2>2. IsFiniteSet(K)
    BY <2>1, FS_Subset
  <2>. QED
    BY <2>2, FS_CardinalityType
<1>2. \A k \in K : k \in Nat
  OBVIOUS
<1>3. \A k \in K : IsFiniteSet(Upto(k)) /\ Rank(K, k) \in Nat /\ Rank(K, k) <= C
  <2>. TAKE k \in K
  <2>1. Upto(k) \in SUBSET K
    OBVIOUS
  <2>. QED
    BY <1>1, <2>1, FS_Subset, FS_CardinalityType, DrawingCounts DEF Rank
<1>4. ASSUME NEW k \in K PROVE Rank(K, k) \in 1..C
  <2>1. k \in Upto(k)
    BY <1>2
  <2>2. Rank(K, k) = Cardinality(Upto(k)) /\ IsFiniteSet(Upto(k))
    BY <1>3, DrawingCounts DEF Rank
  <2>3. Cardinality(Upto(k)) # 0
    <3>. HIDE DEF Upto
    <3>. QED
      BY <2>1, <2>2, FS_EmptySet
  <2>4. Rank(K, k) \in Nat /\ Rank(K, k) <= C /\ Rank(K, k) # 0
    BY <1>3, <2>2, <2>3
  <2>. QED
    BY <1>1, <2>4
<1>5. ASSUME NEW k \in K, NEW l \in K, k < l PROVE Rank(K, k) < Rank(K, l)
  <2>1. k \in Nat /\ l \in Nat
    BY <1>2
  <2>2. Upto(k) \in SUBSET Upto(l)
    <3>1. \A j \in K : j <= k => j <= l
      BY <1>2, <1>5, <2>1
    <3>. QED
      BY <3>1
  <2>3. l \in Upto(l) /\ l \notin Upto(k)
    BY <1>5, <2>1
  <2>4. Rank(K, k) = Cardinality(Upto(k)) /\ Rank(K, l) = Cardinality(Upto(l)) /\ IsFiniteSet(Upto(l))
    BY <1>3, DrawingCounts DEF Rank
  <2>5. Cardinality(Upto(k)) <= Cardinality(Upto(l)) /\ Cardinality(Upto(k)) # Cardinality(Upto(l))
    <3>. HIDE DEF Upto
    <3>. QED
      BY <2>2, <2>3, <2>4, FS_Subset
  <2>6. Rank(K, k) \in Nat /\ Rank(K, l) \in Nat
    BY <1>3
  <2>. QED
    BY <2>4, <2>5, <2>6
<1>. HIDE DEF C, Upto
<1>6. ASSUME NEW r \in 1..C PROVE \E k \in K : Rank(K, k) = r
  <2>. DEFINE f == [k \in K |-> Rank(K, k)]
  <2>1. f \in [K -> 1..C]
    BY <1>4
  <2>2. ASSUME NEW k \in K, NEW l \in K, f[k] = f[l] PROVE k = l
    <3>1. k \in Nat /\ l \in Nat /\ Rank(K, k) \in Nat /\ Rank(K, k) = Rank(K, l)
      BY <1>2, <1>3, <2>2
    <3>2. ~(k < l) /\ ~(l < k)
      BY <1>5, <3>1
    <3>. QED
      BY <3>1, <3>2
  <2>3. f \in Injection(K, 1..C)
    <3>. HIDE DEF f
    <3>. QED
      BY <2>1, <2>2, Fun_IsInj
  <2>4. IsFiniteSet(1..C) /\ Cardinality(1..C) = C
    <3>1. 1 \in Int /\ C \in Int /\ (C < 1 => C = 0) /\ C - 1 + 1 = C
      BY <1>1
    <3>. QED
      BY <3>1, FS_Interval
  <2>5. f \in Surjection(K, 1..C)
    <3>. HIDE DEF f
    <3>. QED
      BY <1>1, <2>3, <2>4, FS_Injection DEF C
  <2>. QED
    BY <2>5 DEF Surjection
<1>. QED
  BY <1>1, <1>4, <1>5, <1>6 DEF C

(* A long line is cut into at most Buckets pieces, which cover it.          *)
LEMMA Pieces ==
  ASSUME NEW line, IsLine(line), Len(line) > 2 * Buckets
  PROVE  LET size == Drawing!CeilDiv(Len(line), Buckets) IN
         /\ size \in Nat \ {0}
         /\ \A i \in 1..Len(line) : (i - 1) % size = 0 =>
              \E k \in 0..Buckets - 1 : i = size * k + 1
         /\ \A p \in 1..Len(line) : \E i \in 1..Len(line) :
              (i - 1) % size = 0 /\ i <= p /\ p <= i + size - 1
<1>. DEFINE L == Len(line)
            size == Drawing!CeilDiv(L, Buckets)
            rest == (L + Buckets - 1) % Buckets
<1>1. L \in Nat \ {0} /\ Buckets \in Nat \ {0} /\ L > 2 * Buckets
  BY DrawingAssumption DEF IsLine
<1>. HIDE DEF L
<1>2. L + Buckets - 1 \in Nat
  BY <1>1
<1>3. /\ L + Buckets - 1 = Buckets * size + rest
      /\ size \in Nat /\ rest \in Nat /\ rest < Buckets
  BY <1>1, <1>2, DivMod DEF Drawing!CeilDiv
<1>. HIDE DEF size, rest
<1>4. L <= Buckets * size /\ Buckets * size \in Nat
  BY <1>1, <1>3
<1>5. size # 0
  <2>1. size = 0 => Buckets * size = 0
    BY <1>1
  <2>. QED
    BY <1>1, <1>4, <2>1
<1>6. ASSUME NEW i \in 1..L, (i - 1) % size = 0 PROVE \E k \in 0..Buckets - 1 : i = size * k + 1
  <2>. DEFINE k == (i - 1) \div size
  <2>1. i - 1 \in Nat /\ size \in Nat \ {0}
    BY <1>1, <1>3, <1>5
  <2>2. k \in Nat /\ i - 1 = size * k + 0
    BY <1>6, <2>1, DivMod
  <2>. HIDE DEF k
  <2>3. ~(k >= Buckets)
    <3>1. k >= Buckets => size * k >= size * Buckets
      BY <1>1, <2>1, <2>2
    <3>2. size * Buckets = Buckets * size /\ size * k \in Nat
      BY <1>1, <2>1, <2>2
    <3>. QED
      BY <1>1, <1>4, <2>2, <3>1, <3>2
  <2>4. k \in 0..Buckets - 1 /\ i = size * k + 1
    BY <1>1, <2>1, <2>2, <2>3
  <2>. QED
    BY <2>4
<1>7. ASSUME NEW p \in 1..L
      PROVE  \E i \in 1..L : (i - 1) % size = 0 /\ i <= p /\ p <= i + size - 1
  <2>. DEFINE k == (p - 1) \div size
              r == (p - 1) % size
  <2>1. p - 1 \in Nat /\ size \in Nat \ {0}
    BY <1>1, <1>3, <1>5
  <2>2. k \in Nat /\ r \in Nat /\ r < size /\ p - 1 = size * k + r
    BY <2>1, DivMod
  <2>. HIDE DEF k, r
  <2>3. size * k \in Nat /\ (size * k) % size = 0
    BY <2>1, <2>2, Multiple
  <2>4. size * k + 1 \in 1..L /\ size * k + 1 <= p /\ p <= size * k + 1 + size - 1
    BY <1>1, <2>1, <2>2, <2>3
  <2>5. size * k + 1 - 1 = size * k
    BY <2>3
  <2>. QED
    BY <2>3, <2>4, <2>5
<1>. QED
  BY <1>3, <1>5, <1>6, <1>7 DEF size, L

(* Of each piece a smallest and a largest sample is kept: enough for the    *)
(* extremes of the line, and two for each bucket at most. *)
LEMMA KeptOf ==
  ASSUME NEW line, IsLine(line), Len(line) > 2 * Buckets
  PROVE  /\ Drawing!Kept(line) \in SUBSET (1..Len(line))
         /\ \A p \in 1..Len(line) : \E q \in Drawing!Kept(line) : line[q].v <= line[p].v
         /\ \A p \in 1..Len(line) : \E q \in Drawing!Kept(line) : line[p].v <= line[q].v
         /\ Cardinality(Drawing!Kept(line)) <= 2 * Buckets
<1>. DEFINE L == Len(line)
            size == Drawing!CeilDiv(L, Buckets)
            starts == {i \in 1..L : (i - 1) % size = 0}
            piece(i) == Drawing!SamplesOf(line, i, size)
            Low(i) == Drawing!FirstLeast(piece(i), LAMBDA j : line[j].v)
            High(i) == Drawing!FirstLeast(piece(i), LAMBDA j : -line[j].v)
<1>1. L \in Nat \ {0} /\ Buckets \in Nat \ {0}
  BY DrawingAssumption DEF IsLine
<1>2. /\ size \in Nat \ {0}
      /\ \A i \in starts : \E k \in 0..Buckets - 1 : i = size * k + 1
      /\ \A p \in 1..L : \E i \in starts : i <= p /\ p <= i + size - 1
  BY Pieces
<1>3. Drawing!Kept(line) = UNION {Drawing!Extremes(line, piece(i)) : i \in starts}
  BY DEF Drawing!Kept
<1>. HIDE DEF size
<1>4. ASSUME NEW i \in starts
      PROVE  \E b \in 1..L : piece(i) = i..b /\ i <= b /\ \A p \in 1..L : p <= i + size - 1 => p <= b
  <2>. DEFINE b == Drawing!Min({i + size - 1, L})
  <2>1. i \in 1..L /\ i + size - 1 \in Nat
    BY <1>1, <1>2
  <2>2. {i + size - 1, L} \in SUBSET Nat
    BY <1>1, <2>1
  <2>3. b \in {i + size - 1, L} /\ b <= i + size - 1 /\ b <= L
    BY <2>2, DrawingMin
  <2>4. piece(i) = i..b
    BY DEF Drawing!SamplesOf
  <2>. HIDE DEF b
  <2>5. b \in 1..L /\ i <= b /\ \A p \in 1..L : p <= i + size - 1 => p <= b
    BY <1>1, <1>2, <2>1, <2>3
  <2>. QED
    BY <2>4, <2>5
<1>5. ASSUME NEW i \in starts
      PROVE  /\ Drawing!Extremes(line, piece(i)) = {Low(i), High(i)}
             /\ Low(i) \in 1..L /\ High(i) \in 1..L
             /\ \A p \in 1..L : i <= p /\ p <= i + size - 1 =>
                  line[Low(i)].v <= line[p].v /\ line[p].v <= line[High(i)].v
  <2>1. PICK b \in 1..L : piece(i) = i..b /\ i <= b /\ \A p \in 1..L : p <= i + size - 1 => p <= b
    BY <1>4
  <2>2. i \in 1..L
    OBVIOUS
  <2>3. PICK lo \in i..b, hi \in i..b :
           /\ Drawing!Extremes(line, i..b) = {lo, hi}
           /\ lo = Drawing!FirstLeast(i..b, LAMBDA j : line[j].v)
           /\ hi = Drawing!FirstLeast(i..b, LAMBDA j : -line[j].v)
           /\ \A j \in i..b : line[lo].v <= line[j].v /\ line[j].v <= line[hi].v
    BY <2>1, <2>2, ExtremesOf
  <2>4. lo = Low(i) /\ hi = High(i)
    BY <2>1, <2>3
  <2>5. lo \in 1..L /\ hi \in 1..L
    <3>1. \A j \in i..b : j \in 1..L
      BY <1>1, <2>1, <2>2
    <3>. QED
      BY <3>1
  <2>6. \A p \in 1..L : i <= p /\ p <= i + size - 1 => p \in i..b
    BY <1>1, <2>1, <2>2
  <2>. QED
    BY <2>1, <2>3, <2>4, <2>5, <2>6
<1>. HIDE DEF piece, Low, High
<1>6. Drawing!Kept(line) = UNION {{Low(i), High(i)} : i \in starts}
  BY <1>3, <1>5
<1>7. Drawing!Kept(line) \in SUBSET (1..L)
  BY <1>5, <1>6
<1>8. ASSUME NEW p \in 1..L
      PROVE  \E q, u \in Drawing!Kept(line) : line[q].v <= line[p].v /\ line[p].v <= line[u].v
  <2>1. PICK i \in starts : i <= p /\ p <= i + size - 1
    BY <1>2
  <2>2. Low(i) \in Drawing!Kept(line) /\ High(i) \in Drawing!Kept(line)
    BY <1>6
  <2>3. line[Low(i)].v <= line[p].v /\ line[p].v <= line[High(i)].v
    BY <1>5, <1>8, <2>1
  <2>. QED
    BY <2>2, <2>3
<1>9. Cardinality(Drawing!Kept(line)) <= 2 * Buckets
  <2>. DEFINE D == (0..Buckets - 1) \X {1, 2}
              f == [x \in D |-> IF x[2] = 1 THEN Low(size * x[1] + 1) ELSE High(size * x[1] + 1)]
              Im == {f[x] : x \in D}
  <2>1. IsFiniteSet(0..Buckets - 1) /\ Cardinality(0..Buckets - 1) = Buckets
    <3>1. 0 \in Int /\ Buckets - 1 \in Int /\ ~(0 > Buckets - 1) /\ Buckets - 1 - 0 + 1 = Buckets
      BY <1>1
    <3>. QED
      BY <3>1, FS_Interval
  <2>2. IsFiniteSet({1, 2}) /\ Cardinality({1, 2}) = 2
    <3>1. {1, 2} = 1..2
      OBVIOUS
    <3>2. IsFiniteSet(1..2) /\ Cardinality(1..2) = 2
      <4>1. \A b \in Int : /\ IsFiniteSet(1..b)
                           /\ Cardinality(1..b) = IF 1 > b THEN 0 ELSE b - 1 + 1
        BY FS_Interval
      <4>2. 2 \in Int /\ (IF 1 > 2 THEN 0 ELSE 2 - 1 + 1) = 2
        OBVIOUS
      <4>. QED
        BY <4>1, <4>2, Zenon
    <3>. QED
      BY <3>1, <3>2, Zenon
  <2>3. IsFiniteSet(D) /\ Cardinality(D) = Buckets * 2
    <3>1. IsFiniteSet(D) /\ Cardinality(D) = Cardinality(0..Buckets - 1) * Cardinality({1, 2})
      BY <2>1, <2>2, FS_Product, Zenon
    <3>. QED
      BY <2>1, <2>2, <3>1, Zenon
  <2>4. f \in Surjection(D, Im)
    BY Fun_IsSurj
  <2>5. IsFiniteSet(Im) /\ Cardinality(Im) <= Buckets * 2
    BY <2>3, <2>4, FS_Surjection
  <2>6. Drawing!Kept(line) \in SUBSET Im
    <3>1. ASSUME NEW i \in starts PROVE Low(i) \in Im /\ High(i) \in Im
      <4>1. PICK k \in 0..Buckets - 1 : i = size * k + 1
        BY <1>2
      <4>2. <<k, 1>> \in D /\ <<k, 2>> \in D
        OBVIOUS
      <4>3. f[<<k, 1>>] = Low(i) /\ f[<<k, 2>>] = High(i)
        BY <4>1, <4>2
      <4>. QED
        BY <4>2, <4>3
    <3>2. ASSUME NEW q \in Drawing!Kept(line) PROVE q \in Im
      <4>1. PICK i \in starts : q = Low(i) \/ q = High(i)
        BY <1>6
      <4>. QED
        BY <3>1, <4>1
    <3>. QED
      BY <3>2
  <2>7. Cardinality(Drawing!Kept(line)) <= Cardinality(Im)
    BY <2>5, <2>6, FS_Subset
  <2>8. Cardinality(Im) \in Nat /\ Cardinality(Drawing!Kept(line)) \in Nat
    BY <2>5, <2>6, FS_Subset, FS_CardinalityType
  <2>. QED
    BY <1>1, <2>5, <2>7, <2>8
<1>. QED
  BY <1>7, <1>8, <1>9

LEMMA SamplesOfLine ==
  ASSUME NEW line, IsLine(line), NEW i \in 1..Len(line)
  PROVE  line[i] \in Samples /\ line[i].t \in Nat /\ line[i].v \in Int
<1>1. line[i] \in Samples
  BY ElementOfSeq DEF IsLine
<1>. QED
  BY <1>1, DrawingAssumption DEF Samples

(* The points drawn are samples of the line, in its order, the extremes     *)
(* among them. *)
DrawnBy(line, n, K, f) ==
  LET points == Drawing!decimate_minmax(line) IN
  /\ n <= 2 * Buckets /\ Len(points) = n /\ DOMAIN points = 1..n
  /\ \A i \in 1..n : points[i] = line[f[i]]
  /\ \A i, j \in 1..n : i < j => f[i] < f[j]
  /\ \A k \in K : \E i \in 1..n : f[i] = k
  /\ \A p \in 1..Len(line) : \E q \in K : line[q].v <= line[p].v
  /\ \A p \in 1..Len(line) : \E q \in K : line[p].v <= line[q].v

LEMMA DrawnPoints ==
  ASSUME NEW line, IsLine(line)
  PROVE  \E n \in Nat, K \in SUBSET (1..Len(line)) : \E f \in [1..n -> K] : DrawnBy(line, n, K, f)
<1>. DEFINE L == Len(line)
<1>1. L \in Nat \ {0} /\ Buckets \in Nat \ {0} /\ DOMAIN line = 1..L
  BY DrawingAssumption DEF IsLine
<1>2. CASE L <= 2 * Buckets
  <2>. DEFINE f == [i \in 1..L |-> i]
  <2>1. Drawing!decimate_minmax(line) = line
    BY <1>2 DEF Drawing!decimate_minmax
  <2>2. f \in [1..L -> 1..L] /\ 1..L \in SUBSET (1..L) /\ L \in Nat
    BY <1>1
  <2>3. /\ \A i \in 1..L : line[i] = line[f[i]]
        /\ \A i, j \in 1..L : i < j => f[i] < f[j]
        /\ \A k \in 1..L : \E i \in 1..L : f[i] = k
    OBVIOUS
  <2>4. \A p \in 1..L : line[p].v <= line[p].v
    BY SamplesOfLine
  <2>5. /\ \A p \in 1..L : \E q \in 1..L : line[q].v <= line[p].v
        /\ \A p \in 1..L : \E q \in 1..L : line[p].v <= line[q].v
    BY <2>4
  <2>. HIDE DEF f
  <2>6. DrawnBy(line, L, 1..L, f)
    BY <1>1, <1>2, <2>1, <2>3, <2>5 DEF DrawnBy
  <2>. QED
    BY <2>2, <2>6, Zenon
<1>3. CASE ~(L <= 2 * Buckets)
  <2>. DEFINE K == Drawing!Kept(line)
              n == Drawing!Cardinality(K)
              f == [i \in 1..n |-> CHOOSE k \in K : Rank(K, k) = i]
  <2>1. L > 2 * Buckets
    BY <1>1, <1>3
  <2>2. /\ K \in SUBSET (1..L) /\ n <= 2 * Buckets
        /\ \A p \in 1..L : \E q \in K : line[q].v <= line[p].v
        /\ \A p \in 1..L : \E q \in K : line[p].v <= line[q].v
    BY <2>1, KeptOf, DrawingCounts
  <2>3. Drawing!decimate_minmax(line) = [i \in 1..n |-> line[CHOOSE k \in K : Rank(K, k) = i]]
    <3>. DEFINE key == [k \in K |-> k]
    <3>1. Drawing!decimate_minmax(line) = Drawing!Arranged(line, key)
      BY <1>3 DEF Drawing!decimate_minmax, Drawing!Picked
    <3>2. DOMAIN key = K /\ \A k \in K : key[k] = k
      OBVIOUS
    <3>. HIDE DEF K, key
    <3>3. ASSUME NEW k \in K PROVE Drawing!Rank(key, k) = Rank(K, k)
      <4>1. {j \in DOMAIN key : key[j] <= key[k]} = {j \in K : j <= k}
        BY <3>2
      <4>. QED
        BY <4>1 DEF Drawing!Rank, Rank
    <3>4. Drawing!Arranged(line, key) =
            [i \in 1..n |-> line[CHOOSE k \in K : Drawing!Rank(key, k) = i]]
      BY <3>2 DEF Drawing!Arranged
    <3>. DEFINE by(i) == CHOOSE k \in K : Drawing!Rank(key, k) = i
                at(i) == CHOOSE k \in K : Rank(K, k) = i
    <3>5. \A i : by(i) = at(i)
      BY <3>3
    <3>6. /\ Drawing!Arranged(line, key) = [i \in 1..n |-> line[by(i)]]
          /\ [i \in 1..n |-> line[CHOOSE k \in K : Rank(K, k) = i]] = [i \in 1..n |-> line[at(i)]]
      BY <3>4
    <3>. HIDE DEF by, at, n
    <3>. QED
      BY <3>1, <3>5, <3>6
  <2>. HIDE DEF K
  <2>4. /\ n \in Nat
        /\ \A k \in K : Rank(K, k) \in 1..n
        /\ \A k, l \in K : k < l => Rank(K, k) < Rank(K, l)
        /\ \A r \in 1..n : \E k \in K : Rank(K, k) = r
    BY <1>1, <2>2, Ranks, DrawingCounts
  <2>. HIDE DEF n
  <2>5. ASSUME NEW i \in 1..n PROVE f[i] \in K /\ Rank(K, f[i]) = i
    BY <2>4
  <2>6. Drawing!decimate_minmax(line) = [i \in 1..n |-> line[f[i]]]
    BY <2>3
  <2>. HIDE DEF f
  <2>7. f \in [1..n -> K]
    BY <2>5 DEF f
  <2>8. \A k \in K : k \in Nat
    BY <1>1, <2>2
  <2>9. ASSUME NEW i \in 1..n, NEW j \in 1..n, i < j PROVE f[i] < f[j]
    <3>1. /\ f[i] \in K /\ f[j] \in K /\ f[i] \in Nat /\ f[j] \in Nat
          /\ Rank(K, f[i]) = i /\ Rank(K, f[j]) = j
      BY <2>5, <2>8
    <3>2. f[i] # f[j]
      BY <2>4, <2>9, <3>1
    <3>3. ~(f[j] < f[i])
      BY <2>4, <2>9, <3>1
    <3>. QED
      BY <3>1, <3>2, <3>3
  <2>10. ASSUME NEW k \in K PROVE \E i \in 1..n : f[i] = k
    <3>. DEFINE i == Rank(K, k)
    <3>1. i \in 1..n
      BY <2>4
    <3>2. f[i] \in K /\ Rank(K, f[i]) = i
      BY <2>5, <3>1
    <3>3. i \in Nat /\ k \in Nat /\ f[i] \in Nat
      BY <2>4, <2>8, <3>1, <3>2
    <3>4. ~(f[i] < k) /\ ~(k < f[i])
      BY <2>4, <3>2, <3>3
    <3>. QED
      BY <3>1, <3>3, <3>4
  <2>11. Len(Drawing!decimate_minmax(line)) = n /\ DOMAIN Drawing!decimate_minmax(line) = 1..n
    BY <2>4, <2>6
  <2>12. \A i \in 1..n : Drawing!decimate_minmax(line)[i] = line[f[i]]
    BY <2>6
  <2>13. DrawnBy(line, n, K, f)
    BY <2>2, <2>9, <2>10, <2>11, <2>12 DEF DrawnBy, n
  <2>. QED
    BY <2>2, <2>4, <2>7, <2>13, Zenon
<1>. QED
  BY <1>2, <1>3

LEMMA ExtremesOfLine ==
  ASSUME NEW line, IsLine(line)
  PROVE  LET points == Drawing!decimate_minmax(line) IN
         /\ Len(points) <= 2 * Buckets /\ Drawing!ToSet(points) \subseteq Drawing!ToSet(line)
         /\ {Drawing!Max({s.v : s \in Drawing!ToSet(line)}), Drawing!Min({s.v : s \in Drawing!ToSet(line)})}
              \subseteq {s.v : s \in Drawing!ToSet(points)}
         /\ \A i \in 2..Len(points) : points[i - 1].t < points[i].t
<1>. DEFINE L == Len(line)
            points == Drawing!decimate_minmax(line)
            Vs == {s.v : s \in Drawing!ToSet(line)}
            Ds == {s.v : s \in Drawing!ToSet(points)}
<1>1. L \in Nat \ {0} /\ DOMAIN line = 1..L
  BY DEF IsLine
<1>2. PICK n \in Nat, K \in SUBSET (1..L) : \E f \in [1..n -> K] : DrawnBy(line, n, K, f)
  BY DrawnPoints, Zenon
<1>3. PICK f \in [1..n -> K] : DrawnBy(line, n, K, f)
  BY <1>2
<1>4. /\ n <= 2 * Buckets /\ Len(points) = n /\ DOMAIN points = 1..n
      /\ \A i \in 1..n : points[i] = line[f[i]]
      /\ \A i, j \in 1..n : i < j => f[i] < f[j]
      /\ \A k \in K : \E i \in 1..n : f[i] = k
      /\ \A p \in 1..L : \E q \in K : line[q].v <= line[p].v
      /\ \A p \in 1..L : \E q \in K : line[p].v <= line[q].v
  BY <1>3 DEF DrawnBy
<1>5. \A i, j \in 1..L : i < j => line[i].t < line[j].t
  BY DEF IsLine
<1>6. \A k \in 1..L : line[k].v \in Int /\ line[k].t \in Nat
  BY SamplesOfLine
<1>. HIDE DEF points, L
<1>7. \A i \in 1..n : f[i] \in K /\ f[i] \in 1..L
  BY <1>4
<1>8. \A k \in 1..L : line[k].v \in Int /\ line[k].t \in Nat
  BY <1>6
<1>9. Drawing!ToSet(line) = {line[k] : k \in 1..L} /\ Drawing!ToSet(points) = {points[i] : i \in 1..n}
  BY <1>1, <1>4 DEF Drawing!ToSet
<1>10. Drawing!ToSet(points) \subseteq Drawing!ToSet(line)
  BY <1>4, <1>7, <1>9
<1>11. Vs = {line[k].v : k \in 1..L} /\ Ds = {points[i].v : i \in 1..n}
  BY <1>9
<1>. HIDE DEF Vs, Ds
<1>12. ASSUME NEW q \in K PROVE line[q].v \in Ds
  <2>1. PICK i \in 1..n : f[i] = q
    BY <1>4
  <2>. QED
    BY <1>4, <1>11, <2>1
<1>13. PICK lo \in 1..L : \A p \in 1..L : line[lo].v <= line[p].v
  <2>. DEFINE w == [k \in 1..L |-> line[k].v]
  <2>1. \A k \in 1..L : w[k] \in Int
    BY <1>8
  <2>2. \E i \in 1..L : \A j \in 1..L : w[i] <= w[j]
    <3>1. 1 \in Nat /\ L \in Nat /\ 1 <= L
      BY <1>1
    <3>. HIDE DEF w
    <3>. QED
      BY <2>1, <3>1, LeastValue, Zenon
  <2>. QED
    BY <2>2
<1>14. PICK hi \in 1..L : \A p \in 1..L : line[hi].v >= line[p].v
  <2>. DEFINE w == [k \in 1..L |-> -line[k].v]
  <2>1. \A k \in 1..L : w[k] \in Int
    BY <1>8
  <2>2. \E i \in 1..L : \A j \in 1..L : w[i] <= w[j]
    <3>1. 1 \in Nat /\ L \in Nat /\ 1 <= L
      BY <1>1
    <3>. HIDE DEF w
    <3>. QED
      BY <2>1, <3>1, LeastValue, Zenon
  <2>3. PICK i \in 1..L : \A j \in 1..L : -line[i].v <= -line[j].v
    BY <2>2
  <2>4. ASSUME NEW j \in 1..L PROVE line[i].v >= line[j].v
    <3>1. line[i].v \in Int /\ line[j].v \in Int /\ -line[i].v <= -line[j].v
      BY <1>8, <2>3
    <3>. HIDE DEF L
    <3>. QED
      BY <3>1
  <2>. QED
    BY <2>4
<1>15. Drawing!Min(Vs) \in Ds
  <2>1. \E x \in Vs : \A y \in Vs : x <= y
    BY <1>11, <1>13
  <2>2. Drawing!Min(Vs) \in Vs /\ \A y \in Vs : Drawing!Min(Vs) <= y
    BY <2>1, Zenon DEF Drawing!Min
  <2>3. PICK p \in 1..L : Drawing!Min(Vs) = line[p].v
    BY <1>11, <2>2
  <2>4. PICK q \in K : line[q].v <= line[p].v
    BY <1>4
  <2>5. q \in 1..L /\ line[p].v <= line[q].v
    BY <1>11, <2>2, <2>3
  <2>6. line[p].v = line[q].v
    BY <1>8, <2>4, <2>5
  <2>. QED
    BY <1>12, <2>3, <2>6
<1>16. Drawing!Max(Vs) \in Ds
  <2>1. \E x \in Vs : \A y \in Vs : x >= y
    BY <1>11, <1>14
  <2>2. Drawing!Max(Vs) \in Vs /\ \A y \in Vs : Drawing!Max(Vs) >= y
    BY <2>1, Zenon DEF Drawing!Max
  <2>3. PICK p \in 1..L : Drawing!Max(Vs) = line[p].v
    BY <1>11, <2>2
  <2>4. PICK q \in K : line[p].v <= line[q].v
    BY <1>4
  <2>5. q \in 1..L /\ line[p].v >= line[q].v
    BY <1>11, <2>2, <2>3
  <2>6. line[p].v = line[q].v
    BY <1>8, <2>4, <2>5
  <2>. QED
    BY <1>12, <2>3, <2>6
<1>17. ASSUME NEW i \in 2..n PROVE points[i - 1].t < points[i].t
  <2>1. i \in 1..n /\ i - 1 \in 1..n /\ i - 1 < i
    OBVIOUS
  <2>2. f[i - 1] < f[i] /\ f[i - 1] \in 1..L /\ f[i] \in 1..L
    BY <1>4, <1>7, <2>1
  <2>3. line[f[i - 1]].t < line[f[i]].t
    BY <1>5, <2>2
  <2>. QED
    BY <1>4, <2>1, <2>3
<1>. QED
  BY <1>4, <1>10, <1>15, <1>16, <1>17 DEF Vs, Ds, points, L

LEMMA ExtremesAreDrawn == ASSUME DrawInv PROVE Drawing!ExtremesDrawn
<1>. SUFFICES ASSUME Drawing!N > 0, NEW line \in Drawing!Lines
              PROVE  LET points == Drawing!decimate_minmax(line) IN
                     /\ Len(points) <= 2 * Buckets /\ Drawing!ToSet(points) \subseteq Drawing!ToSet(line)
                     /\ {Drawing!Max({s.v : s \in Drawing!ToSet(line)}),
                         Drawing!Min({s.v : s \in Drawing!ToSet(line)})}
                          \subseteq {s.v : s \in Drawing!ToSet(points)}
                     /\ \A i \in 2..Len(points) : points[i - 1].t < points[i].t
  BY Zenon DEF Drawing!ExtremesDrawn
<1>. QED
  BY LinesAreLines, ExtremesOfLine, Zenon

-----------------------------------------------------------------------------
(* The names of a legend. *)

LEMMA NamesBound ==
  ASSUME DrawInv, NEW i \in 1..Len(bound)
  PROVE  bound[i] \in Seq(STRING \X STRING) /\ Len(bound[i]) \in Nat \ {0}
<1>1. bound[i] \in Names
  BY ElementOfSeq DEF DrawInv
<1>2. bound[i] \in Seq(STRING \X STRING) /\ bound[i] # << >>
  BY <1>1, DrawingAssumption
<1>. QED
  BY <1>2, EmptySeq

(* Each name begins with the prefix and goes on after it.                   *)
LEMMA PrefixShared ==
  ASSUME DrawInv, NEW i \in 1..Len(bound)
  PROVE  /\ Drawing!SharedLen \in Nat /\ Drawing!SharedLen < Len(bound[i])
         /\ \A k \in 1..Drawing!SharedLen : bound[i][k] = bound[1][k]
<1>1. Len(bound) \in Nat /\ DOMAIN bound = 1..Len(bound)
  BY DEF DrawInv
<1>2. CASE Len(bound) < 2
  <2>1. Drawing!SharedLen = 0
    BY <1>2 DEF Drawing!SharedLen
  <2>. QED
    BY <2>1, NamesBound
<1>3. CASE ~(Len(bound) < 2)
  <2>. DEFINE Lens == {Len(bound[j]) : j \in DOMAIN bound}
              cap == Drawing!Min(Lens) - 1
              Ks == {k \in 0..cap : \A j \in 1..k : Drawing!SharedTokens(j)}
  <2>1. Drawing!SharedLen = Drawing!Max(Ks)
    BY <1>3 DEF Drawing!SharedLen
  <2>2. \A j \in 1..Len(bound) : Len(bound[j]) \in Nat \ {0}
    BY NamesBound
  <2>3. Lens \in SUBSET Nat /\ Lens # {}
    BY <1>1, <2>2
  <2>4. Drawing!Min(Lens) \in Lens /\ \A l \in Lens : Drawing!Min(Lens) <= l
    <3>. HIDE DEF Lens
    <3>. QED
      BY <2>3, DrawingMin
  <2>5. cap \in Nat /\ cap < Len(bound[i])
    <3>1. Drawing!Min(Lens) \in Nat \ {0} /\ Drawing!Min(Lens) <= Len(bound[i])
      BY <1>1, <2>2, <2>4
    <3>. HIDE DEF Lens
    <3>. QED
      BY <2>2, <3>1
  <2>. HIDE DEF cap
  <2>6. Ks \in SUBSET (0..cap) /\ 0 \in Ks
    BY <2>5
  <2>7. Drawing!Max(Ks) \in Ks
    <3>. HIDE DEF Ks
    <3>. QED
      BY <2>5, <2>6, DrawingMax
  <2>8. /\ Drawing!Max(Ks) \in 0..cap
        /\ \A j \in 1..Drawing!Max(Ks) : Drawing!SharedTokens(j)
    BY <2>7
  <2>. HIDE DEF Ks
  <2>9. Drawing!SharedLen \in Nat /\ Drawing!SharedLen < Len(bound[i])
    BY <2>1, <2>2, <2>5, <2>8
  <2>10. \A k \in 1..Drawing!SharedLen : bound[i][k] = bound[1][k]
    BY <1>1, <2>1, <2>8 DEF Drawing!SharedTokens
  <2>. QED
    BY <2>9, <2>10
<1>. QED
  BY <1>2, <1>3

LEMMA NamesToldApart == ASSUME DrawInv PROVE Drawing!LegendTellsApart
<1>. DEFINE S == Drawing!SharedLen
            brief(i) == SubSeq(bound[i], S + 1, Len(bound[i]))
<1>1. Len(bound) \in Nat /\ DOMAIN bound = 1..Len(bound)
  BY DEF DrawInv
<1>2. Drawing!Shorts = [i \in 1..Len(bound) |-> brief(i)]
  BY <1>1 DEF Drawing!Shorts
<1>3. ASSUME NEW i \in 1..Len(bound)
      PROVE  /\ Drawing!Prefix \o brief(i) = bound[i]
             /\ brief(i) # << >>
  <2>1. bound # << >> /\ 1 \in 1..Len(bound)
    BY <1>1
  <2>2. Drawing!Prefix = SubSeq(bound[1], 1, S)
    BY <2>1 DEF Drawing!Prefix
  <2>3. /\ S \in Nat /\ S < Len(bound[i]) /\ S < Len(bound[1])
        /\ \A k \in 1..S : bound[i][k] = bound[1][k]
    BY <2>1, PrefixShared
  <2>4. /\ bound[i] \in Seq(STRING \X STRING) /\ Len(bound[i]) \in Nat
        /\ bound[1] \in Seq(STRING \X STRING) /\ Len(bound[1]) \in Nat
    BY <2>1, NamesBound
  <2>. HIDE DEF S
  <2>5. SubSeq(bound[1], 1, S) = SubSeq(bound[i], 1, S)
    <3>. DEFINE T == STRING \X STRING
    <3>1. \A k \in 1..S : bound[i][k] \in T /\ bound[1][k] \in T
      <4>1. \A k \in 1..S : k \in 1..Len(bound[i]) /\ k \in 1..Len(bound[1])
        BY <2>3, <2>4
      <4>. QED
        BY <2>4, <4>1, ElementOfSeq
    <3>. HIDE DEF T
    <3>2. /\ SubSeq(bound[1], 1, S) \in Seq(T) /\ Len(SubSeq(bound[1], 1, S)) = S
          /\ \A k \in 1..S : SubSeq(bound[1], 1, S)[k] = bound[1][k]
      BY <2>3, <3>1, SubSeqProperties
    <3>3. /\ SubSeq(bound[i], 1, S) \in Seq(T) /\ Len(SubSeq(bound[i], 1, S)) = S
          /\ \A k \in 1..S : SubSeq(bound[i], 1, S)[k] = bound[i][k]
      BY <2>3, <3>1, SubSeqProperties
    <3>. QED
      BY <2>3, <3>2, <3>3, SeqEqual
  <2>6. SubSeq(bound[i], 1, S) \o SubSeq(bound[i], S + 1, Len(bound[i])) = bound[i]
    <3>1. 1 \in 1..Len(bound[i]) + 1 /\ S \in 1 - 1 .. Len(bound[i]) /\ Len(bound[i]) \in S .. Len(bound[i])
      BY <2>3, <2>4
    <3>2. SubSeq(bound[i], 1, S) \o SubSeq(bound[i], S + 1, Len(bound[i]))
            = SubSeq(bound[i], 1, Len(bound[i]))
      BY <2>4, <3>1, ConcatAdjacentSubSeq
    <3>. QED
      BY <2>4, <3>2, SubSeqFull
  <2>7. brief(i) # << >>
    <3>1. S + 1 \in Int /\ Len(bound[i]) \in Int /\ S + 1 <= Len(bound[i])
      BY <2>3, <2>4
    <3>2. \A k \in S + 1 .. Len(bound[i]) : bound[i][k] \in STRING \X STRING
      <4>1. \A k \in S + 1 .. Len(bound[i]) : k \in 1..Len(bound[i])
        BY <2>3, <2>4
      <4>. QED
        BY <2>4, <4>1, ElementOfSeq
    <3>3. Len(brief(i)) = Len(bound[i]) - (S + 1) + 1
      BY <3>1, <3>2, SubSeqProperties
    <3>4. Len(<< >>) = 0
      OBVIOUS
    <3>. QED
      <4>1. Len(bound[i]) - (S + 1) + 1 # 0
        BY <2>3, <2>4
      <4>. QED
        BY <3>3, <3>4, <4>1, Zenon
  <2>. QED
    BY <2>2, <2>5, <2>6, <2>7
<1>. HIDE DEF brief
<1>4. ASSUME NEW i \in 1..Len(bound), NEW j \in 1..Len(bound), brief(i) = brief(j) PROVE i = j
  <2>1. bound[i] = bound[j]
    BY <1>3, <1>4, Zenon
  <2>. QED
    BY <2>1 DEF DrawInv
<1>5. Drawing!IsInjective(Drawing!Shorts)
  BY <1>2, <1>4 DEF Drawing!IsInjective
<1>. QED
  BY <1>1, <1>2, <1>3, <1>5 DEF Drawing!LegendTellsApart

(* What is drawn of a window is what its samples say, however many they are *)
(* and wherever recordings join: a state graph holds each state up to the   *)
(* next sample or join, a line breaks where the states do, its extremes are *)
(* among the points that are left, and short names stay names. *)
THEOREM PlotsShowSamples ==
  FairSpec => [](scene = "drawing" => /\ Drawing!StateHeld /\ Drawing!LinesBreakAtJoins
                                      /\ Drawing!ExtremesDrawn /\ Drawing!LegendTellsApart)
<1>1. DrawInv => /\ Drawing!StateHeld /\ Drawing!LinesBreakAtJoins
                 /\ Drawing!ExtremesDrawn /\ Drawing!LegendTellsApart
  BY StatesAreHeld, JoinsBreakLines, ExtremesAreDrawn, NamesToldApart
<1>. QED
  BY <1>1, FairIsSafe, DrawInvInit, DrawInvStep, PTL DEF SafeSpec

(* Texts and plots alike show what was written. *)
THEOREM ShownIsWritten == FairSpec => []ShownAsWritten
BY TextsReadBack, PlotsShowSamples, PTL DEF ShownAsWritten
=============================================================================
