------------------------------ MODULE Freshness ------------------------------
(***************************************************************************)
(* The dot in a panel's title bar that says whether its channel is still   *)
(* producing (src/freshness.rs). It is judged when the panel is drawn,     *)
(* against the rate at which the channel was seen to advance.              *)
(*                                                                         *)
(* Times are ages in ticks. A tick is the heartbeat, so that a panel on    *)
(* the screen is drawn in each, and longer than the 10 ms for which a      *)
(* verdict is kept. A channel produces in bursts: up to MaxBurst samples   *)
(* within a tick, before, after or around the drawing of the panel, then a *)
(* pause of MinGap to MaxGap. The samples of a lagging channel carry times *)
(* a constant number of ticks before they arrive.                          *)
(***************************************************************************)
EXTENDS Integers, Sequences, FiniteSetsExt

CONSTANTS
  Lags,      \* how far behind the clock the samples may be
  MinGap,    \* a producing channel pauses for at least this
  MaxGap,    \* and for at most this
  MaxBurst,  \* how many samples may come in one tick
  Recent,    \* SAMPLE_WINDOW, 33 in the code
  MaxHidden, \* bound: a panel stays on another screen for at most this
  None

(* Longer than anything is silent or unseen, and old enough to be judged    *)
(* stalled: ages are not followed beyond it. *)
Cap == 5 * (MaxHidden + MaxGap + 2)

VARIABLES
  lag,
  alive,     \* the channel still produces
  quiet,     \* age of the newest arrival
  burst,     \* how many samples came in the tick of the newest
  gaps,      \* between the Recent newest samples
  visible,   \* the panel is on the screen shown
  hidden,    \* ticks since it was
  drawn,     \* it was drawn in this tick
  unseen,    \* samples arrived since the last evaluation
  tracked,   \* Tracked: advanced (age), interval, evaluated (age), cached
  begun,     \* history: a burst began since the last evaluation
  prompt,    \* history: the last advance was noticed within a tick
  paced      \* history: the interval kept is between the starts of two bursts

channel == <<lag, alive, quiet, burst, gaps>>
panel   == <<visible, hidden, drawn>>
kept    == <<unseen, tracked>>
history == <<begun, prompt, paced>>
vars    == <<channel, panel, kept, history>>

Older(n) == Min({n + 1, Cap})

TypeOK ==
  /\ lag \in Lags /\ quiet \in 0..Cap /\ burst \in 1..MaxBurst
  /\ gaps \in [1..Recent - 1 -> 0..MaxGap]
  /\ hidden \in 0..MaxHidden
  /\ tracked # None =>
       /\ {tracked.advanced, tracked.evaluated} \subseteq 0..Cap
       /\ tracked.interval \in 1..Cap

(* A channel that paused before its last burst, which no panel has shown.   *)
Init ==
  /\ lag \in Lags /\ alive = TRUE /\ quiet = 0
  /\ burst \in 1..MaxBurst
  /\ gaps \in [1..Recent - 1 -> {0, MinGap}]
  /\ burst < Recent => gaps[Recent - burst] = MinGap
  /\ visible \in BOOLEAN /\ hidden = 0 /\ drawn = FALSE
  /\ unseen = TRUE /\ tracked = None
  /\ begun = TRUE /\ prompt = FALSE /\ paced = FALSE

-----------------------------------------------------------------------------
(* The channel and the user. *)

(* One more sample, gap after the one before. *)
Arrives(gap) ==
  /\ alive
  /\ quiet' = 0 /\ unseen' = TRUE
  /\ gaps' = [i \in 1..Recent - 1 |-> IF i = Recent - 1 THEN gap ELSE gaps[i + 1]]
  /\ UNCHANGED <<lag, alive, panel, tracked, prompt, paced>>

Begin ==
  /\ quiet >= MinGap /\ Arrives(quiet)
  /\ burst' = 1 /\ begun' = TRUE

Continue ==
  /\ quiet = 0 /\ burst < MaxBurst /\ Arrives(0)
  /\ burst' = burst + 1 /\ UNCHANGED begun

Sample == Begin \/ Continue

Stop ==
  /\ alive' = FALSE
  /\ UNCHANGED <<lag, quiet, burst, gaps, panel, kept, history>>

Tick ==
  /\ alive => quiet < MaxGap
  /\ IF visible THEN drawn ELSE hidden < MaxHidden
  /\ quiet' = Older(quiet)
  /\ hidden' = IF visible THEN 0 ELSE hidden + 1
  /\ drawn' = FALSE
  /\ tracked' = IF tracked = None THEN None
                ELSE [tracked EXCEPT !.advanced = Older(@), !.evaluated = Older(@)]
  /\ UNCHANGED <<lag, alive, burst, gaps, visible, unseen, history>>

(* The other screen is shown, and this one again. *)
SwitchScreen ==
  /\ visible => drawn
  /\ visible' = ~visible
  /\ UNCHANGED <<channel, hidden, drawn, kept, history>>

-----------------------------------------------------------------------------
(* channel_freshness, when the panel is drawn. *)

classify(baseline, since) ==
  IF since < 2 * baseline THEN "fresh"
  ELSE IF since < 5 * baseline THEN "slowing" ELSE "stalled"

(* The longest silence within the samples read, and at least the smallest   *)
(* there can be. *)
Intra == Max({gaps[i] : i \in DOMAIN gaps} \union {1})

NewestAge == Min({quiet + lag, Cap})

(* When the newest sample moved on, and at what rate it does.               *)
AdvanceRepeated ==
  [advanced |-> 0,
   interval |-> IF tracked = None THEN Intra ELSE Max({tracked.advanced, 1})]

(* With a slip: the samples' own spacing is taken for their rate. *)
AdvanceSpacing ==
  IF tracked = None \/ unseen THEN [advanced |-> 0, interval |-> Intra]
  ELSE [advanced |-> tracked.advanced, interval |-> tracked.interval]

Advance ==
  IF tracked = None THEN [advanced |-> 0, interval |-> Intra]
  ELSE IF unseen THEN [advanced |-> 0, interval |-> Max({tracked.advanced, 1})]
  ELSE [advanced |-> tracked.advanced, interval |-> tracked.interval]

JudgedByAge(baseline, since) == classify(baseline, NewestAge)
Judged(baseline, since) ==
  IF NewestAge = 0 THEN "fresh" ELSE classify(baseline, since)

Evaluate ==
  /\ unseen' = FALSE
  /\ tracked' =
       [advanced |-> Advance.advanced, interval |-> Advance.interval, evaluated |-> 0,
        cached |-> Judged(Max({Intra, Advance.interval}), Advance.advanced)]
  /\ begun' = FALSE
  /\ prompt' = IF unseen \/ tracked = None THEN quiet <= 1 ELSE prompt
  /\ paced' = IF unseen /\ tracked # None THEN begun /\ prompt ELSE paced

Draw ==
  /\ visible /\ drawn' = TRUE
  /\ IF tracked # None /\ tracked.evaluated = 0 THEN UNCHANGED <<kept, history>> ELSE Evaluate
  /\ UNCHANGED <<channel, visible, hidden>>

-----------------------------------------------------------------------------
Next == Sample \/ Stop \/ Tick \/ SwitchScreen \/ Draw

Fairness == WF_vars(Tick) /\ WF_vars(Draw) /\ WF_vars(Sample)

Spec == Init /\ [][Next]_vars
FairSpec == Spec /\ Fairness

-----------------------------------------------------------------------------
(* Properties. *)

(* "a source that emits a burst per tick does not flicker between bursts"   *)
(* (src/freshness.rs): whatever its bursts, its lag and the time its panel  *)
(* was hidden, a channel that produces is not shown as stopped. *)
NoFlicker == alive /\ drawn /\ tracked # None => tracked.cached # "stalled"

(* A channel that produces is not found to have stopped, however its times  *)
(* lag and its panel was hidden, if the samples read reach back over a      *)
(* pause; and if they do not, when its last two bursts were noticed as they *)
(* began: the interval between the two then stands for the pause. *)
AlarmStep ==
  ~drawn /\ drawn' /\ alive /\ (burst < Recent \/ paced') => tracked'.cached # "stalled"

(* A channel that stopped is shown as stopped, if its panel stays on the    *)
(* screen. *)
StoppedIsNoticed ==
  <>[](~alive /\ visible) => <>[](tracked # None /\ tracked.cached = "stalled")

(* "No new sample for >= 5x the typical interval" reads as stopped.         *)
StoppedInTime ==
  drawn /\ tracked # None /\ quiet >= 5 * MaxGap + 1 => tracked.cached = "stalled"
=============================================================================
