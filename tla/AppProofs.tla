----------------------------- MODULE AppProofs -----------------------------
(* Proofs about App, for any recordings, speeds, windows and history, and   *)
(* for a wall clock followed for any time.                                  *)
EXTENDS App, TLAPS

(* A recording is being replayed, or loaded, only after it was opened, and  *)
(* no load is pending during a replay. *)
ReplayOK ==
  /\ replay \in PlaybackClock \cup {NoReplay}
  /\ load \in {"working", "ok"} \/ ~Live => file \in Recordings
  /\ ~Live => load = "none"

(* No more time is played than has passed since the last frame: last_frame  *)
(* is cleared in Live, so that a load is not played. *)
ElapsedOK ==
  /\ gap \in Nat /\ elapsed <= gap
  /\ Live => elapsed = 0

(* The instant of a pause lies in the past, and only a paused view keeps it *)
(* from its first frame on. *)
FrozenOK ==
  /\ frozen <= time
  /\ frozen <= time + offset
  /\ Live /\ phase = "events" /\ frozen # 0 => paused

(* What the last live frame was drawn with. *)
ClockOK ==
  shown # NoReplay => /\ clock <= time + shown
                      /\ frozen # 0 => clock = frozen

NumbersOK ==
  /\ time > History /\ clock \in Int /\ shown \in Int \cup {NoReplay}

AppInv ==
  /\ TypeOK /\ NumbersOK /\ ReplayOK /\ ElapsedOK /\ FrozenOK /\ ClockOK
  /\ PlayheadOnRecording

-----------------------------------------------------------------------------
(* The span of a recording covers it and is never empty. *)
LEMMA SpanCovers ==
  ASSUME NEW r \in Recordings
  PROVE  Span(r) \in Nat /\ Span(r) >= r.dur /\ Span(r) >= 1 /\ r.dur \in Nat
<1>. r.dur \in Nat
  BY AppAssumption
<1>1. \E m \in {r.dur, 1} : \A y \in {r.dur, 1} : m >= y
  OBVIOUS
<1>. QED
  BY <1>1 DEF Span, Max

(* A bound on a sum stays one when a summand grows. *)
LEMMA SumGrows ==
  ASSUME NEW a \in Int, NEW b \in Int, NEW c \in Int, NEW d \in Int, b >= a, d <= a + c
  PROVE  d <= b + c
OBVIOUS

(* At a given speed, more time covers more of the recording. *)
LEMMA MoreTimeMoreWay ==
  ASSUME NEW speed \in Nat, NEW a \in Nat, NEW b \in Nat, a <= b
  PROVE  speed * a \in Nat /\ speed * b \in Nat /\ speed * a <= speed * b
OBVIOUS

(* The wall clock never runs back. *)
LEMMA TimeGoesOn ==
  ASSUME AppInv, Tick
  PROVE  time' \in 0..MaxTime /\ time' >= time
BY AppAssumption DEF AppInv, TypeOK, Tick, Min2

(* The program starts in Live, with nothing loaded. *)
LEMMA AppInit == Init => AppInv
<1>. SUFFICES ASSUME Init PROVE AppInv
  OBVIOUS
<1>1. time \in 0..MaxTime /\ time > History /\ 0 \in -History..0 /\ 0 \in 0..History
  BY AppAssumption DEF Init
<1>2. TypeOK
  <2>1. recording \in BOOLEAN /\ paused \in BOOLEAN
    BY Zenon DEF Init
  <2>2. /\ phase = "poll" /\ load = "none" /\ elapsed = 0
        /\ offset = 0 /\ frozen = 0 /\ override = 0
    BY DEF Init
  <2>3. 0 \in 0..MaxTime
    BY AppAssumption
  <2>. QED
    BY <1>1, <2>1, <2>2, <2>3 DEF TypeOK
<1>3. NumbersOK /\ FrozenOK /\ ClockOK
  BY <1>1, AppAssumption DEF Init, NumbersOK, FrozenOK, ClockOK
<1>4. ReplayOK /\ ElapsedOK /\ PlayheadOnRecording
  BY DEF Init, ReplayOK, ElapsedOK, PlayheadOnRecording, Live
<1>. QED
  BY <1>2, <1>3, <1>4 DEF AppInv

(* Time passes: what is due to a replay grows with it, in Live nothing.     *)
LEMMA TickKeeps == ASSUME AppInv, Tick PROVE AppInv'
<1>1. time' \in 0..MaxTime /\ time' >= time
  BY TimeGoesOn
<1>2. /\ UNCHANGED <<phase, load, file, replay, recording, clock, window, shown>>
      /\ UNCHANGED <<offset, paused, frozen, override>>
      /\ elapsed' = IF Live THEN 0 ELSE Min2(elapsed + 1, History)
      /\ gap' = IF Live THEN 0 ELSE Min2(gap + 1, History)
  BY DEF Tick, live_vars, history
<1>3. TypeOK'
  BY <1>1, <1>2, AppAssumption DEF AppInv, TypeOK, Min2
<1>4. NumbersOK' /\ ReplayOK' /\ PlayheadOnRecording'
  BY <1>1, <1>2, AppAssumption DEF AppInv, TypeOK, NumbersOK, ReplayOK, PlayheadOnRecording, Live
<1>5. ElapsedOK'
  BY <1>2, AppAssumption DEF AppInv, TypeOK, ElapsedOK, Live, Min2
<1>6. /\ time \in Int /\ time' \in Int /\ offset \in Int /\ frozen \in Int
      /\ clock \in Int /\ shown \in Int \cup {NoReplay}
  BY <1>1, AppAssumption DEF AppInv, TypeOK, NumbersOK
<1>7. FrozenOK'
  <2>1. frozen <= time' + offset
    BY <1>1, <1>6, SumGrows DEF AppInv, FrozenOK
  <2>2. frozen <= time'
    BY <1>1, <1>6 DEF AppInv, FrozenOK
  <2>3. (Live /\ phase = "events" /\ frozen # 0 => paused)'
    BY <1>2 DEF AppInv, FrozenOK, Live
  <2>. QED
    BY <1>2, <2>1, <2>2, <2>3 DEF FrozenOK
<1>8. ClockOK'
  <2>1. shown # NoReplay => clock <= time' + shown
    BY <1>1, <1>6, SumGrows DEF AppInv, ClockOK
  <2>. QED
    BY <1>2, <2>1 DEF AppInv, ClockOK
<1>. QED
  BY <1>3, <1>4, <1>5, <1>7, <1>8 DEF AppInv

(* A finished load is applied in one go: from then on the playhead is at    *)
(* the start of the recording that was opened. *)
LEMMA PollKeeps == ASSUME AppInv, Poll PROVE AppInv'
<1>1. /\ phase' = "clock"
      /\ UNCHANGED <<time, elapsed, gap, file, recording, clock, window, shown>>
      /\ UNCHANGED <<offset, paused, frozen, override>>
  BY DEF Poll, Frame, time_vars, live_vars
<1>2. CASE UNCHANGED replay /\ load' \in {load, "none"}
  BY <1>1, <1>2, AppAssumption DEF AppInv, TypeOK, NumbersOK, ReplayOK, ElapsedOK,
     FrozenOK, ClockOK, PlayheadOnRecording, Live
<1>3. CASE Loaded
  <2>1. file \in Recordings /\ load' = "none" /\ Live
    BY <1>3 DEF Loaded, AppInv, ReplayOK
  <2>2. replay' \in PlaybackClock /\ replay'.pos = 0
    BY <1>3 DEF Loaded, PlaybackClock
  <2>3. TypeOK' /\ NumbersOK'
    BY <1>1, <2>1 DEF AppInv, TypeOK, NumbersOK
  <2>4. ReplayOK'
    BY <1>1, <2>1, <2>2 DEF ReplayOK
  <2>5. ElapsedOK'
    BY <1>1, <2>1 DEF AppInv, ElapsedOK
  <2>6. FrozenOK' /\ ClockOK'
    BY <1>1, <2>1 DEF AppInv, FrozenOK, ClockOK
  <2>7. PlayheadOnRecording'
    BY <1>1, <2>1, <2>2, SpanCovers DEF PlayheadOnRecording, Span
  <2>. QED
    BY <2>3, <2>4, <2>5, <2>6, <2>7 DEF AppInv
<1>. QED
  BY <1>2, <1>3 DEF Poll, NotLoaded, LoadFailed

(* The worker of a load is the only one to write its outcome. *)
LEMMA WorkerKeeps == ASSUME AppInv, WorkerEnds PROVE AppInv'
BY DEF WorkerEnds, time_vars, live_vars, history, AppInv, TypeOK, NumbersOK, ReplayOK,
   ElapsedOK, FrozenOK, ClockOK, PlayheadOnRecording, Live
(* The playhead moves by the time that passed and stops on the recording.   *)
LEMMA PlayheadAdvances ==
  ASSUME NEW r \in PlaybackClock, elapsed \in Nat, file \in Recordings,
         r.pos \in 0..Span(file)
  PROVE  LET a == Advanced(r)
         IN /\ a \in PlaybackClock /\ a.pos \in 0..Span(file)
            /\ a.playing => a.pos < file.dur
            /\ a.pos <= r.pos + r.speed * elapsed
<1>. DEFINE far == r.pos + r.speed * elapsed
            pos == Min2(far, file.dur)
            on == pos < file.dur
            moved == [r EXCEPT !.pos = pos, !.playing = on]
<1>1. r.speed * elapsed \in Nat
  BY DEF PlaybackClock
<1>2. far \in Nat /\ far >= r.pos /\ r.pos \in Nat
  BY <1>1 DEF PlaybackClock
<1>. HIDE DEF far
<1>3. pos \in 0..Span(file) /\ pos <= far /\ pos \in Nat
  BY <1>2, SpanCovers DEF Min2
<1>4. CASE ~r.playing
  BY <1>1, <1>2, <1>4 DEF Advanced, far
<1>5. CASE r.playing
  <2>1. Advanced(r) = moved
    BY <1>5 DEF Advanced, far
  <2>2. on \in BOOLEAN /\ (on => pos < file.dur)
    OBVIOUS
  <2>. HIDE DEF pos, on
  <2>3. moved \in PlaybackClock /\ moved.pos = pos /\ moved.playing = on
    BY <1>3, <2>2 DEF PlaybackClock
  <2>. QED
    BY <1>3, <2>1, <2>2, <2>3 DEF far
<1>. QED
  BY <1>4, <1>5 DEF PlaybackClock

(* A frame in Live draws the time of the view, one in a replay that of the  *)
(* playhead. *)
LEMMA ClockStepKeeps == ASSUME AppInv, ClockStep PROVE AppInv'
<1>1. /\ phase = "clock" /\ phase' = "events" /\ gap' = 0
      /\ shown' = IF Live THEN offset ELSE NoReplay
      /\ UNCHANGED <<time, load, file, recording, window, before>>
      /\ AdvancePlayback /\ SyncView /\ PublishClock
  BY DEF ClockStep, Frame
<1>2. /\ time \in Int /\ offset \in Int /\ frozen \in Int /\ override \in Int
      /\ clock \in Int /\ elapsed \in Int /\ time > History /\ time <= MaxTime
      /\ -History <= offset /\ offset <= 0 /\ paused \in BOOLEAN
      /\ History \in Int /\ MaxTime \in Int
  BY AppAssumption DEF AppInv, TypeOK, NumbersOK
<1>3. CASE Live
  <2>1. UNCHANGED <<replay, elapsed>>
    BY <1>1, <1>3 DEF AdvancePlayback
  <2>2. UNCHANGED <<offset, paused>> /\ frozen' = Captured
        /\ override' = IF paused THEN frozen' ELSE IF offset # 0 THEN time + offset ELSE 0
    BY <1>1, <1>3 DEF SyncView
  <2>3. clock' = IF override' # 0 THEN override' ELSE time
    BY <1>1, <1>3 DEF PublishClock
  <2>4. time + offset > 0 /\ time + offset <= time /\ frozen <= time + offset
        /\ 0 <= frozen
    BY <1>2 DEF AppInv, TypeOK, FrozenOK
  <2>5. /\ frozen' \in 0..MaxTime /\ override' \in 0..MaxTime
        /\ clock' \in Int /\ clock' <= time + offset /\ frozen' <= time + offset
        /\ frozen' # 0 => paused /\ clock' = frozen'
    <3>1. CASE ~paused
      <4>1. frozen' = 0 /\ override' = IF offset # 0 THEN time + offset ELSE 0
        BY <3>1, <2>2 DEF Captured
      <4>2. clock' = time + offset
        BY <4>1, <2>3, <2>4, <1>2
      <4>. QED
        BY <4>1, <4>2, <2>4, <1>2
    <3>2. CASE paused /\ frozen = 0
      <4>1. frozen' = time + offset /\ override' = time + offset
        BY <3>2, <2>2 DEF Captured
      <4>. QED
        BY <3>2, <4>1, <2>3, <2>4, <1>2
    <3>3. CASE paused /\ frozen # 0
      <4>1. frozen' = frozen /\ override' = frozen
        BY <3>3, <2>2 DEF Captured
      <4>. QED
        BY <3>3, <4>1, <2>3, <2>4, <1>2
    <3>. QED
      BY <3>1, <3>2, <3>3
  <2>6. TypeOK' /\ NumbersOK'
    BY <1>1, <1>2, <1>3, <2>1, <2>2, <2>5 DEF AppInv, TypeOK, NumbersOK
  <2>7. FrozenOK' /\ ClockOK'
    BY <1>1, <1>2, <1>3, <2>2, <2>4, <2>5 DEF FrozenOK, ClockOK
  <2>8. ReplayOK' /\ ElapsedOK' /\ PlayheadOnRecording'
    BY <1>1, <1>3, <2>1 DEF AppInv, ReplayOK, ElapsedOK, PlayheadOnRecording, Live
  <2>. QED
    BY <2>6, <2>7, <2>8 DEF AppInv
<1>4. CASE ~Live
  <2>1. UNCHANGED <<offset, paused, frozen, override>> /\ elapsed' = 0
        /\ replay' = Advanced(replay) /\ clock' = replay'.pos
    BY <1>1, <1>4 DEF AdvancePlayback, SyncView, PublishClock, live_vars, ElapsedReset
  <2>2. replay \in PlaybackClock /\ file \in Recordings /\ load = "none"
        /\ replay.pos \in 0..Span(file)
    BY <1>4 DEF AppInv, ReplayOK, Live, PlayheadOnRecording
  <2>3. /\ replay' \in PlaybackClock /\ replay'.pos \in 0..Span(file)
        /\ replay'.playing => replay'.pos < file.dur
    <3>1. elapsed \in Nat
      BY AppAssumption DEF AppInv, TypeOK
    <3>2. /\ Advanced(replay) \in PlaybackClock
          /\ Advanced(replay).pos \in 0..Span(file)
          /\ Advanced(replay).playing => Advanced(replay).pos < file.dur
      BY <2>2, <3>1, PlayheadAdvances
    <3>. QED
      BY <2>1, <3>2
  <2>4. replay'.pos \in Int /\ 0 \in 0..History
    BY <2>3, <1>2, AppAssumption DEF PlaybackClock
  <2>5. TypeOK' /\ NumbersOK'
    BY <1>1, <1>4, <2>1, <2>4 DEF AppInv, TypeOK, NumbersOK
  <2>6. ReplayOK' /\ ElapsedOK'
    BY <1>1, <2>1, <2>2, <2>3 DEF ReplayOK, ElapsedOK
  <2>7. FrozenOK' /\ ClockOK'
    BY <1>1, <1>4, <2>1, <2>3, AppAssumption DEF AppInv, FrozenOK, ClockOK, Live
  <2>8. PlayheadOnRecording'
    BY <1>1, <2>3 DEF PlayheadOnRecording, Span
  <2>. QED
    BY <2>5, <2>6, <2>7, <2>8 DEF AppInv
<1>. QED
  BY <1>3, <1>4
-----------------------------------------------------------------------------
(* The events of the user. *)

(* Whatever is not one of the clocks leaves their parts of the invariant.   *)
LEMMA EventKeepsClocks ==
  ASSUME AppInv, phase' = "poll", UNCHANGED <<time, elapsed, gap, frozen, clock, shown>>,
         offset' \in -History..0, frozen <= time' + offset', Live' => Live
  PROVE  NumbersOK' /\ ElapsedOK' /\ FrozenOK' /\ ClockOK'
<1>1. NumbersOK' /\ ClockOK'
  BY DEF AppInv, NumbersOK, ClockOK
<1>2. ElapsedOK'
  BY DEF AppInv, ElapsedOK
<1>3. FrozenOK'
  BY DEF AppInv, FrozenOK
<1>. QED
  BY <1>1, <1>2, <1>3

(* The menu and the toolbar of Live leave the replay alone. *)
LEMMA LiveEventKeeps ==
  ASSUME AppInv,
         NoEvent \/ LoadLayout \/ SetWindow \/ TogglePause \/ Scrub
         \/ StartRecording \/ StopRecording \/ OpenRecording
  PROVE  AppInv'
<1>1. /\ phase = "events" /\ phase' = "poll"
      /\ UNCHANGED <<time, elapsed, gap, replay, frozen, override, clock, shown>>
  BY DEF NoEvent, LoadLayout, SetWindow, TogglePause, Scrub, StartRecording,
     StopRecording, OpenRecording, Event, Frame, time_vars, live_vars, history
<1>2. offset' \in -History..0 /\ paused' \in BOOLEAN /\ recording' \in BOOLEAN
  BY DEF AppInv, TypeOK, NoEvent, LoadLayout, SetWindow, TogglePause, Scrub,
     StartRecording, StopRecording, OpenRecording, time_vars, live_vars, history
<1>3. offset' = offset \/ frozen = 0
  BY DEF AppInv, FrozenOK, NoEvent, LoadLayout, SetWindow, TogglePause, Scrub,
     StartRecording, StopRecording, OpenRecording, Event, Frame, time_vars, live_vars,
     history
<1>4. \/ UNCHANGED <<file, load>>
      \/ Live /\ file' \in Recordings /\ load' = "working"
  BY DEF NoEvent, LoadLayout, SetWindow, TogglePause, Scrub,
     StartRecording, StopRecording, OpenRecording, time_vars, live_vars, history
<1>5. frozen <= time' + offset'
  BY <1>1, <1>2, <1>3, AppAssumption DEF AppInv, TypeOK, NumbersOK, FrozenOK
<1>6. TypeOK'
  BY <1>1, <1>2, <1>4 DEF AppInv, TypeOK
<1>7. NumbersOK' /\ ElapsedOK' /\ FrozenOK' /\ ClockOK'
  BY <1>1, <1>2, <1>5, EventKeepsClocks DEF Live
<1>8. ReplayOK' /\ PlayheadOnRecording'
  BY <1>1, <1>4 DEF AppInv, ReplayOK, PlayheadOnRecording, Live, Span
<1>. QED
  BY <1>6, <1>7, <1>8 DEF AppInv

(* The controls of a replay move the playhead on the recording only. *)
LEMMA TransportKeeps ==
  ASSUME AppInv, NEW r \in PlaybackClock, Transport(r), r.pos \in 0..Span(file)
  PROVE  AppInv'
<1>1. /\ phase = "events" /\ phase' = "poll" /\ ~Live /\ replay' = r
      /\ UNCHANGED <<time, elapsed, gap, load, file, recording, clock, shown>>
      /\ UNCHANGED <<offset, paused, frozen, override>>
  BY DEF Transport, Event, Frame, time_vars, live_vars, history
<1>2. ~Live'
  BY <1>1, AppAssumption DEF Live
<1>3. TypeOK'
  BY <1>1 DEF AppInv, TypeOK
<1>4. NumbersOK' /\ ElapsedOK' /\ FrozenOK' /\ ClockOK'
  BY <1>1, <1>2, EventKeepsClocks DEF AppInv, TypeOK, FrozenOK
<1>5. ReplayOK'
  BY <1>1 DEF AppInv, ReplayOK
<1>6. PlayheadOnRecording'
  BY <1>1 DEF PlayheadOnRecording, Span
<1>. QED
  BY <1>3, <1>4, <1>5, <1>6 DEF AppInv

(* Play and pause, the speed, the slider and the zoom to the whole. *)
LEMMA ReplayEventKeeps ==
  ASSUME AppInv, TogglePlay \/ SetSpeed \/ ScrubReplay \/ ZoomFull
  PROVE  AppInv'
<1>1. ~Live
  BY DEF TogglePlay, SetSpeed, ScrubReplay, ZoomFull, Transport
<1>2. replay \in PlaybackClock /\ file \in Recordings /\ replay.pos \in 0..Span(file)
  BY <1>1 DEF AppInv, ReplayOK, Live, PlayheadOnRecording
<1>3. CASE TogglePlay
  <2>1. [replay EXCEPT !.playing = ~@] \in PlaybackClock
        /\ [replay EXCEPT !.playing = ~@].pos = replay.pos
    BY <1>2 DEF PlaybackClock
  <2>. QED
    BY <1>2, <1>3, <2>1, TransportKeeps DEF TogglePlay
<1>4. CASE SetSpeed
  <2>1. PICK s \in Speeds : Transport([replay EXCEPT !.speed = s])
    BY <1>4 DEF SetSpeed
  <2>2. [replay EXCEPT !.speed = s] \in PlaybackClock
        /\ [replay EXCEPT !.speed = s].pos = replay.pos
    BY <1>2, AppAssumption DEF PlaybackClock
  <2>. QED
    BY <1>2, <2>1, <2>2, TransportKeeps
<1>5. ASSUME NEW p \in 0..Span(file), Transport([replay EXCEPT !.pos = p])
      PROVE  AppInv'
  <2>1. [replay EXCEPT !.pos = p] \in PlaybackClock /\ [replay EXCEPT !.pos = p].pos = p
    BY <1>2, SpanCovers DEF PlaybackClock
  <2>. QED
    BY <1>5, <2>1, TransportKeeps
<1>6. CASE ScrubReplay
  BY <1>5, <1>6 DEF ScrubReplay
<1>7. CASE ZoomFull
  <2>1. Span(file) \in 0..Span(file)
    BY <1>2, SpanCovers
  <2>. QED
    BY <1>5, <1>7, <2>1 DEF ZoomFull
<1>. QED
  BY <1>3, <1>4, <1>6, <1>7

(* Back in Live the view follows the wall clock again, at once. *)
LEMMA CloseKeeps == ASSUME AppInv, CloseReplay PROVE AppInv'
<1>1. /\ phase = "events" /\ phase' = "poll" /\ ~Live /\ Live'
      /\ offset' = 0 /\ paused' = FALSE /\ elapsed' = 0
      /\ UNCHANGED <<time, gap, load, file, recording, frozen, override, clock, shown>>
  BY DEF CloseReplay, Event, Frame, Live, history
<1>2. 0 \in -History..0 /\ 0 \in 0..History
  BY AppAssumption
<1>3. paused' \in BOOLEAN
  BY <1>1
<1>4. TypeOK'
  BY <1>1, <1>2, <1>3 DEF AppInv, TypeOK
<1>5. NumbersOK' /\ ElapsedOK'
  BY <1>1 DEF AppInv, NumbersOK, ElapsedOK
<1>6. FrozenOK' /\ ClockOK'
  BY <1>1, AppAssumption DEF AppInv, TypeOK, FrozenOK, ClockOK
<1>7. ReplayOK' /\ PlayheadOnRecording'
  BY <1>1 DEF AppInv, ReplayOK, PlayheadOnRecording, Live
<1>. QED
  BY <1>4, <1>5, <1>6, <1>7 DEF AppInv

(* The program exits with whatever it was doing. *)
LEMMA ExitKeeps == ASSUME AppInv, Exit \/ UNCHANGED vars PROVE AppInv'
<1>1. /\ phase' \in {phase, "exited"}
      /\ UNCHANGED <<time, elapsed, gap, load, file, replay, recording, clock, shown>>
      /\ UNCHANGED <<offset, paused, frozen, override>>
  BY DEF Exit, Frame, vars, time_vars, live_vars, history
<1>2. TypeOK' /\ NumbersOK' /\ ReplayOK' /\ ElapsedOK'
  BY <1>1 DEF AppInv, TypeOK, NumbersOK, ReplayOK, ElapsedOK, Live
<1>3. FrozenOK' /\ ClockOK' /\ PlayheadOnRecording'
  BY <1>1 DEF AppInv, FrozenOK, ClockOK, PlayheadOnRecording, Live, Span
<1>. QED
  BY <1>2, <1>3 DEF AppInv

(* Every step of a frame, and everything that happens between two, keeps    *)
(* the invariant. *)
LEMMA AppStep == AppInv /\ [Next]_vars => AppInv'
<1>. SUFFICES ASSUME AppInv, [Next]_vars PROVE AppInv'
  OBVIOUS
<1>1. CASE Tick
  BY <1>1, TickKeeps
<1>2. CASE WorkerEnds
  BY <1>2, WorkerKeeps
<1>3. CASE Poll
  BY <1>3, PollKeeps
<1>4. CASE ClockStep
  BY <1>4, ClockStepKeeps
<1>5. CASE UserEvent
  BY <1>5, LiveEventKeeps, ReplayEventKeeps, CloseKeeps, ExitKeeps DEF UserEvent
<1>6. CASE UNCHANGED vars
  BY <1>6, ExitKeeps
<1>. QED
  BY <1>1, <1>2, <1>3, <1>4, <1>5, <1>6 DEF Next, Exited

(* The invariant holds of every behaviour. *)
LEMMA AppInvariant == Spec => []AppInv
BY AppInit, AppStep, PTL DEF Spec
-----------------------------------------------------------------------------
(* The state of a frame is well typed: no view is scrubbed further back     *)
(* than the history, none is paused in the future. *)
THEOREM AppTypeCorrect == Spec => []TypeOK
<1>1. AppInv => TypeOK
  BY DEF AppInv
<1>. QED
  BY <1>1, AppInvariant, PTL

(* Neither the controls, a late frame nor a recording of a single instant   *)
(* takes the playhead off the recording, and none is drawn with the clock   *)
(* running at its end. *)
THEOREM PlayheadStaysOnRecording == Spec => []PlayheadOnRecording
<1>1. AppInv => PlayheadOnRecording
  BY DEF AppInv
<1>. QED
  BY <1>1, AppInvariant, PTL

(* A pause, however often repeated, takes no sample from the view that was  *)
(* drawn, and none comes until it ends. *)
THEOREM LiveClockIsSteady == Spec => LiveClockSteady
<1>1. ASSUME AppInv, [Next]_vars
      PROVE  [phase = "clock" /\ phase' = "events" /\ shown' = shown /\ shown # NoReplay =>
                clock' >= clock /\ (paused /\ frozen # 0 => clock' = clock)]_vars
  <2>. SUFFICES ASSUME Next, phase = "clock", phase' = "events", shown' = shown,
                       shown # NoReplay
                PROVE  clock' >= clock /\ (paused /\ frozen # 0 => clock' = clock)
    BY <1>1
  <2>1. ClockStep
    BY DEF Next, Tick, WorkerEnds, Poll, Frame, UserEvent, NoEvent, LoadLayout, SetWindow,
       TogglePause, Scrub, StartRecording, StopRecording, OpenRecording, TogglePlay,
       SetSpeed, ScrubReplay, ZoomFull, Transport, CloseReplay, Exit, Event, Exited
  <2>2. Live /\ shown = offset
    BY <2>1 DEF ClockStep
  <2>3. /\ frozen' = Captured
        /\ override' = IF paused THEN frozen' ELSE IF offset # 0 THEN time + offset ELSE 0
        /\ clock' = IF override' # 0 THEN override' ELSE time
    BY <2>1, <2>2 DEF ClockStep, SyncView, PublishClock
  <2>4. /\ time \in Int /\ offset \in Int /\ frozen \in Int /\ clock \in Int
        /\ time + offset > 0 /\ clock <= time + offset /\ (frozen # 0 => clock = frozen)
    BY <1>1, <2>2, AppAssumption DEF AppInv, TypeOK, NumbersOK, ClockOK
  <2>5. CASE ~paused
    <3>1. override' = IF offset # 0 THEN time + offset ELSE 0
      BY <2>3, <2>5
    <3>. QED
      BY <2>3, <2>4, <2>5, <3>1
  <2>6. CASE paused /\ frozen = 0
    <3>1. override' = time + offset
      BY <2>3, <2>6 DEF Captured
    <3>. QED
      BY <2>3, <2>4, <2>6, <3>1
  <2>7. CASE paused /\ frozen # 0
    <3>1. override' = frozen
      BY <2>3, <2>7 DEF Captured
    <3>. QED
      BY <2>3, <2>4, <2>7, <3>1
  <2>. QED
    BY <2>5, <2>6, <2>7
<1>. QED
  BY <1>1, AppInvariant, PTL DEF Spec, LiveClockSteady

(* What a frame adds to the playhead is never more than the wall time since *)
(* the frame before, whatever was paused, loaded or closed in between. *)
THEOREM PlayheadIsPaced == Spec => PlayheadPaced
<1>1. ASSUME AppInv, [Next]_vars
      PROVE  [phase = "clock" /\ phase' = "events" /\ ~Live =>
                replay'.pos <= replay.pos + replay.speed * gap]_vars
  <2>. SUFFICES ASSUME Next, phase = "clock", phase' = "events", ~Live
                PROVE  replay'.pos <= replay.pos + replay.speed * gap
    BY <1>1
  <2>1. ClockStep
    BY DEF Next, Tick, WorkerEnds, Poll, Frame, UserEvent, NoEvent, LoadLayout, SetWindow,
       TogglePause, Scrub, StartRecording, StopRecording, OpenRecording, TogglePlay,
       SetSpeed, ScrubReplay, ZoomFull, Transport, CloseReplay, Exit, Event, Exited
  <2>2. replay' = Advanced(replay)
    BY <2>1 DEF ClockStep, AdvancePlayback
  <2>3. replay \in PlaybackClock /\ file \in Recordings /\ replay.pos \in 0..Span(file)
    BY <1>1 DEF AppInv, ReplayOK, Live, PlayheadOnRecording
  <2>4. elapsed \in Nat /\ gap \in Nat /\ elapsed <= gap
    BY <1>1, AppAssumption DEF AppInv, TypeOK, ElapsedOK
  <2>5. replay'.pos \in 0..Span(file) /\ replay'.pos <= replay.pos + replay.speed * elapsed
    BY <2>2, <2>3, <2>4, PlayheadAdvances
  <2>6. replay.speed * elapsed \in Nat /\ replay.speed * gap \in Nat
        /\ replay.speed * elapsed <= replay.speed * gap
    BY <2>3, <2>4, MoreTimeMoreWay DEF PlaybackClock
  <2>7. replay.pos \in Int /\ replay'.pos \in Int
    BY <2>3, <2>5, SpanCovers
  <2>. QED
    BY <2>5, <2>6, <2>7
<1>. QED
  BY <1>1, AppInvariant, PTL DEF Spec, PlayheadPaced

(* Both clocks keep to the user and to the time that passes, in live mode   *)
(* and in replays of any recording at any speed. *)
THEOREM ClocksAreSteady == Spec => ClocksSteady
BY LiveClockIsSteady, PlayheadIsPaced, PTL DEF ClocksSteady
=============================================================================
