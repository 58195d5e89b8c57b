-------------------------------- MODULE App ---------------------------------
(***************************************************************************)
(* One frame of the program (DataVisApp::update in src/app.rs): a finished *)
(* load is applied, the clocks of the live view and of the replay advance, *)
(* and one thing the user did is handled. The loader thread and the clock  *)
(* go on between any two of these steps.                                   *)
(*                                                                         *)
(* Times are ticks. What else a frame does has modules of its own: binding *)
(* of panels in Screens, the tree in ChannelTree, zoom in Panels, the files*)
(* in Config, recording in Recorder.                                       *)
(***************************************************************************)
EXTENDS Integers, FiniteSets, FiniteSetsExt

CONSTANTS
  Recordings,  \* what can be opened: records of names and dur
  History,     \* live_history_s
  Speeds,      \* playback speeds; a frame is long against their fractions
  Windows,     \* spans the user types
  NoReplay,
  MaxTime      \* bound: the wall clock is followed up to here

PlaybackClock == [pos: Nat, playing: BOOLEAN, speed: Nat]

ASSUME AppAssumption ==
  /\ \A r \in Recordings : r.dur \in Nat
  /\ History \in Nat \ {0} /\ MaxTime \in Nat /\ MaxTime > History
  /\ Speeds \subseteq Nat \ {0} /\ 1 \in Speeds
  /\ NoReplay \notin Recordings \cup PlaybackClock

VARIABLES
  phase,      \* the step of the frame: poll, clock, events, or exited
  time,       \* now_ns
  elapsed,    \* ticks since last_frame
  load,       \* pending_load: none, working, or what the worker sent
  file,       \* the recording being loaded or replayed
  replay,     \* AppMode::Replay with its clock, or NoReplay in AppMode::Live
  recording,  \* record_handle.is_some()
  offset,     \* live_view_offset_ns: 0, or below it when scrubbed back
  paused,     \* live_paused
  frozen,     \* live_pause_ns: 0 until the first paused frame
  override,   \* live_view_ns, which LiveStore::now_ns reads
  clock,      \* frame_clock: the time the panels draw with
  window,     \* default_window_s
  shown,      \* history: the offset the last frame was drawn with, or NoReplay
  gap,        \* history: ticks since the last frame
  before      \* history: default_window_s when the replay was entered

time_vars == <<time, elapsed, gap>>
live_vars == <<offset, paused, frozen, override>>
history == <<shown, before>>
vars == <<phase, time_vars, load, file, replay, recording, live_vars, clock, window,
          history>>

Live == replay = NoReplay
Span(r) == Max({r.dur, 1})
Min2(a, b) == IF a < b THEN a ELSE b

TypeOK ==
  /\ phase \in {"poll", "clock", "events", "exited"}
  /\ time \in 0..MaxTime /\ elapsed \in 0..History
  /\ load \in {"none", "working", "ok", "err", "gone"}
  /\ recording \in BOOLEAN /\ paused \in BOOLEAN
  /\ offset \in -History..0 /\ frozen \in 0..MaxTime /\ override \in 0..MaxTime

Init ==
  /\ phase = "poll" /\ time = History + 1 /\ elapsed = 0
  /\ load = "none" /\ file = NoReplay /\ replay = NoReplay /\ recording = FALSE
  /\ offset = 0 /\ paused = FALSE /\ frozen = 0 /\ override = 0 /\ clock = time
  /\ window \in Windows
  /\ shown = 0 /\ gap = 0 /\ before = window

-----------------------------------------------------------------------------
(* The rest of the program. *)

(* Timers go on after the wall clock is no longer followed. *)
Tick ==
  /\ time' = Min2(time + 1, MaxTime)
  /\ elapsed' = IF Live THEN 0 ELSE Min2(elapsed + 1, History)
  /\ gap' = IF Live THEN 0 ELSE Min2(gap + 1, History)
  /\ UNCHANGED <<phase, load, file, replay, recording, live_vars, clock, window,
                 history>>

(* The worker sends the store, an error, or nothing when it panics. *)
WorkerEnds ==
  /\ load = "working"
  /\ load' \in {"ok", "err", "gone"}
  /\ UNCHANGED <<phase, time_vars, file, replay, recording, live_vars, clock,
                 window, history>>

-----------------------------------------------------------------------------
(* poll_pending_load *)

Frame(from, to) == phase = from /\ phase' = to

NotLoaded ==
  /\ load \in {"none", "working"}
  /\ UNCHANGED <<load, replay>>

(* Replay starts paused, at the start of the recording. *)
Loaded ==
  /\ load = "ok" /\ load' = "none"
  /\ replay' = [pos |-> 0, playing |-> FALSE, speed |-> 1]

LoadFailedByError == load = "err" /\ load' = "none" /\ UNCHANGED replay

LoadFailed ==
  /\ load \in {"err", "gone"} /\ load' = "none"
  /\ UNCHANGED replay

Poll ==
  /\ Frame("poll", "clock")
  /\ NotLoaded \/ Loaded \/ LoadFailed
  /\ before' = IF load = "ok" THEN window ELSE before
  /\ UNCHANGED <<time_vars, file, recording, live_vars, clock, window, shown>>

-----------------------------------------------------------------------------
(* The clocks of the frame. *)

AdvancedByTime(r) == [r EXCEPT !.pos = @ + r.speed * elapsed, !.playing = TRUE]

(* The playhead moves by what passed since the last frame and stops, with   *)
(* the clock, at the end. *)
Advanced(r) ==
  IF ~r.playing THEN r
  ELSE LET pos == Min2(r.pos + r.speed * elapsed, file.dur)
       IN [r EXCEPT !.pos = pos, !.playing = pos < file.dur]

ElapsedWhilePlaying(r) == IF r.playing THEN 0 ELSE elapsed
ElapsedReset(r) == 0

AdvancePlayback ==
  IF Live THEN UNCHANGED <<replay, elapsed>>
  ELSE replay' = Advanced(replay) /\ elapsed' = ElapsedReset(replay)

CapturedOnce == IF paused /\ frozen = 0 THEN time + offset ELSE frozen
Captured == IF paused THEN IF frozen = 0 THEN time + offset ELSE frozen ELSE 0

(* The instant of a pause is captured by its first frame and forgotten by   *)
(* the first frame after it. *)
SyncView ==
  IF ~Live THEN UNCHANGED live_vars
  ELSE /\ frozen' = Captured
       /\ override' = IF paused THEN frozen' ELSE IF offset # 0 THEN time + offset ELSE 0
       /\ UNCHANGED <<offset, paused>>

PublishClock ==
  clock' = IF ~Live THEN replay'.pos ELSE IF override' # 0 THEN override' ELSE time

ClockStep ==
  /\ Frame("clock", "events")
  /\ AdvancePlayback /\ SyncView /\ PublishClock
  /\ shown' = IF Live THEN offset ELSE NoReplay
  /\ gap' = 0
  /\ UNCHANGED <<time, load, file, recording, window, before>>

-----------------------------------------------------------------------------
(* What the user does in the menu bar and the toolbar.                      *)

Event == Frame("events", "poll")

NoEvent ==
  /\ Event
  /\ UNCHANGED <<time_vars, load, file, replay, recording, live_vars, clock,
                 window, history>>

(* Any layout file. *)
LoadLayout ==
  /\ Event /\ window' \in Windows
  /\ UNCHANGED <<time_vars, load, file, replay, recording, live_vars, clock,
                 history>>

SetWindow ==
  /\ Event /\ window' \in Windows
  /\ UNCHANGED <<time_vars, load, file, replay, recording, live_vars, clock,
                 history>>

TogglePause ==
  /\ Event /\ Live /\ paused' = ~paused
  /\ UNCHANGED <<time_vars, load, file, replay, recording, offset, frozen,
                 override, clock, window, history>>

(* The slider is disabled while the view is paused. *)
Scrub ==
  /\ Event /\ Live /\ ~paused /\ offset' \in -History..0
  /\ UNCHANGED <<time_vars, load, file, replay, recording, paused, frozen,
                 override, clock, window, history>>

(* Fails without a source and when the file cannot be created. *)
StartRecording ==
  /\ Event /\ Live /\ ~recording
  /\ recording' \in BOOLEAN
  /\ UNCHANGED <<time_vars, load, file, replay, live_vars, clock, window,
                 history>>

StopRecording ==
  /\ Event /\ Live /\ recording
  /\ recording' = FALSE
  /\ UNCHANGED <<time_vars, load, file, replay, live_vars, clock, window,
                 history>>

(* The button is there while nothing is recorded; one load at a time.       *)
OpenRecording ==
  /\ Event /\ Live /\ ~recording
  /\ IF load = "none"
     THEN file' \in Recordings /\ load' = "working"
     ELSE UNCHANGED <<file, load>>
  /\ UNCHANGED <<time_vars, replay, recording, live_vars, clock, window, history>>

(* The controls of a replay. *)
Transport(r) ==
  /\ Event /\ ~Live /\ replay' = r
  /\ UNCHANGED <<time_vars, load, file, recording, live_vars, clock, history>>

TogglePlay == Transport([replay EXCEPT !.playing = ~@]) /\ UNCHANGED window
SetSpeed == \E s \in Speeds : Transport([replay EXCEPT !.speed = s]) /\ UNCHANGED window
ScrubReplay ==
  ~Live /\ \E p \in 0..Span(file) : Transport([replay EXCEPT !.pos = p]) /\ UNCHANGED window
ZoomFull == Transport([replay EXCEPT !.pos = Span(file)]) /\ window' = Span(file)

CloseReplay ==
  /\ Event /\ ~Live
  /\ replay' = NoReplay
  /\ offset' = 0 /\ paused' = FALSE
  /\ elapsed' = 0
  /\ UNCHANGED <<time, gap, load, file, recording, frozen, override, clock,
                 window, history>>

(* Quit, or the window closed: the layout is saved, if it can be. Nothing   *)
(* else is ended. *)
Exit ==
  /\ Frame("events", "exited")
  /\ UNCHANGED <<time_vars, load, file, replay, recording, live_vars, clock,
                 window, history>>

-----------------------------------------------------------------------------
UserEvent ==
  \/ NoEvent \/ LoadLayout \/ SetWindow
  \/ TogglePause \/ Scrub \/ StartRecording \/ StopRecording \/ OpenRecording
  \/ TogglePlay \/ SetSpeed \/ ScrubReplay \/ ZoomFull \/ CloseReplay
  \/ Exit

Exited == phase = "exited" /\ UNCHANGED vars

Next ==
  \/ phase # "exited" /\ (Tick \/ WorkerEnds)
  \/ Poll \/ ClockStep \/ UserEvent \/ Exited

(* The heartbeat repaint draws a frame at least every 200 ms, whether the   *)
(* user does something or not. *)
Fairness == WF_vars(Poll) /\ WF_vars(ClockStep) /\ WF_vars(UserEvent)
            /\ WF_vars(phase # "exited" /\ Tick) /\ WF_vars(phase # "exited" /\ WorkerEnds)

Spec == Init /\ [][Next]_vars
FairSpec == Spec /\ Fairness

-----------------------------------------------------------------------------
(* Properties. *)

(* The time the panels draw with in Live: it never runs back unless the     *)
(* user scrubbed or came from a replay, so that no sample once drawn is     *)
(* taken away by a pause, and it stands still from the first paused frame   *)
(* to the last, however often the view is paused. *)
LiveClockSteady ==
  [][phase = "clock" /\ phase' = "events" /\ shown' = shown /\ shown # NoReplay =>
       clock' >= clock /\ (paused /\ frozen # 0 => clock' = clock)]_vars

(* The playhead stays on the recording, and no frame is drawn in which the  *)
(* clock still runs at its end. *)
PlayheadOnRecording ==
  ~Live => /\ replay.pos \in 0..Span(file)
           /\ phase = "events" /\ replay.playing => replay.pos < file.dur

(* The playhead moves by wall time: a frame that comes late moves it        *)
(* further, and the time spent paused or loading never. *)
PlayheadPaced ==
  [][phase = "clock" /\ phase' = "events" /\ ~Live =>
       replay'.pos <= replay.pos + replay.speed * gap]_vars

(* Both clocks keep to the user and to the time that passes. *)
ClocksSteady == LiveClockSteady /\ PlayheadPaced

(* A load comes to an end, also when its worker is gone without a word: as  *)
(* long as one is pending no other can be started. *)
LoadEnds == load # "none" ~> (load = "none" \/ phase = "exited")

(* "Your pre-replay channel tree and layout are restored" when a replay is  *)
(* closed (recording/playback.md). *)
LayoutRestored == [][~Live /\ replay' = NoReplay => window' = before]_vars

(* "Stop recording before opening a file": nothing is recorded while the    *)
(* controls of a replay hide the stop button. *)
StopWithinReach == recording => Live
=============================================================================
