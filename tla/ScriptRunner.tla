---------------------------- MODULE ScriptRunner ----------------------------
(***************************************************************************)
(* One running script (ScriptRunner::tick_rec, src/script/runner.rs): each *)
(* tick reads a window of every input, runs the script on them and appends *)
(* the samples it returns that are newer than the last one written. Inputs *)
(* grow under the tick: the windows are snapshots taken one after another. *)
(*                                                                         *)
(* A sample is its timestamp. The script returns one sample per sample of  *)
(* its first input (Map), or one for the whole window (Reduce). The engine *)
(* runs on the live store, which has no recording breaks. One output.      *)
(***************************************************************************)
EXTENDS Integers, Sequences, FiniteSets, SequencesExt, FiniteSetsExt

CONSTANTS
  Inputs,     \* how many inputs; they are numbered from 1
  Modes,      \* the modes tried: "map", "reduce"
  Window,     \* window_s
  Hop,        \* hop_ms, 0 when the script declares none
  Strict,     \* an input never repeats a timestamp
  MaxRebuilds, \* bound: edits of the instance, which build its runner anew
  MaxTime,    \* bound: the clock
  MaxSamples  \* bound: samples per input

VARIABLES
  mode,     \* meta.mode, fixed by the script
  now,      \* the clock
  data,     \* per input: the samples of its channel
  known,    \* inputs whose channel is registered
  pc, at, snaps, \* "idle" or "snap"; now and the windows of the tick under way
  cursor,   \* input_cursor
  lastHop,  \* last_hop_ns
  lastOut,  \* last_written
  state,    \* ScriptState
  out,      \* samples of the output channel
  fed, from, \* history: per input, the samples given to the script; first start
  rebuilt,   \* history: how often the runner was built anew
  runs, first \* history: how often compute ran to reduce, over all builds, and when at first

vars == <<mode, now, data, known, pc, at, snaps, cursor, lastHop, lastOut, state, out,
          fed, from, rebuilt, runs, first>>
inputs == <<now, data, known>>
tick == <<pc, at, snaps>>
runner == <<mode, cursor, lastHop, lastOut, state>>
history == <<fed, from, rebuilt, runs, first>>

Never == -(Window + 1)   \* i64::MIN: before any time a tick looks at

States == {"healthy", "waiting input", "waiting data", "failed"}

TypeOK ==
  /\ mode \in Modes /\ now \in Nat
  /\ \A i \in 1..Inputs : data[i] \in Seq(0..now)
  /\ known \subseteq 1..Inputs
  /\ pc \in {"idle", "snap"} /\ at \in 0..now
  /\ Len(snaps) \in 0..Inputs
  /\ \A i \in DOMAIN snaps : snaps[i] \subseteq DOMAIN data[i]
  /\ cursor \in {Never} \cup 0..now /\ lastHop \in {Never} \cup 0..now
  /\ lastOut \in {Never} \cup 0..now
  /\ state \in States
  /\ out \in Seq(0..now)
  /\ \A i \in 1..Inputs : fed[i] \subseteq DOMAIN data[i]
  /\ rebuilt \in 0..MaxRebuilds
  /\ runs \in Nat /\ first \in {Never} \cup 0..now

Init ==
  /\ mode \in Modes
  /\ now = 0 /\ data = [i \in 1..Inputs |-> << >>] /\ known = {}
  /\ pc = "idle" /\ at = 0 /\ snaps = << >>
  /\ cursor = Never /\ lastHop = Never /\ lastOut = Never /\ state = "healthy"
  /\ out = << >>
  /\ fed = [i \in 1..Inputs |-> {}] /\ from = Never /\ rebuilt = 0
  /\ runs = 0 /\ first = Never

-----------------------------------------------------------------------------
(* The inputs: a sample may be late, but never older than the one before. *)

Pass ==
  /\ now < MaxTime /\ now' = now + 1
  /\ UNCHANGED <<data, known, tick, runner, out, history>>

Push(i) ==
  /\ Len(data[i]) < MaxSamples
  /\ \E ts \in 0..now :
       /\ data[i] # << >> => IF Strict THEN ts > Last(data[i]) ELSE ts >= Last(data[i])
       /\ data' = [data EXCEPT ![i] = Append(@, ts)]
  /\ known' = known \cup {i}
  /\ UNCHANGED <<now, tick, runner, out, history>>

-----------------------------------------------------------------------------
(* tick_rec *)

Idle == pc = "idle" /\ state # "failed"

MissingInput ==
  /\ Idle /\ known # 1..Inputs
  /\ state' = "waiting input"
  /\ UNCHANGED <<inputs, mode, tick, cursor, lastHop, lastOut, out, history>>

ThrottledOneShort == mode = "reduce" /\ Hop # 0 /\ lastHop # Never /\ now - lastHop < Hop - 1

Throttled == mode = "reduce" /\ Hop # 0 /\ lastHop # Never /\ now - lastHop < Hop

Begin ==
  /\ Idle /\ known = 1..Inputs /\ ~Throttled
  /\ pc' = "snap" /\ at' = now /\ snaps' = << >>
  /\ UNCHANGED <<inputs, runner, out, history>>

(* The window starts after the cursor, or window_s before now at first and  *)
(* whenever the script reduces; it ends with the clock of the tick. *)
FeedFrom == IF mode = "map" /\ cursor # Never THEN cursor + 1 ELSE at - Window

Snapshot ==
  /\ pc = "snap" /\ Len(snaps) < Inputs
  /\ LET i == Len(snaps) + 1 IN
       snaps' = Append(snaps, {k \in DOMAIN data[i] : FeedFrom <= data[i][k] /\ data[i][k] <= at})
  /\ UNCHANGED <<inputs, pc, at, runner, out, history>>

NoData ==
  /\ pc = "snap" /\ Len(snaps) = Inputs
  /\ \E i \in 1..Inputs : snaps[i] = {}
  /\ pc' = "idle" /\ state' = "waiting data"
  /\ UNCHANGED <<inputs, mode, at, snaps, cursor, lastHop, lastOut, out, history>>

HasData == pc = "snap" /\ Len(snaps) = Inputs /\ \A i \in 1..Inputs : snaps[i] # {}

Feed ==
  /\ fed' = [i \in 1..Inputs |-> fed[i] \cup snaps[i]]
  /\ from' = IF from = Never THEN FeedFrom ELSE from
  /\ IF mode = "reduce"
       THEN runs' = runs + 1 /\ first' = IF runs = 0 THEN at ELSE first
       ELSE UNCHANGED <<runs, first>>

(* compute raised, or returned outputs of the wrong number or length. *)
RunFails ==
  /\ HasData
  /\ pc' = "idle" /\ state' = "failed"
  /\ Feed
  /\ UNCHANGED <<inputs, mode, at, snaps, cursor, lastHop, lastOut, out, rebuilt>>

(* The last sample of an input's window. *)
Newest(i) == data[i][Max(snaps[i])]

(* What the script answers with: a sample for each of its first input, or   *)
(* one. *)
Batch == IF mode = "map" THEN snaps[1] ELSE {Max(snaps[1])}

Repeats(ts) == ts >= lastOut
SkipsNext(ts) == ts > lastOut + 1

(* The dedup: only samples newer than the last one written are appended. *)
Newer(ts) == ts > lastOut

Fresh == {k \in Batch : Newer(data[1][k]) /\ \A j \in Batch : j < k => data[1][j] < data[1][k]}

InOrder(ks) ==
  CHOOSE s \in [1..Cardinality(ks) -> ks] : \A a, b \in DOMAIN s : a < b => s[a] < s[b]

AdvancedNewest == Max({Newest(i) : i \in 1..Inputs})

(* The cursor moves to the newest sample of the input that lags most. *)
Advanced == Min({Newest(i) : i \in 1..Inputs})

(* With a slip: only a run that published something counts. *)
TakeHopOfFresh == lastHop' = IF mode = "map" \/ Fresh = {} THEN lastHop ELSE at

TakeHop == lastHop' = IF mode = "map" THEN lastHop ELSE at

Run ==
  /\ HasData
  /\ LET new == InOrder(Fresh) IN out' = out \o [n \in DOMAIN new |-> data[1][new[n]]]
  /\ lastOut' = IF Fresh = {} THEN lastOut ELSE data[1][Max(Fresh)]
  /\ cursor' = IF mode = "map" THEN Advanced ELSE cursor
  /\ TakeHop
  /\ state' = "healthy" /\ pc' = "idle"
  /\ Feed
  /\ UNCHANGED <<inputs, mode, at, snaps, rebuilt>>

(* load_into: a command between two ticks replaces the runner. *)
Rebuild ==
  /\ rebuilt < MaxRebuilds /\ rebuilt' = rebuilt + 1 /\ pc = "idle"
  /\ cursor' = Never /\ lastHop' = Never /\ lastOut' = Never /\ state' = "healthy"
  /\ fed' = [i \in 1..Inputs |-> {}] /\ from' = Never
  /\ UNCHANGED <<inputs, mode, tick, out, runs, first>>

-----------------------------------------------------------------------------
Next ==
  \/ Pass \/ \E i \in 1..Inputs : Push(i)
  \/ MissingInput \/ Begin \/ Snapshot \/ NoData \/ RunFails \/ Run
  \/ Rebuild

Spec == Init /\ [][Next]_vars

-----------------------------------------------------------------------------
(* Properties. *)

(* "a lagging input never has samples skipped": once the script has seen a  *)
(* sample of an input, it has seen every older one since its first window,  *)
(* though inputs progress at different rates and grow between snapshots.    *)
NothingSkipped ==
  mode = "map" =>
    \A i \in 1..Inputs : \A k \in fed[i] : \A j \in 1..k :
      data[i][j] >= from => j \in fed[i]

(* Until the runner is built anew, output timestamps strictly increase:      *)
(* samples fed again are absorbed by the dedup, whatever the inputs and the  *)
(* snapshots did. *)
OutputOnce == rebuilt = 0 => \A i \in 1..(Len(out) - 1) : out[i] < out[i + 1]

(* The ring of the output channel "assumes timestamps were pushed in        *)
(* non-decreasing order" (SoaRing::read_window), and searches by bisection. *)
OutputOrdered == \A i \in 1..(Len(out) - 1) : out[i] <= out[i + 1]

(* An element-wise script publishes one sample for each sample of its first *)
(* input that it was fed: what is fed twice is published once, and what is  *)
(* fed is published. *)
OutputComplete ==
  mode = "map" /\ state # "failed" /\ rebuilt = 0 =>
    ToSet(out) = {data[1][k] : k \in fed[1]}

(* Also across rebuilds, after which an element-wise script repeats its     *)
(* window, the output of a script that reduces stays in order: its window   *)
(* never ends before the one it was last run on.                            *)
ReducedOrdered == mode = "reduce" => OutputOrdered

(* "HOP_MS": over any number of ticks, failures and rebuilds, each of which *)
(* forgets when compute ran last, it runs at most once per hop and once     *)
(* more per rebuild. *)
ReducedPaced ==
  mode = "reduce" /\ runs > 0 => (runs - 1 - rebuilt) * Hop <= now - first
=============================================================================
