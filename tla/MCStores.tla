------------------------------ MODULE MCStores ------------------------------
(***************************************************************************)
(* What the panels read from, and when: the ring of a live channel         *)
(* (SoaRing), the parts of a recording (Playback), and the clock of the    *)
(* frame they are drawn in (App); one of the three in each behaviour.      *)
(***************************************************************************)
EXTENDS App, RingBounds, Sequences, SequencesExt

CONSTANTS
  p1, p2,
  Ends, ChunkBudget, CacheCap, Buckets, Workers

(* One recording holds a single instant.                                     *)
MCRecordings == {[dur |-> 0], [dur |-> 3]}

(* The smallest ring the code builds (16 slots, margin 2), pushed past one   *)
(* full lap. Timestamps come in equal pairs, so window edges fall between,   *)
(* before and after samples that share one.                                  *)
MCTsOf == [k \in 0..MaxPush |-> k \div 2]
MCOne == {p1}
MCTwo == {p1, p2}

ReadWindow(s, e) == [kind |-> "window", start |-> s, end |-> e, max |-> 0]
ReadRecent(n)    == [kind |-> "recent", start |-> 0, end |-> 0, max |-> n]
ReadLatest       == [kind |-> "latest", start |-> 0, end |-> 0, max |-> 0]

MCOps == {ReadLatest, ReadRecent(0), ReadRecent(3), ReadRecent(99),
          ReadWindow(0, 99), ReadWindow(2, 4)}

(* Small recordings: six messages at the times 0..5 in four chunks, dealt to *)
(* two files in every way.                                                   *)
Msg(log, ts, val) == [log |-> log, samples |-> <<[ts |-> ts, val |-> val]>>]
Other(log) == [log |-> log, samples |-> << >>]
At(t, val) == Msg(t, t, val)

(* The values at the six times; time 2 belongs to another channel. *)
Values == {<<1, 1, 0, 1, 2, 3>>, <<1, 2, 0, 3, 1, 3>>}
ChunksOf(v) == << <<At(0, v[1]), At(1, v[2])>>, <<Other(2)>>,
                  <<At(3, v[4]), At(4, v[5])>>, <<At(5, v[6])>> >>

Deal(v, in) ==
  [f \in {1, 2} |-> [i \in 1..Cardinality({c \in 1..4 : in[c] = f}) |->
                       ChunksOf(v)[SetToSortSeq({c \in 1..4 : in[c] = f}, <)[i]]]]

(* What every recording of sources that stamp and log the same time is.     *)
Parts == {Deal(v, in) : v \in Values,
                        in \in {g \in [1..4 -> {1, 2}] : {g[c] : c \in 1..4} = {1, 2}}}

(* Two recordings of overlapping periods. *)
Interleaved == {<< <<<<At(0, 1), At(3, 1)>>>>, <<<<At(1, 2), At(2, 2)>>>> >>}

(* A ZeroMQ source whose messages are logged when they arrive, at 3, after   *)
(* the time 1 they are stamped with. *)
LoggedLate == {<< <<<<Msg(3, 1, 1)>>, <<Msg(4, 2, 2)>>>> >>}

AllWindows == {[start |-> a, end |-> b] : a \in {0, 1, 3}, b \in {3, 6}}
SomeWindows == {w \in AllWindows : w.start < w.end}

(* A file has a chunk and a chunk a message; the samples of a chunk are in  *)
(* time order, which clip and last_le take for granted (partition_point). *)
ASSUME PlaybackAssumption ==
  /\ \A part \in Parts :
       /\ part # << >>
       /\ \A i \in DOMAIN part : part[i] # << >>
       /\ \A i \in DOMAIN part : \A k \in DOMAIN part[i] :
            LET stamps == FlattenSeq([j \in DOMAIN part[i][k] |->
                                        part[i][k][j].samples])
            IN /\ part[i][k] # << >>
               /\ \A j \in 1..(Len(stamps) - 1) : stamps[j].ts <= stamps[j + 1].ts
  /\ ChunkBudget \in Nat /\ CacheCap \in Nat
  /\ Buckets \in Nat \ {0} /\ Workers \subseteq Nat \ {0}

VARIABLES
  scene, \* which of the three
  ts, vals, head, made, prod, rd, log, answer,
  files, type, lru, retained, read, found

Ring     == INSTANCE SoaRing
Replayed == INSTANCE Playback WITH Recordings <- Parts, Windows <- SomeWindows, answer <- found

frame_vars == vars
ring_vars  == <<ts, vals, head, made, prod, rd, log, answer>>
part_vars  == <<files, type, lru, retained, read, found>>
all_vars   == <<scene, frame_vars, ring_vars, part_vars>>

StoresInit ==
  /\ scene \in {"frame", "ring", "parts"}
  /\ Init /\ Ring!Init /\ Replayed!Init
  /\ scene # "parts" => type = "text" /\ files = CHOOSE part \in Parts : TRUE

StoresNext ==
  /\ UNCHANGED scene
  /\ \/ scene = "frame" /\ Next /\ UNCHANGED <<ring_vars, part_vars>>
     \/ scene = "ring" /\ Ring!Next /\ UNCHANGED <<frame_vars, part_vars>>
     \/ scene = "parts" /\ Replayed!Next /\ UNCHANGED <<frame_vars, ring_vars>>

(* Frames are drawn and time passes (App); a thread inside a read runs on.  *)
StoresFairness ==
  /\ WF_vars(scene = "frame" /\ Poll) /\ WF_vars(scene = "frame" /\ ClockStep)
  /\ WF_vars(scene = "frame" /\ UserEvent)
  /\ WF_vars(scene = "frame" /\ phase # "exited" /\ Tick)
  /\ WF_vars(scene = "frame" /\ phase # "exited" /\ WorkerEnds)
  /\ WF_ring_vars(scene = "ring" /\ Ring!Read)

StoresSpec == StoresInit /\ [][StoresNext]_all_vars /\ StoresFairness

-----------------------------------------------------------------------------
(* Properties; those of the frame are in App. *)

(* Every read of the ring returns what it would have returned at one        *)
(* instant of the call on an unbounded log. *)
ImplementsLog == Ring!ImplementsLog

(* Once producers pause, a read of the ring ends. *)
ReadEnds == Ring!ReadEnds

(* A read of a recording answers with the samples asked for, whatever was   *)
(* evicted: all of a window in order, or the newest before a time. *)
ReadsExact == scene = "parts" => Replayed!ReadsExact

(* The overview of a recording hides no extreme, is the same however many   *)
(* workers built it, and the cache it is drawn through keeps to its budget. *)
OverviewSound == scene = "parts" => Replayed!OverviewSound
=============================================================================
