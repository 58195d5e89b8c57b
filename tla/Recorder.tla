------------------------------ MODULE Recorder ------------------------------
(***************************************************************************)
(* Recording a live session (src/record, and start_recording and           *)
(* stop_recording of src/app.rs): the UI installs a queue sender into the  *)
(* record_sender slot of every source, ingest threads and the script       *)
(* engine queue frames through their slot, and a recorder thread per       *)
(* session writes them to numbered parts until it is stopped.              *)
(*                                                                         *)
(* A frame is [id, topic, schema]; the schema Shared marks the frames      *)
(* encoded against the session's own schema (RecordMsg::Proto), any other  *)
(* one travels with the frame (RecordMsg::DynamicProto).                   *)
(***************************************************************************)
EXTENDS Naturals, Sequences

CONSTANTS
  Writers,      \* threads that record frames
  Slots,        \* record_sender slots, one per source
  SlotOf,       \* the slot each writer goes through
  Blocking,     \* writers that wait for the slot lock: the script engine
  FramesOf,     \* <<topic, schema>> of the frames a writer may record
  Topics,
  Seeded,       \* topics of the registry when a recording starts
  Schemas, Shared, NoSchema,
  QueueCap,     \* QUEUE_CAP
  Split,        \* max_file_mb is set: parts rotate
  Initial,      \* slots of the sources running from the start
  Late,         \* slots of sources the user may add later
  Removable,    \* slots of sources the user may remove
  Nobody,       \* holder of a slot lock when it is free
  MaxSessions,  \* bound: recordings started
  MaxFrames     \* bound: frames offered while a sender is installed

Sessions == 1..MaxSessions
Frame == [id: Nat, topic: Topics, schema: Schemas \cup {Shared}]

ASSUME RecorderAssumption ==
  /\ SlotOf \in [Writers -> Slots] /\ Blocking \subseteq Writers
  /\ FramesOf \in [Writers -> SUBSET (Topics \X (Schemas \cup {Shared}))]
  /\ Seeded \subseteq Topics
  /\ Shared \notin Schemas /\ NoSchema \notin Schemas \cup {Shared}
  /\ QueueCap \in Nat \ {0} /\ Split \in BOOLEAN
  /\ Initial \subseteq Slots /\ Late \subseteq Slots /\ Removable \subseteq Slots
  /\ Initial \cap Late = {}
  /\ Nobody \notin Writers
  /\ MaxSessions \in Nat /\ MaxFrames \in Nat

VARIABLES
  source,  \* per slot: state of its source in the SourceManager
  slot,    \* per slot: session whose queue sender it holds, 0 for None
  lock,    \* per slot: the writer inside its mutex, or Nobody
  ui,      \* [pc, session, todo]: the UI thread inside start or stop
  handle,  \* record_handle: the session being recorded, 0 for None
  ses,     \* per session: its queue and its recorder thread
  made     \* frames offered so far

vars == <<source, slot, lock, ui, handle, ses, made>>

SourceStates == {"absent", "running", "stopped", "gone"}
UiPcs == {"idle", "install", "clear"}
RecorderStates == {"none", "opening", "select", "drain", "finish", "finished", "failed"}

(* One frame handed to the recorder: the part it went to and the schema it  *)
(* was written under; part 0 holds the frames of unknown topics, skipped.   *)
Entry == [frame: Frame, part: Nat, schema: Schemas \cup {Shared, NoSchema}]
Part == [channels: SUBSET (Topics \X (Schemas \cup {Shared})), final: BOOLEAN]

Session ==
  [st: RecorderStates,
   queue: Seq(Frame),
   accepted: Seq(Frame),    \* history: frames the queue took
   lost: Nat,               \* history: frames it did not take
   log: Seq(Entry),         \* history: frames the recorder took, in order
   parts: Seq(Part),        \* the files
   known: [Topics -> Schemas \cup {Shared, NoSchema}],  \* dynamic_channel_ids
   stop: BOOLEAN]           \* a message waits on stop_rx

TypeOK ==
  /\ source \in [Slots -> SourceStates]
  /\ slot \in [Slots -> {0} \cup Sessions]
  /\ lock \in [Slots -> Writers \cup {Nobody}]
  /\ ui \in [pc: UiPcs, session: Nat, todo: SUBSET Slots]
  /\ handle \in {0} \cup Sessions
  /\ ses \in [Sessions -> Session]
  /\ \A s \in Sessions : Len(ses[s].queue) <= QueueCap
  /\ made \in Nat

Unknown == [t \in Topics |-> NoSchema]

Init ==
  /\ source = [sl \in Slots |-> IF sl \in Initial THEN "running" ELSE "absent"]
  /\ slot = [sl \in Slots |-> 0]
  /\ lock = [sl \in Slots |-> Nobody]
  /\ ui = [pc |-> "idle", session |-> 0, todo |-> {}]
  /\ handle = 0
  /\ ses = [s \in Sessions |->
              [st |-> "none", queue |-> << >>, accepted |-> << >>, lost |-> 0,
               log |-> << >>, parts |-> << >>, known |-> Unknown, stop |-> FALSE]]
  /\ made = 0

Managed == {sl \in Slots : source[sl] = "running"}

-----------------------------------------------------------------------------
(* The UI thread: start_recording and stop_recording, one slot at a time.   *)

StartRecording ==
  /\ ui.pc = "idle" /\ handle = 0
  /\ Managed # {} /\ ui.session < MaxSessions
  /\ ui' = [pc |-> "install", session |-> ui.session + 1, todo |-> Managed]
  /\ ses' = [ses EXCEPT ![ui.session + 1].st = "opening"]
  /\ UNCHANGED <<source, slot, lock, handle, made>>

(* *slot.lock() = Some(tx.clone()): waits while a writer holds the lock. *)
InstallSlot(sl) ==
  /\ ui.pc = "install" /\ sl \in ui.todo /\ lock[sl] = Nobody
  /\ slot' = [slot EXCEPT ![sl] = ui.session]
  /\ ui' = [ui EXCEPT !.todo = @ \ {sl}]
  /\ UNCHANGED <<source, lock, handle, ses, made>>

(* McapRecorder::open: a new file whose seeded channels share one schema. *)
OpenPart == [channels |-> {<<t, Shared>> : t \in Seeded}, final |-> FALSE]

Spawn ==
  /\ ui.pc = "install" /\ ui.todo = {}
  /\ ses' = [ses EXCEPT ![ui.session].st = "select",
                        ![ui.session].parts = << OpenPart >>]
  /\ handle' = ui.session
  /\ ui' = [ui EXCEPT !.pc = "idle"]
  /\ UNCHANGED <<source, slot, lock, made>>

(* The file could not be created: the receiver is gone and the senders are  *)
(* taken out again. *)
SpawnFailsKeepsSlots ==
  /\ ui.pc = "install" /\ ui.todo = {}
  /\ ses' = [ses EXCEPT ![ui.session].st = "failed", ![ui.session].queue = << >>]
  /\ ui' = [ui EXCEPT !.pc = "idle"]
  /\ UNCHANGED <<source, slot, lock, handle, made>>

SpawnFails ==
  /\ ui.pc = "install" /\ ui.todo = {}
  /\ ses' = [ses EXCEPT ![ui.session].st = "failed", ![ui.session].queue = << >>]
  /\ ui' = [ui EXCEPT !.pc = "clear", !.todo = Managed]
  /\ UNCHANGED <<source, slot, lock, handle, made>>

StopRecording ==
  /\ ui.pc = "idle" /\ handle # 0
  /\ ui' = [ui EXCEPT !.pc = "clear", !.todo = Managed]
  /\ UNCHANGED <<source, slot, lock, handle, ses, made>>

ClearSlot(sl) ==
  /\ ui.pc = "clear" /\ sl \in ui.todo /\ lock[sl] = Nobody
  /\ slot' = [slot EXCEPT ![sl] = 0]
  /\ ui' = [ui EXCEPT !.todo = @ \ {sl}]
  /\ UNCHANGED <<source, lock, handle, ses, made>>

(* RecordHandle::drop sends on stop_tx; after a failed start there is none. *)
DropHandle ==
  /\ ui.pc = "clear" /\ ui.todo = {}
  /\ ses' = IF handle = 0 THEN ses ELSE [ses EXCEPT ![handle].stop = TRUE]
  /\ handle' = 0
  /\ ui' = [ui EXCEPT !.pc = "idle"]
  /\ UNCHANGED <<source, slot, lock, made>>

(* SourceManager::add and remove, from the same thread. A removed source    *)
(* leaves the list at once; its thread runs on until it sees its stop flag. *)
AddSource(sl) ==
  /\ ui.pc = "idle" /\ sl \in Late /\ source[sl] = "absent"
  /\ source' = [source EXCEPT ![sl] = "running"]
  /\ UNCHANGED <<slot, lock, ui, handle, ses, made>>

RemoveSource(sl) ==
  /\ ui.pc = "idle" /\ sl \in Removable /\ source[sl] = "running"
  /\ source' = [source EXCEPT ![sl] = "stopped"]
  /\ UNCHANGED <<slot, lock, ui, handle, ses, made>>

ThreadExits(sl) ==
  /\ source[sl] = "stopped" /\ lock[sl] = Nobody
  /\ source' = [source EXCEPT ![sl] = "gone"]
  /\ slot' = [slot EXCEPT ![sl] = 0]
  /\ UNCHANGED <<lock, ui, handle, ses, made>>

-----------------------------------------------------------------------------
(* Writers: lock the slot, and queue through the sender found in it. *)

Alive(w) == source[SlotOf[w]] \in {"running", "stopped"}

Lock(w) ==
  /\ Alive(w) /\ lock[SlotOf[w]] = Nobody
  /\ lock' = [lock EXCEPT ![SlotOf[w]] = w]
  /\ UNCHANGED <<source, slot, ui, handle, ses, made>>

(* Still receiving: the receiver lives until recorder_loop has returned. *)
Receiving(s) == ses[s].st \in {"opening", "select", "drain", "finish"}

Enqueue(r, f) == [r EXCEPT !.queue = Append(@, f), !.accepted = Append(@, f)]
Lose(r) == [r EXCEPT !.lost = @ + 1]

(* try_send never blocks: a full queue, or one whose recorder is gone,      *)
(* refuses the frame and nothing counts it. The script engine keeps the     *)
(* lock for the rest of its tick. *)
Send(w, f) ==
  LET s == slot[SlotOf[w]] IN
  /\ lock[SlotOf[w]] = w /\ s # 0 /\ made < MaxFrames
  /\ made' = made + 1
  /\ ses' = [ses EXCEPT ![s] =
       IF Receiving(s) /\ Len(@.queue) < QueueCap
       THEN Enqueue(@, [id |-> made, topic |-> f[1], schema |-> f[2]])
       ELSE Lose(@)]
  /\ lock' = IF w \in Blocking THEN lock ELSE [lock EXCEPT ![SlotOf[w]] = Nobody]
  /\ UNCHANGED <<source, slot, ui, handle>>

UnlockIngestOnly(w) ==
  /\ lock[SlotOf[w]] = w /\ w \notin Blocking
  /\ slot[SlotOf[w]] = 0 \/ made = MaxFrames
  /\ lock' = [lock EXCEPT ![SlotOf[w]] = Nobody]
  /\ UNCHANGED <<source, slot, ui, handle, ses, made>>

(* No sender installed, or the end of the script engine's tick. *)
Unlock(w) ==
  /\ lock[SlotOf[w]] = w
  /\ w \in Blocking \/ slot[SlotOf[w]] = 0 \/ made = MaxFrames
  /\ lock' = [lock EXCEPT ![SlotOf[w]] = Nobody]
  /\ UNCHANGED <<source, slot, ui, handle, ses, made>>

(* An ingest thread only tries the lock: while another client of the same   *)
(* source holds it, the frame is passed over. *)
Contended(w) ==
  LET sl == SlotOf[w] IN
  /\ w \notin Blocking /\ Alive(w)
  /\ lock[sl] \notin {w, Nobody} /\ slot[sl] # 0 /\ made < MaxFrames
  /\ made' = made + 1
  /\ ses' = [ses EXCEPT ![slot[sl]] = Lose(@)]
  /\ UNCHANGED <<source, slot, lock, ui, handle>>

-----------------------------------------------------------------------------
(* The recorder thread of session s, as functions of its record r. *)

SchemaForOneNamespace(r, f) ==
  CASE f.topic \in Seeded -> Shared
    [] f.topic \notin Seeded /\ f.schema = Shared -> NoSchema
    [] f.topic \notin Seeded /\ f.schema # Shared /\ r.known[f.topic] # NoSchema ->
         r.known[f.topic]
    [] OTHER -> f.schema

(* write_msg and write_dynamic. A topic keeps the schema it was first       *)
(* written with, for as long as the part lasts. *)
SchemaFor(r, f) ==
  CASE f.schema = Shared -> IF f.topic \in Seeded THEN Shared ELSE NoSchema
    [] f.schema # Shared /\ r.known[f.topic] # NoSchema -> r.known[f.topic]
    [] OTHER -> f.schema

Wrote(r) ==
  LET f == Head(r.queue)
      schema == SchemaFor(r, f)
      k == Len(r.parts)
      taken == [r EXCEPT !.queue = Tail(@),
                         !.log = Append(@, [frame |-> f, schema |-> schema,
                                            part |-> IF schema = NoSchema THEN 0 ELSE k])]
  IN IF f.schema = Shared THEN taken
     ELSE [taken EXCEPT !.known[f.topic] = schema,
                        !.parts[k].channels = IF r.known[f.topic] # NoSchema THEN @
                                              ELSE @ \cup {<<f.topic, schema>>}]

RotatedKeepsIds(r) ==
  [r EXCEPT !.parts = Append([@ EXCEPT ![Len(r.parts)].final = TRUE], OpenPart)]

RotatedDropsFrame(r) ==
  [r EXCEPT !.parts = Append([@ EXCEPT ![Len(r.parts)].final = TRUE], OpenPart),
            !.known = Unknown, !.queue = IF @ = << >> THEN @ ELSE Tail(@)]

(* rotate: finish the part, open the next one with no dynamic channel. *)
Rotated(r) ==
  [r EXCEPT !.parts = Append([@ EXCEPT ![Len(r.parts)].final = TRUE], OpenPart),
            !.known = Unknown]

(* An error of write, flush, finish or open ends the thread: the queue goes *)
(* with its receiver, and the writer's destructor may still complete the    *)
(* file. *)
Failed(r, final) ==
  [r EXCEPT !.st = "failed", !.queue = << >>, !.parts[Len(r.parts)].final = @ \/ final]

Becomes(s, r) ==
  /\ ses' = [ses EXCEPT ![s] = r]
  /\ UNCHANGED <<source, slot, lock, ui, handle, made>>

HasFrame(s, states) == ses[s].st \in states /\ ses[s].queue # << >>

(* One turn of recorder_loop on a frame, in the select or in the drain. The *)
(* size check may find the part over the limit after any frame it wrote.    *)
WriteFrame(s) ==
  /\ HasFrame(s, {"select", "drain"})
  /\ Becomes(s, Wrote(ses[s]))

WriteAndRotate(s) ==
  /\ HasFrame(s, {"select", "drain"}) /\ Split
  /\ SchemaFor(ses[s], Head(ses[s].queue)) # NoSchema
  /\ Becomes(s, Rotated(Wrote(ses[s])))

WriteFails(s) ==
  /\ HasFrame(s, {"select", "drain"})
  /\ \E final \in BOOLEAN, r \in {ses[s], Wrote(ses[s])} : Becomes(s, Failed(r, final))

HasSender(s) == (\E sl \in Slots : slot[sl] = s) \/ (ui.pc = "install" /\ ui.session = s)

(* select! leaves the loop on a stop, or when every sender is gone and the  *)
(* queue is empty; with both a frame and a stop ready it picks either. *)
LeaveSelect(s) ==
  /\ ses[s].st = "select"
  /\ ses[s].stop \/ (ses[s].queue = << >> /\ ~HasSender(s))
  /\ Becomes(s, [ses[s] EXCEPT !.st = "drain", !.stop = FALSE])

LeaveDrainEarly(s) ==
  /\ ses[s].st = "drain"
  /\ Becomes(s, [ses[s] EXCEPT !.st = "finish"])

LeaveDrain(s) ==
  /\ ses[s].st = "drain" /\ ses[s].queue = << >>
  /\ Becomes(s, [ses[s] EXCEPT !.st = "finish"])

(* Finishing closes the file; the queue is dropped with its receiver. *)
Finish(s) ==
  /\ ses[s].st = "finish"
  /\ \/ Becomes(s, [ses[s] EXCEPT !.st = "finished", !.queue = << >>,
                                  !.parts[Len(ses[s].parts)].final = TRUE])
     \/ \E final \in BOOLEAN : Becomes(s, Failed(ses[s], final))

-----------------------------------------------------------------------------
Ui ==
  \/ StartRecording \/ Spawn \/ SpawnFails \/ StopRecording \/ DropHandle
  \/ \E sl \in Slots :
       InstallSlot(sl) \/ ClearSlot(sl) \/ AddSource(sl) \/ RemoveSource(sl)

Writer(w) ==
  Lock(w) \/ Unlock(w) \/ Contended(w) \/ \E f \in FramesOf[w] : Send(w, f)

Thread(s) ==
  \/ WriteFrame(s) \/ WriteAndRotate(s) \/ WriteFails(s)
  \/ LeaveSelect(s) \/ LeaveDrain(s) \/ Finish(s)

Next ==
  \/ Ui
  \/ \E w \in Writers : Writer(w)
  \/ \E s \in Sessions : Thread(s)
  \/ \E sl \in Slots : ThreadExits(sl)

Spec == Init /\ [][Next]_vars

(* The UI gets a slot lock that is free again and again: the script engine  *)
(* sleeps between ticks and an ingest thread holds it for one try_send.     *)
FairSpec ==
  /\ Spec
  /\ \A sl \in Slots : SF_vars(InstallSlot(sl)) /\ SF_vars(ClearSlot(sl))
  /\ WF_vars(Spawn \/ SpawnFails) /\ WF_vars(DropHandle)
  /\ \A w \in Writers : WF_vars(Unlock(w) \/ \E f \in FramesOf[w] : Send(w, f))
  /\ \A s \in Sessions : WF_vars(Thread(s))

-----------------------------------------------------------------------------
(* Properties. *)

(* What the recorder took and what is still queued are, in order, exactly   *)
(* what the queue accepted: a rotation neither loses, repeats nor reorders  *)
(* a frame ("No samples are lost or duplicated at the boundary").           *)
Conservation ==
  \A s \in Sessions : Receiving(s) =>
    LET r == ses[s] IN
    /\ Len(r.log) + Len(r.queue) = Len(r.accepted)
    /\ \A i \in 1..Len(r.log) : r.log[i].frame = r.accepted[i]
    /\ \A i \in 1..Len(r.queue) : r.queue[i] = r.accepted[Len(r.log) + i]

(* A session that ends well holds every frame its queue accepted, "it       *)
(* drains the remaining queued messages and finalises the file", said       *)
(* without regard to removed sources. *)
DrainsAll ==
  \A s \in Sessions : ses[s].st = "finished" =>
    Len(ses[s].log) = Len(ses[s].accepted)

(* Unless a source was removed, a session that ends well holds every frame  *)
(* its queue accepted: the senders are out of every slot before the         *)
(* recorder is told to stop, and it drains the queue before it finishes. *)
FinishedIsComplete ==
  (\A sl \in Slots : source[sl] \notin {"stopped", "gone"}) => DrainsAll

(* Every part but the one being written is finalised, and that one too once *)
(* the session has ended well: a part can be read without its successors.   *)
PartsFinal ==
  \A s \in Sessions : \A k \in 1..Len(ses[s].parts) :
    (k < Len(ses[s].parts) \/ ses[s].st = "finished") => ses[s].parts[k].final

(* Every frame was written to a channel declared in its own part: "Each new *)
(* part re-registers its channels, so every part is independently           *)
(* replayable". *)
PartsSelfContained ==
  \A s \in Sessions : \A i \in 1..Len(ses[s].log) :
    LET e == ses[s].log[i] IN
    e.part # 0 => /\ e.part \in 1..Len(ses[s].parts)
                  /\ <<e.frame.topic, e.schema>> \in ses[s].parts[e.part].channels

(* Every part of a session is a complete file that can be read by itself.   *)
PartsReadable == PartsFinal /\ PartsSelfContained

(* A frame that carries its schema is written under that schema. *)
OwnSchema ==
  \A s \in Sessions : \A i \in 1..Len(ses[s].log) :
    ses[s].log[i].part # 0 => ses[s].log[i].schema = ses[s].log[i].frame.schema

(* While the UI is at rest, a source still listed holds a sender only of    *)
(* the session being recorded, and none when nothing is recorded, also      *)
(* after a start that failed half way.                                      *)
SlotsFollowHandle ==
  ui.pc = "idle" => \A sl \in Managed : slot[sl] \in {0, handle}

(* A session that ends well is whole: the senders follow the handle through *)
(* every start and stop, so that nothing accepted is left behind. *)
StopIsClean == SlotsFollowHandle /\ FinishedIsComplete

(* A part can be decoded on its own: it holds what its messages refer to,   *)
(* and each message is under the schema it was sent with.                   *)
PartsDecodable == PartsReadable /\ OwnSchema

(* Once stopped, a session ends: its file is finished or its failure is     *)
(* known, and the UI is never stuck behind a slot lock.                     *)
StopEnds ==
  \A s \in Sessions :
    ui.pc = "clear" /\ handle = s ~> ui.pc = "idle" /\ ses[s].st \in {"finished", "failed"}

(* gap_count as the toolbar reads it: spawn_recorder takes the counter and  *)
(* nothing adds to it. *)
GapCount(s) == 0

(* A frame dropped while a session records is accounted for as a gap.       *)
GapsAccounted ==
  \A s \in Sessions : ses[s].st \in {"select", "drain"} /\ ses[s].lost > 0 => GapCount(s) > 0

(* While a session records, every active source feeds its queue.            *)
EverySourceFeeds ==
  ui.pc = "idle" /\ handle # 0 => \A sl \in Managed : slot[sl] = handle
=============================================================================
