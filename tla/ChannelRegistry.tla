-------------------------- MODULE ChannelRegistry --------------------------
(***************************************************************************)
(* The append-only dynamic tier of the channel registry                    *)
(* (src/config/channels.rs), the live store's slot vector                  *)
(* (src/store/live.rs) that must grow in step with it, and the routing     *)
(* table of the scalar sources (src/dynamic_channel.rs).                   *)
(*                                                                         *)
(* Three kinds of thread register channels at run time: the UI when a      *)
(* discovered topic is dropped on a panel, the script engine on the first  *)
(* sample of an output, and the worker that opens a recording for replay.  *)
(* Ids are 1-based here: id i is ChannelId(i - 1), and 0 is "no id".       *)
(***************************************************************************)
EXTENDS Naturals, Sequences

CONSTANTS
  Droppers,  \* UI threads: resolve_or_register_drop
  Scripts,   \* script engine threads: ScriptRunner::tick_rec
  Loaders,   \* replay loader threads: plan_file
  Names,     \* channel names; a dropped topic is its own name
  Types,     \* sample types
  Static,    \* the channels of config.toml, in id order
  Wanted,    \* thread -> the channels it may come to register
  Nobody     \* holder of the dyn_ids lock when it is free

Threads == Droppers \cup Scripts \cup Loaders

Channel == [name: Names, ty: Types]

ASSUME RegistryAssumption ==
  /\ Static \in Seq(Channel)
  /\ \A i, j \in 1..Len(Static) : Static[i].name = Static[j].name => i = j
  /\ Names # {} /\ Types # {}
  /\ Wanted \in [Threads -> SUBSET Channel]
  /\ Nobody \notin Threads
  /\ Droppers \cap Scripts = {}
  /\ Droppers \cap Loaders = {}
  /\ Scripts \cap Loaders = {}

VARIABLES
  dynConfigs,  \* dyn_configs: boxcar vector of channels
  dynMetas,    \* dyn_metas: boxcar vector of channels; its length is len()
  dynIds,      \* dyn_ids: name -> id, 0 when absent
  holder,      \* the thread holding the write lock of dyn_ids
  slots,       \* LiveStore::channels: boxcar vector of typed slots
  stored,      \* <<id, name>>: slot id holds a sample of channel name
  topicMap,    \* MqttTopicMap: topic -> [id, ty], id 0 when absent
  pc, req, got \* per thread: next step, the channel it registers, its id

vars == <<dynConfigs, dynMetas, dynIds, holder, slots, stored, topicMap,
          pc, req, got>>
registry == <<dynConfigs, dynMetas, dynIds, holder>>
threads  == <<pc, req, got>>

NStatic == Len(Static)

(* The phases in which a thread holds the write lock. *)
Locked == {"config", "meta", "slot", "publish"}

Phases == Locked \cup
  {"idle", "reserved", "lookup", "acquire", "seed", "route", "emit", "loaded", "panicked"}

IsStatic(n) == \E i \in 1..NStatic : Static[i].name = n

(* ChannelRegistry::id: the static map, then dyn_ids under its read lock. *)
IdOf(n) == IF IsStatic(n)
           THEN CHOOSE i \in 1..NStatic : Static[i].name = n
           ELSE dynIds[n]

Readable(n) == IsStatic(n) \/ holder = Nobody

Goto(t, phase) == pc' = [pc EXCEPT ![t] = phase]

(* What a registrant does with the id it was given. *)
AfterRegister(t) == IF t \in Droppers THEN "seed"
                    ELSE IF t \in Scripts THEN "emit" ELSE "loaded"

TypeOK ==
  /\ dynConfigs \in Seq(Channel)
  /\ dynMetas \in Seq(Channel)
  /\ dynIds \in [Names -> Nat]
  /\ holder \in Threads \cup {Nobody}
  /\ slots \in Seq(Channel)
  /\ stored \subseteq Nat \X Names
  /\ topicMap \in [Names -> [id: Nat, ty: Types]]
  /\ pc \in [Threads -> Phases]
  /\ req \in [Threads -> Channel]
  /\ got \in [Threads -> Nat]

Init ==
  /\ dynConfigs = << >> /\ dynMetas = << >>
  /\ dynIds = [n \in Names |-> 0]
  /\ holder = Nobody
  /\ slots = Static
  /\ stored = {}
  /\ topicMap = [n \in Names |-> [id |-> 0, ty |-> CHOOSE y \in Types : TRUE]]
  /\ pc = [t \in Threads |-> "idle"]
  /\ req = [t \in Threads |-> CHOOSE c \in Channel : TRUE]
  /\ got = [t \in Threads |-> 0]

-----------------------------------------------------------------------------
(* Entry points of the three kinds of registrant. *)

(* resolve_or_register_drop: a configured name binds to its channel and     *)
(* registers nothing; a discovered topic is registered with the type its    *)
(* last payload suggests. *)
StartDrop(t, c) ==
  /\ t \in Droppers /\ pc[t] = "idle"
  /\ Readable(c.name) /\ IdOf(c.name) = 0
  /\ req' = [req EXCEPT ![t] = c]
  /\ Goto(t, "lookup")
  /\ UNCHANGED <<registry, slots, stored, topicMap, got>>

(* ScriptEngine::build_runner: an output whose name is already a channel is *)
(* refused, unless the previous build of the script owned it; otherwise the *)
(* name is reserved and registered only later, with the first sample. A     *)
(* rebuild drops the previous runner and may change the type. *)
BuildScript(t, c) ==
  /\ t \in Scripts /\ pc[t] \in {"idle", "reserved", "emit"}
  /\ Readable(c.name)
  /\ IdOf(c.name) = 0 \/ (pc[t] # "idle" /\ req[t].name = c.name)
  /\ req' = [req EXCEPT ![t] = c]
  /\ Goto(t, "reserved")
  /\ UNCHANGED <<registry, slots, stored, topicMap, got>>

(* tick_rec: the first non-empty batch of an output registers it. *)
FirstSample(t) ==
  /\ pc[t] = "reserved"
  /\ Goto(t, "lookup")
  /\ UNCHANGED <<registry, slots, stored, topicMap, req, got>>

(* plan_file: add_dynamic for each topic the recording carries. *)
StartLoad(t, c) ==
  /\ t \in Loaders /\ pc[t] \in {"idle", "loaded"}
  /\ req' = [req EXCEPT ![t] = c]
  /\ Goto(t, "lookup")
  /\ UNCHANGED <<registry, slots, stored, topicMap, got>>

-----------------------------------------------------------------------------
(* register_dynamic. *)

(* The id is returned to the caller, which goes on with it. *)
Return(t, id) ==
  /\ got' = [got EXCEPT ![t] = id]
  /\ Goto(t, AfterRegister(t))

Lookup(t) ==
  /\ pc[t] = "lookup" /\ Readable(req[t].name)
  /\ \/ IdOf(req[t].name) # 0 /\ Return(t, IdOf(req[t].name))
     \/ IdOf(req[t].name) = 0 /\ Goto(t, "acquire") /\ UNCHANGED got
  /\ UNCHANGED <<registry, slots, stored, topicMap, req>>

(* Under the write lock the name is looked up again: another thread may     *)
(* have registered it since. Finding it gives the lock back at once. *)
FoundUnderLock(t) ==
  /\ dynIds[req[t].name] # 0
  /\ Return(t, dynIds[req[t].name]) /\ UNCHANGED holder

NewUnderLock(t) ==
  /\ dynIds[req[t].name] = 0
  /\ holder' = t /\ Goto(t, "config") /\ UNCHANGED got

AcquireNoRecheck(t) ==
  /\ pc[t] = "acquire" /\ holder = Nobody
  /\ holder' = t /\ Goto(t, "config")
  /\ UNCHANGED <<dynConfigs, dynMetas, dynIds, slots, stored, topicMap, req, got>>

Acquire(t) ==
  /\ pc[t] = "acquire" /\ holder = Nobody
  /\ FoundUnderLock(t) \/ NewUnderLock(t)
  /\ UNCHANGED <<dynConfigs, dynMetas, dynIds, slots, stored, topicMap, req>>

PushConfigAsMeta(t) ==
  /\ pc[t] = "config"
  /\ dynMetas' = Append(dynMetas, req[t])
  /\ Goto(t, "meta")
  /\ UNCHANGED <<dynConfigs, dynIds, holder, slots, stored, topicMap, req, got>>

PushConfig(t) ==
  /\ pc[t] = "config"
  /\ dynConfigs' = Append(dynConfigs, req[t])
  /\ Goto(t, "meta")
  /\ UNCHANGED <<dynMetas, dynIds, holder, slots, stored, topicMap, req, got>>

FreshIdOffByOne == NStatic + Len(dynMetas)

(* n_static() + idx, idx being the index the push returns. *)
FreshId == NStatic + Len(dynMetas) + 1

PushMeta(t) ==
  /\ pc[t] = "meta"
  /\ got' = [got EXCEPT ![t] = FreshId]
  /\ dynMetas' = Append(dynMetas, req[t])
  /\ Goto(t, "slot")
  /\ UNCHANGED <<dynConfigs, dynIds, holder, slots, stored, topicMap, req>>

PushSlotForgotten(t) ==
  /\ pc[t] = "slot"
  /\ Goto(t, "publish")
  /\ UNCHANGED <<registry, slots, stored, topicMap, req, got>>

(* on_new: the UI and the script engine append the store slot, still under  *)
(* the lock; the replay loader's closure does nothing. *)
PushSlot(t) ==
  /\ pc[t] = "slot"
  /\ slots' = IF t \in Loaders THEN slots ELSE Append(slots, req[t])
  /\ Goto(t, "publish")
  /\ UNCHANGED <<registry, stored, topicMap, req, got>>

PublishKeepsLock(t) ==
  /\ pc[t] = "publish"
  /\ dynIds' = [dynIds EXCEPT ![req[t].name] = got[t]]
  /\ Goto(t, AfterRegister(t))
  /\ UNCHANGED <<dynConfigs, dynMetas, holder, slots, stored, topicMap, req, got>>

Publish(t) ==
  /\ pc[t] = "publish"
  /\ dynIds' = [dynIds EXCEPT ![req[t].name] = got[t]]
  /\ holder' = Nobody
  /\ Goto(t, AfterRegister(t))
  /\ UNCHANGED <<dynConfigs, dynMetas, slots, stored, topicMap, req, got>>

-----------------------------------------------------------------------------
(* What follows a registration. A write to an id without a slot panics; a   *)
(* write of another type is counted and dropped. *)

Stores(id, ty, n) ==
  stored' = IF slots[id].ty = ty THEN stored \cup {<<id, n>>} ELSE stored

(* LiveStore::write_numeric by thread t, which then goes on to a phase. *)
Write(t, phase) ==
  \/ /\ got[t] \in DOMAIN slots
     /\ Stores(got[t], req[t].ty, req[t].name) /\ Goto(t, phase)
  \/ /\ got[t] \notin DOMAIN slots
     /\ Goto(t, "panicked") /\ UNCHANGED stored

(* seed_value *)
Seed(t) ==
  /\ pc[t] = "seed"
  /\ Write(t, "route")
  /\ UNCHANGED <<registry, slots, topicMap, req, got>>

Route(t) ==
  /\ pc[t] = "route"
  /\ topicMap' = [topicMap EXCEPT ![req[t].name] = [id |-> got[t], ty |-> req[t].ty]]
  /\ Goto(t, "idle")
  /\ UNCHANGED <<registry, slots, stored, req, got>>

(* tick_rec: later samples reuse the id the runner cached. *)
Emit(t) ==
  /\ pc[t] = "emit"
  /\ Write(t, "emit")
  /\ UNCHANGED <<registry, slots, topicMap, req, got>>

(* ScalarIngest::on_message: a message of a routed topic is stored. *)
Ingest(n) ==
  /\ topicMap[n].id \in DOMAIN slots
  /\ Stores(topicMap[n].id, topicMap[n].ty, n)
  /\ UNCHANGED <<registry, slots, topicMap, threads>>

-----------------------------------------------------------------------------
Register(t) ==
  \/ Lookup(t) \/ Acquire(t) \/ PushConfig(t) \/ PushMeta(t)
  \/ PushSlot(t) \/ Publish(t)

Step(t) == Register(t) \/ FirstSample(t) \/ Seed(t) \/ Route(t) \/ Emit(t)

Next ==
  \/ \E t \in Threads : Step(t)
  \/ \E t \in Threads : \E c \in Wanted[t] :
       StartDrop(t, c) \/ BuildScript(t, c) \/ StartLoad(t, c)
  \/ \E n \in Names : Ingest(n)

Spec == Init /\ [][Next]_vars

(* A thread inside register_dynamic keeps running: nothing in it waits but  *)
(* for the lock. *)
FairSpec == Spec /\ \A t \in Threads : WF_vars(Register(t))

-----------------------------------------------------------------------------
(* Properties. *)

(* No recording has been opened yet. *)
NoReplay == \A t \in Loaders : pc[t] = "idle"

(* A published id names the slot of its own channel, said without regard to *)
(* recordings: "no other registrant can push between the registry and store *)
(* grows, so slot index == id" (register_dynamic). *)
IdsInStep ==
  \A n \in Names : dynIds[n] # 0 =>
    dynIds[n] \in DOMAIN slots /\ slots[dynIds[n]].name = n

(* Until a recording is opened, every id published by register_dynamic      *)
(* names the store slot of its own channel. *)
Lockstep == NoReplay => IdsInStep

(* Until then no thread writes to an id the store has no slot for:          *)
(* LiveStore::slot panics with "channel id out of range". *)
NoPanic == NoReplay => \A t \in Threads : pc[t] # "panicked"

(* Until then samples of one channel never land in the slot of another,     *)
(* whichever thread holds the id and however long ago it was given. *)
NoCrossTalk ==
  NoReplay => \A w \in stored : w[1] \in DOMAIN slots /\ slots[w[1]].name = w[2]

(* Until then an id is that of its channel's slot, and every write through  *)
(* one lands there. *)
WritesHitOwnSlot == Lockstep /\ NoPanic /\ NoCrossTalk

(* A lock-free reader that walks iter_ids() finds the config of every id    *)
(* it is shown, and the right one: id_by_mqtt_topic indexes configs with    *)
(* ids counted from metas, with no lock. *)
VisibleHasConfig ==
  /\ Len(dynMetas) <= Len(dynConfigs)
  /\ \A i \in 1..Len(dynMetas) : dynConfigs[i] = dynMetas[i]

(* A name is registered once: racing registrants of one name share one id,  *)
(* and a reader resolving by topic finds one channel. *)
NamesUnique ==
  \A i, j \in 1..Len(dynMetas) : dynMetas[i].name = dynMetas[j].name => i = j

(* Whoever registers, a reader that takes no lock finds each channel once   *)
(* and with its configuration. *)
ReadersConsistent == NamesUnique /\ VisibleHasConfig

(* An id once handed out stays the id of that name for good, as the panels  *)
(* and runners that cache it rely on. *)
IdsStable == [][\A n \in Names : dynIds[n] # 0 => dynIds'[n] = dynIds[n]]_vars

(* Every registration completes: no registrant is left waiting for the      *)
(* dyn_ids lock. *)
RegistrationCompletes ==
  \A t \in Threads :
    pc[t] = "lookup" ~> pc[t] \in {"seed", "emit", "loaded"}
=============================================================================
