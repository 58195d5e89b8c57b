---------------------------- MODULE ScriptEngine ----------------------------
(***************************************************************************)
(* The script engine (src/script/mod.rs) and the commands the UI sends it  *)
(* (apply_panel_command in src/app.rs): which script instances run, which  *)
(* are refused, and which output channels each of them owns.               *)
(*                                                                         *)
(* An output channel is registered with the first sample the script writes *)
(* to it, long after the instance was built; until then only owned keeps   *)
(* others from its name. Meanwhile the UI registers channels of its own.   *)
(***************************************************************************)
EXTENDS Naturals, Sequences

CONSTANTS
  Ids,       \* instance ids
  Names,     \* channel names
  Outputs,   \* the sets of output names an instance may declare
  Config,    \* the instances of config.toml, in order
  Static,    \* names of the channels of config.toml
  Other, Nobody, \* who registered a channel: a source or the UI; no one
  MaxCommands    \* bound: commands the user gives

Instance == [id: Ids, outs: Outputs, enabled: BOOLEAN]

ASSUME EngineAssumption ==
  /\ Outputs \subseteq SUBSET Names
  /\ {} \notin Outputs
  /\ Config \in Seq(Instance)
  /\ \A i, j \in 1..Len(Config) : Config[i].id = Config[j].id => i = j
  /\ Static \subseteq Names
  /\ Other # Nobody /\ Other \notin Ids /\ Nobody \notin Ids
  /\ MaxCommands \in Nat

VARIABLES
  instances, \* script_instances of the UI
  commands,  \* the queue of ScriptCommands; a Remove is an id alone
  given,     \* commands given so far
  startup,   \* configured instances not loaded yet
  pc,        \* place in run_loop: "recv" or "tick"
  runners,   \* the running instances: [id, outs]
  failed,    \* the refused ones: [id, outs, reason]
  owned,     \* owned_outputs
  channels   \* who registered each name

vars == <<instances, commands, given, startup, pc, runners, failed, owned, channels>>
ui == <<instances, commands, given>>

Command == [kind: {"upsert"}, inst: Instance] \cup [kind: {"remove"}, id: Ids]

TypeOK ==
  /\ instances \in SUBSET Instance
  /\ commands \in Seq(Command) /\ given \in Nat
  /\ startup \in Seq(Instance)
  /\ pc \in {"recv", "tick"}
  /\ runners \in SUBSET [id: Ids, outs: Outputs]
  /\ failed \in SUBSET [id: Ids, outs: Outputs, reason: {"error", "collision"}]
  /\ owned \in [Ids -> SUBSET Names]
  /\ channels \in [Names -> Ids \cup {Other, Nobody}]
  /\ \A r \in runners : r.outs = owned[r.id]

Init ==
  /\ instances = {Config[i] : i \in 1..Len(Config)}
  /\ commands = << >> /\ given = 0
  /\ startup = Config /\ pc = "recv"
  /\ runners = {} /\ failed = {}
  /\ owned = [i \in Ids |-> {}]
  /\ channels = [n \in Names |-> IF n \in Static THEN Other ELSE Nobody]

-----------------------------------------------------------------------------
(* The UI: apply_panel_command updates its own list and queues the command. *)

Without(set, id) == {x \in set : x.id # id}

Upsert(inst) ==
  /\ given < MaxCommands /\ given' = given + 1
  /\ instances' = Without(instances, inst.id) \cup {inst}
  /\ commands' = Append(commands, [kind |-> "upsert", inst |-> inst])
  /\ UNCHANGED <<startup, pc, runners, failed, owned, channels>>

Remove(id) ==
  /\ given < MaxCommands /\ given' = given + 1
  /\ \E inst \in instances : inst.id = id
  /\ instances' = Without(instances, id)
  /\ commands' = Append(commands, [kind |-> "remove", id |-> id])
  /\ UNCHANGED <<startup, pc, runners, failed, owned, channels>>

(* Another thread registers a channel: a dropped topic, a loaded recording. *)
RegisterOther(n) ==
  /\ channels[n] = Nobody
  /\ channels' = [channels EXCEPT ![n] = Other]
  /\ UNCHANGED <<ui, startup, pc, runners, failed, owned>>

-----------------------------------------------------------------------------
(* The engine: build_runner, load_into, remove_instance. *)

TakenInRegistry(id, n) == channels[n] # Nobody /\ n \notin owned[id]

(* exists: reserved by another instance, or a channel this one does not own. *)
Taken(id, n) ==
  \/ \E o \in Ids \ {id} : n \in owned[o]
  \/ channels[n] # Nobody /\ n \notin owned[id]

Refuse(inst, reason) ==
  /\ failed' = Without(failed, inst.id)
                 \cup {[id |-> inst.id, outs |-> inst.outs, reason |-> reason]}
  /\ runners' = Without(runners, inst.id)
  /\ UNCHANGED owned

(* The file cannot be read or compiled, or its inputs do not match. *)
LoadFails(inst) == inst.enabled /\ Refuse(inst, "error")

LoadRefused(inst) ==
  /\ inst.enabled
  /\ \E n \in inst.outs : Taken(inst.id, n)
  /\ Refuse(inst, "collision")

LoadsKeepingFailure(inst) ==
  /\ inst.enabled
  /\ \A n \in inst.outs : ~Taken(inst.id, n)
  /\ runners' = Without(runners, inst.id) \cup {[id |-> inst.id, outs |-> inst.outs]}
  /\ owned' = [owned EXCEPT ![inst.id] = inst.outs]
  /\ UNCHANGED failed

Loads(inst) ==
  /\ inst.enabled
  /\ \A n \in inst.outs : ~Taken(inst.id, n)
  /\ runners' = Without(runners, inst.id) \cup {[id |-> inst.id, outs |-> inst.outs]}
  /\ failed' = Without(failed, inst.id)
  /\ owned' = [owned EXCEPT ![inst.id] = inst.outs]

LoadDisabledReturnsEarly(inst) ==
  /\ ~inst.enabled
  /\ failed' = Without(failed, inst.id)
  /\ UNCHANGED <<runners, owned>>

(* A disabled instance leaves the active set and keeps its names. *)
LoadDisabled(inst) ==
  /\ ~inst.enabled
  /\ runners' = Without(runners, inst.id)
  /\ failed' = Without(failed, inst.id)
  /\ UNCHANGED owned

LoadInto(inst) ==
  LoadFails(inst) \/ LoadRefused(inst) \/ Loads(inst) \/ LoadDisabled(inst)

RemoveInstance(id) ==
  /\ runners' = Without(runners, id)
  /\ failed' = Without(failed, id)
  /\ owned' = [owned EXCEPT ![id] = {}]

-----------------------------------------------------------------------------
(* run_loop *)

Startup ==
  /\ startup # << >>
  /\ LoadInto(Head(startup))
  /\ startup' = Tail(startup)
  /\ UNCHANGED <<ui, pc, channels>>

(* One command or the timeout of a tick, then all runners. *)
Receive ==
  /\ startup = << >> /\ pc = "recv" /\ commands # << >>
  /\ \/ Head(commands).kind = "upsert" /\ LoadInto(Head(commands).inst)
     \/ Head(commands).kind = "remove" /\ RemoveInstance(Head(commands).id)
  /\ commands' = Tail(commands) /\ pc' = "tick"
  /\ UNCHANGED <<instances, given, startup, channels>>

TimeoutOfTick ==
  /\ startup = << >> /\ pc = "recv" /\ commands = << >>
  /\ pc' = "tick"
  /\ UNCHANGED <<ui, startup, runners, failed, owned, channels>>

(* tick_rec of every runner: some outputs get samples, the first of which   *)
(* registers the channel; register_dynamic returns an existing channel as   *)
(* it is. *)
Tick ==
  /\ startup = << >> /\ pc = "tick" /\ pc' = "recv"
  /\ \E active \in SUBSET runners :
       channels' = [n \in Names |->
         IF channels[n] = Nobody /\ \E r \in active : n \in r.outs
         THEN (CHOOSE r \in active : n \in r.outs).id ELSE channels[n]]
  /\ UNCHANGED <<ui, startup, runners, failed, owned>>

Engine == Startup \/ Receive \/ TimeoutOfTick \/ Tick

Next ==
  \/ \E inst \in Instance : Upsert(inst)
  \/ \E id \in Ids : Remove(id)
  \/ \E n \in Names : RegisterOther(n)
  \/ Engine

Spec == Init /\ [][Next]_vars

-----------------------------------------------------------------------------
(* Properties. *)

(* No two running instances write to one channel: its ring takes a single   *)
(* producer, and owned_outputs must see the clash while no channel exists.  *)
OutputsDisjoint ==
  \A r, q \in runners : r.id # q.id => r.outs \cap q.outs = {}

(* An instance is listed once, as running or as failed, whatever sequence   *)
(* of edits, failures and removals led there. *)
ListedOnce ==
  /\ \A r, q \in runners : r.id = q.id => r = q
  /\ \A f, g \in failed : f.id = g.id => f = g
  /\ \A r \in runners, f \in failed : r.id # f.id

(* "keeping the entry lets a re-Upsert (enable, disable, enable, or an edit *)
(* then re-apply) reuse its already-registered output channels": a name an  *)
(* instance owns is never the reason it is refused. *)
OwnNamesNeverRefused ==
  \A f \in failed : f.reason = "collision" => ~(f.outs \subseteq owned[f.id])

(* Once every command is carried out, the engine runs or reports exactly    *)
(* the enabled instances of the UI, with the outputs the UI shows. *)
Converged ==
  commands = << >> /\ startup = << >> =>
    {[id |-> i.id, outs |-> i.outs] : i \in {i \in instances : i.enabled}}
      = runners \cup {[id |-> f.id, outs |-> f.outs] : f \in failed}

(* The engine's status is that of the list: an instance is in it once, and  *)
(* once no command is left all that are enabled are. *)
StatusExact == ListedOnce /\ Converged

(* "Rebuilding or removing an instance releases the output names it owned,  *)
(* so re-applying does not self-collide" (scripting/bindings.md): a refusal *)
(* names a channel that someone else registered or reserved. *)
NoSelfCollision ==
  [][\A f \in failed' \ failed : f.reason = "collision" =>
       \E n \in f.outs :
         \/ channels[n] \notin {f.id, Nobody}
         \/ \E o \in Ids \ {f.id} : n \in owned[o]]_vars

(* "The engine still reserves the output names in owned_outputs at build    *)
(* time, so collisions are caught before any tick" (ScriptRunner::new): no  *)
(* running script is bound to a channel that a source or the UI registered. *)
CollisionsCaught ==
  \A r \in runners : \A n \in r.outs : channels[n] # Other
=============================================================================
