----------------------------- MODULE ScriptPanel ----------------------------
(***************************************************************************)
(* The editor of script instances: one row per instance, which the user    *)
(* changes and then applies. What is applied goes to the list the program  *)
(* saves and, through a channel, to the script engine.                     *)
(*                                                                         *)
(* An instance may leave its inputs and outputs to the script, whose       *)
(* defaults the engine finds out some time after the start; a row is       *)
(* filled with them when they are there. What a row holds is one of a few  *)
(* kinds; a name is valid if there is such a channel.                      *)
(***************************************************************************)
EXTENDS Integers, Sequences

CONSTANTS
  Ids,
  Committed,  \* instances of the configuration file
  MaxSent,    \* bound: commands the engine has not taken yet
  None

Inputs  == {"absent", "blank", "default", "unknown"}  \* no slot, an empty slot, ...
Outputs == {"absent", "default", "edited"}
Rows    == [inputs : Inputs, outputs : Outputs, enabled : BOOLEAN]

VARIABLES
  instances, \* script_instances: id |-> [inputs, outputs, enabled] or None; inputs
             \* and outputs are None where the file leaves them to the script
  staged,    \* ScriptPanelState.staged: id |-> row or None
  focus,     \* editing: the instance the window shows, or None
  metas,     \* have the scripts been looked at?
  engine,    \* the engine's instances
  sent       \* commands on their way to it

vars == <<instances, staged, focus, metas, engine, sent>>

Shown(v, default) == IF v = None THEN IF metas THEN default ELSE "absent" ELSE v

staged_from_instance(inst) ==
  [inputs |-> Shown(inst.inputs, "default"), outputs |-> Shown(inst.outputs, "default"),
   enabled |-> inst.enabled]

(* With a slip: a row keeps what it was made with. *)
BackfilledNever(inst, row) == row

(* Defaults that came after the row was made. *)
Backfilled(inst, row) ==
  [row EXCEPT
     !.outputs = IF metas /\ inst.outputs = None /\ @ = "absent" THEN "default" ELSE @,
     !.inputs  = IF metas /\ inst.inputs = None /\ @ \in {"absent", "blank"}
                 THEN "default" ELSE @]

(* Every instance has a row when the editor is drawn. *)
Ensured ==
  [i \in Ids |->
     IF instances[i] = None THEN staged[i]
     ELSE Backfilled(instances[i], IF staged[i] = None
                                   THEN staged_from_instance(instances[i]) ELSE staged[i])]

(* The row that is drawn has a slot for each input of its script. *)
Drawn ==
  [i \in Ids |->
     IF i = focus /\ Ensured[i] # None /\ metas /\ Ensured[i].inputs = "absent"
     THEN [Ensured[i] EXCEPT !.inputs = "blank"] ELSE Ensured[i]]

(* What a command does to a list of instances: find the id or append,       *)
(* retain the others. *)
Applied(list, cmd) == [list EXCEPT ![cmd.id] = cmd.inst]

(* With a slip: the engine is not told of an instance that is removed. *)
apply_panel_command_kept(cmd) ==
  /\ Len(sent) < MaxSent
  /\ instances' = Applied(instances, cmd)
  /\ sent' = IF cmd.inst = None THEN sent ELSE Append(sent, cmd)

apply_panel_command(cmd) ==
  /\ Len(sent) < MaxSent
  /\ instances' = Applied(instances, cmd)
  /\ sent' = Append(sent, cmd)

-----------------------------------------------------------------------------
Init ==
  /\ instances \in Committed /\ engine = instances
  /\ staged = [i \in Ids |-> None]
  /\ focus = None /\ metas = FALSE /\ sent = <<>>

(* The gear beside an instance, or the button that adds one. *)
OpenEditor(i) ==
  /\ i # None => instances[i] # None
  /\ focus' = i
  /\ UNCHANGED <<instances, staged, metas, engine, sent>>

Row(i) == i = focus /\ Drawn[i] # None

EditInput(i, v) ==
  /\ Row(i) /\ Drawn[i].inputs # "absent"
  /\ staged' = [Drawn EXCEPT ![i].inputs = v]
  /\ UNCHANGED <<instances, focus, metas, engine, sent>>

EditOutput(i) ==
  /\ Row(i) /\ Drawn[i].outputs # "absent"
  /\ staged' = [Drawn EXCEPT ![i].outputs = "edited"]
  /\ UNCHANGED <<instances, focus, metas, engine, sent>>

(* Picking a script fills the outputs in and keeps the inputs. *)
SelectScript(i) ==
  /\ Row(i) /\ metas
  /\ staged' = [Drawn EXCEPT ![i].outputs = "default"]
  /\ UNCHANGED <<instances, focus, metas, engine, sent>>

(* The check box is applied at once, with the row as it is. *)
Toggle(i) ==
  /\ Row(i)
  /\ staged' = [Drawn EXCEPT ![i].enabled = ~@]
  /\ apply_panel_command([id |-> i, inst |-> staged'[i]])
  /\ UNCHANGED <<focus, metas, engine>>

Apply(i) ==
  /\ Row(i) /\ Drawn[i].inputs \in {"absent", "default"}
  /\ staged' = Drawn
  /\ apply_panel_command([id |-> i, inst |-> Drawn[i]])
  /\ UNCHANGED <<focus, metas, engine>>

(* The row goes with the instance. *)
RemoveInstance(i) ==
  /\ Row(i)
  /\ staged' = [Drawn EXCEPT ![i] = None]
  /\ apply_panel_command([id |-> i, inst |-> None])
  /\ UNCHANGED <<focus, metas, engine>>

(* A new instance has a row until it is applied; a row that was not is lost.*)
Add(i) ==
  /\ focus = None /\ metas /\ instances[i] = None
  /\ staged' = [Drawn EXCEPT ![i] =
       [inputs |-> "blank", outputs |-> "default", enabled |-> TRUE]]
  /\ focus' = i
  /\ UNCHANGED <<instances, metas, engine, sent>>

(* The engine has looked at the scripts. *)
Peek == metas' = TRUE /\ UNCHANGED <<instances, staged, focus, engine, sent>>

Take ==
  /\ sent # <<>>
  /\ engine' = Applied(engine, Head(sent))
  /\ sent' = Tail(sent)
  /\ UNCHANGED <<instances, staged, focus, metas>>

Next ==
  \/ \E i \in Ids :
       \/ OpenEditor(i) \/ EditOutput(i) \/ SelectScript(i)
       \/ Toggle(i) \/ Apply(i) \/ RemoveInstance(i) \/ Add(i)
       \/ \E v \in Inputs \ {"absent"} : EditInput(i, v)
  \/ OpenEditor(None) \/ Peek \/ Take

-----------------------------------------------------------------------------
(* Properties. *)

Newest(k) == \A m \in DOMAIN sent : sent[m].id = sent[k].id => m <= k

(* The list that is saved is the one the engine runs, once it has taken the *)
(* commands under way. *)
EngineFollows ==
  /\ \A k \in DOMAIN sent : Newest(k) => sent[k].inst = instances[sent[k].id]
  /\ \A i \in Ids : (\A k \in DOMAIN sent : sent[k].id # i) => engine[i] = instances[i]

(* The editor shows the defaults an instance runs with, whenever the        *)
(* scripts were looked at. *)
DefaultsShown ==
  \A i \in Ids :
    instances[i] # None /\ metas /\ instances[i].outputs = None =>
      Drawn[i].outputs # "absent"
=============================================================================
