------------------------------ MODULE PyScripts -----------------------------
(***************************************************************************)
(* What a script says of itself and what becomes of what it returns: the   *)
(* globals of its file (src/script/python.rs), the names its outputs get   *)
(* from an instance (src/script/types.rs, ScriptEngine::build_runner), and *)
(* the Python objects `compute` returns, output by output, until a value   *)
(* is in a channel (src/script/runner.rs).                                 *)
(*                                                                         *)
(* A channel name is the sequence of its segments. A template is one of    *)
(* tokens: text, an input's name, its last segment, or what is none of     *)
(* these. Numbers of a float64 array are in halves, those of an int64      *)
(* array whole; an array of any other kind has dtype "other". An object is *)
(* [kind |-> "array", dtype, data] or [kind |-> "tuple", items].           *)
(***************************************************************************)
EXTENDS Integers, Sequences, SequencesExt, FiniteSetsExt, TLC

CONSTANTS
  Files,     \* the scripts: what executing each leaves
  Overrides, \* the instances: id, script, and the inputs and outputs set for it
  Existing,  \* channels of others
  Returned,  \* what `compute` may return
  MaxTicks,  \* bound
  None, Absent, Wrong

VARIABLES
  inst,     \* the instance
  meta,     \* ScriptRunner.meta
  health,   \* "unloaded", "healthy" or "failed"
  out,      \* the samples of each output's channel
  returned  \* history: what `compute` returned so far

vars == <<inst, meta, health, out, returned>>

Literal(s) == [kind |-> "text", text |-> s, at |-> 0]

-----------------------------------------------------------------------------
(* The file. What can fail gives a set, empty if it does. *)

parse_sample_type(ty) == {ty} \intersect {"float", "int", "bool"}

extract_meta(g) ==
  LET sound ==
        /\ g.INPUTS \notin {Absent, Wrong}
        /\ g.OUTPUTS # Absent
        /\ \A o \in ToSet(g.OUTPUTS) : o.name # Wrong /\ parse_sample_type(o.type) # {}
        /\ g.MODE \in {Absent, "map", "reduce"}
        /\ g.HOP_MS # Wrong
  IN IF ~sound THEN {}
     ELSE {[inputs |-> g.INPUTS, outputs |-> g.OUTPUTS,
            mode |-> IF g.MODE = Absent THEN "reduce" ELSE g.MODE,
            hop_ms |-> IF g.HOP_MS = Absent THEN None ELSE g.HOP_MS]}

peek_meta(script) == extract_meta(Files[script])

(* Called once with one sample per input. *)
warm_up(g) == g.compute # "raises"

load(script) ==
  LET g == Files[script] IN
  IF g.compute \in {Absent, "plain"} \/ ~warm_up(g) THEN {} ELSE extract_meta(g)

-----------------------------------------------------------------------------
(* The names of the outputs. *)

expand_token(t, inputs) ==
  CASE t.kind = "text" -> {<<t.text>>}
    [] t.kind = "input" /\ t.at \in DOMAIN inputs -> {inputs[t.at]}
    [] t.kind = "stem" /\ t.at \in DOMAIN inputs  -> {<<Last(inputs[t.at])>>}
    [] OTHER -> {}

expand_output_name(template, inputs) ==
  IF \E k \in DOMAIN template : expand_token(template[k], inputs) = {} THEN {}
  ELSE {FlattenSeq([k \in DOMAIN template |->
          CHOOSE part \in expand_token(template[k], inputs) : TRUE])}

(* With a slip: the editor counts from one. *)
default_outputs_from_one(id, m) ==
  [i \in DOMAIN m.outputs |->
     [name |-> <<Literal("scripts"), Literal(id)>>
               \o IF Len(m.outputs) = 1 THEN <<>> ELSE <<Literal(ToString(i))>>,
      type |-> m.outputs[i].type]]

(* The editor's defaults, written out into the row of an instance ...       *)
default_outputs(id, m) ==
  [i \in DOMAIN m.outputs |->
     [name |-> <<Literal("scripts"), Literal(id)>>
               \o IF Len(m.outputs) = 1 THEN <<>> ELSE <<Literal(ToString(i - 1))>>,
      type |-> m.outputs[i].type]]

(* ... and the engine's, for an instance without. *)
DefaultOutputs(id, m) ==
  [i \in DOMAIN m.outputs |->
     [type |-> m.outputs[i].type,
      name |-> IF Len(m.outputs) = 1 THEN <<Literal("scripts"), Literal(id)>>
               ELSE <<Literal("scripts"), Literal(id), Literal(ToString(i - 1))>>]]

(* With a slip: of the declared inputs. *)
InputsDeclared(x, m) == m.inputs

InputsOf(x, m) == IF x.inputs = None THEN m.inputs ELSE x.inputs

validate_meta(m) ==
  /\ m.inputs # <<>> /\ m.outputs # <<>>
  /\ \A i, j \in DOMAIN m.outputs : m.outputs[i].name = m.outputs[j].name => i = j
  /\ \A i \in DOMAIN m.outputs : m.outputs[i].name \notin Existing

(* `n` is the number of outputs the file declares, which what `compute`     *)
(* returns is checked against. *)
build_runner(x) ==
  UNION {
    LET inputs == InputsOf(x, m)
        raw == IF x.outputs = None THEN DefaultOutputs(x.id, m) ELSE x.outputs
        names == [i \in DOMAIN raw |-> expand_output_name(raw[i].name, inputs)]
    IN IF \/ x.inputs # None /\ Len(x.inputs) # Len(m.inputs)
          \/ \E i \in DOMAIN raw : parse_sample_type(raw[i].type) = {} \/ names[i] = {}
       THEN {}
       ELSE {r \in {[inputs |-> inputs, mode |-> m.mode, hop_ms |-> m.hop_ms, n |-> Len(m.outputs),
                     outputs |-> [i \in DOMAIN raw |->
                       [name |-> CHOOSE s \in names[i] : TRUE, type |-> raw[i].type]]]} :
             validate_meta(r)}
    : m \in load(x.script)}

-----------------------------------------------------------------------------
(* What is returned. *)

Whole(v) == IF v < 0 THEN -(-v \div 2) ELSE v \div 2

extract_i64(a) ==
  CASE a.kind = "array" /\ a.dtype = "int64"   -> {a.data}
    [] a.kind = "array" /\ a.dtype = "float64" -> {[k \in DOMAIN a.data |-> Whole(a.data[k])]}
    [] OTHER -> {}

extract_f64(a) ==
  CASE a.kind = "array" /\ a.dtype = "float64" -> {a.data}
    [] a.kind = "array" /\ a.dtype = "int64"   -> {[k \in DOMAIN a.data |-> 2 * a.data[k]]}
    [] OTHER -> {}

is_array(obj) == obj.kind = "array"

batch(pair) ==
  IF pair.kind # "tuple" \/ Len(pair.items) # 2 THEN {}
  ELSE {[ts |-> ts, vals |-> vals] :
          ts \in extract_i64(pair.items[1]), vals \in extract_f64(pair.items[2])}

(* A single output may be returned as a bare pair. *)
run(result, n) ==
  IF result.kind # "tuple" THEN {}
  ELSE LET bare == n = 1 /\ Len(result.items) = 2 /\ is_array(result.items[1])
           pairs == IF bare THEN <<result>> ELSE result.items
       IN IF Len(pairs) # n \/ \E i \in DOMAIN pairs : batch(pairs[i]) = {} THEN {}
          ELSE {[i \in DOMAIN pairs |-> CHOOSE b \in batch(pairs[i]) : TRUE]}

cast_to(type, v) ==
  CASE type = "int" -> 2 * Whole(v) [] type = "bool" -> (IF v = 0 THEN 0 ELSE 2) [] OTHER -> v

(* The samples that are newer than the last one written. *)
Extended(samples, b, type) ==
  FoldLeft(LAMBDA s, k :
             IF s # <<>> /\ b.ts[k] <= Last(s).t THEN s
             ELSE Append(s, [t |-> b.ts[k], v |-> cast_to(type, b.vals[k])]),
           samples, [k \in 1..Min({Len(b.ts), Len(b.vals)}) |-> k])

(* With a slip: lengths are not compared, the longer array is cut. *)
TornUnchecked(batches) == {}

Torn(batches) == {i \in DOMAIN batches : Len(batches[i].ts) # Len(batches[i].vals)}

-----------------------------------------------------------------------------
Init ==
  /\ inst \in Overrides
  /\ meta = None /\ health = "unloaded" /\ out = <<>> /\ returned = <<>>

Load ==
  /\ health = "unloaded"
  /\ IF build_runner(inst) = {} THEN health' = "failed" /\ UNCHANGED <<meta, out>>
     ELSE /\ meta' \in build_runner(inst) /\ health' = "healthy"
          /\ out' = [i \in DOMAIN meta'.outputs |-> <<>>]
  /\ UNCHANGED <<inst, returned>>

(* The outputs are published one by one, up to one that cannot be. *)
Tick(result) ==
  /\ health = "healthy" /\ Len(returned) < MaxTicks
  /\ returned' = Append(returned, result)
  /\ LET good == {b \in run(result, meta.n) : Len(b) = Len(meta.outputs)} IN
     IF good = {} THEN health' = "failed" /\ UNCHANGED out
     ELSE \E b \in good :
            /\ health' = IF Torn(b) = {} THEN "healthy" ELSE "failed"
            /\ out' = [i \in DOMAIN out |->
                 IF \E j \in Torn(b) : j <= i THEN out[i]
                 ELSE Extended(out[i], b[i], meta.outputs[i].type)]
  /\ UNCHANGED <<inst, meta>>

Next == Load \/ \E result \in Returned : Tick(result)

-----------------------------------------------------------------------------
(* Properties. *)

PairOf(result, i) == IF is_array(result.items[1]) THEN result ELSE result.items[i]
Times(result, i) ==
  LET a == PairOf(result, i).items[1] IN
  [k \in DOMAIN a.data |-> IF a.dtype = "int64" THEN a.data[k] ELSE Whole(a.data[k])]
AllTimes(i) == FlattenSeq([k \in DOMAIN returned |-> Times(returned[k], i)])

(* While a script is healthy, each of its outputs has, in order and once,   *)
(* every time that its own part of what was returned went beyond what came  *)
(* before it, whichever form it was returned in; and a script that declares *)
(* several outputs never returned one. *)
PublishedAsReturned ==
  health = "healthy" =>
    \A i \in DOMAIN out :
      LET all == AllTimes(i)
          highs == {k \in DOMAIN all : \A j \in 1..k - 1 : all[j] < all[k]}
      IN /\ [m \in DOMAIN out[i] |-> out[i][m].t] = SetToSortSeq({all[k] : k \in highs}, <)
         /\ \A k \in DOMAIN returned :
              LET p == PairOf(returned[k], i).items IN Len(p[1].data) = Len(p[2].data)

(* An instance's outputs are named after the inputs it is bound to, not the *)
(* ones its file was written for; the names are distinct and nobody else's. *)
NamedAfterInputs ==
  health = "healthy" =>
    /\ Cardinality({meta.outputs[i].name : i \in DOMAIN meta.outputs}) = Len(meta.outputs)
    /\ \A i \in DOMAIN meta.outputs : meta.outputs[i].name \notin Existing
    /\ inst.inputs # None /\ inst.outputs # None =>
         \A i \in DOMAIN inst.outputs : \A k \in DOMAIN inst.outputs[i].name :
           LET t == inst.outputs[i].name[k] IN
           /\ t.kind = "input" => inst.inputs[t.at] \in SubSeqs(meta.outputs[i].name)
           /\ t.kind = "stem" => Contains(meta.outputs[i].name, Last(inst.inputs[t.at]))

(* An instance that leaves its outputs to its script runs the same when its *)
(* editor row, filled with the defaults, is applied unchanged. *)
ApplyChangesNothing ==
  \A m \in peek_meta(inst.script) :
    LET row == [inst EXCEPT !.inputs = InputsOf(inst, m),
                            !.outputs = IF @ = None THEN default_outputs(inst.id, m) ELSE @]
    IN build_runner(row) = build_runner(inst)
=============================================================================
