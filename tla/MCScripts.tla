------------------------------ MODULE MCScripts -----------------------------
(***************************************************************************)
(* Scripts: the engine that starts and stops them as the user edits the    *)
(* list (ScriptEngine), one of them running (ScriptRunner), or what one    *)
(* says of itself and returns (PyScripts).                                 *)
(***************************************************************************)
EXTENDS ScriptEngine

CONSTANTS
  i1, i2, rms, diff, accel,
  Inputs, Modes, Window, Hop, Strict, MaxRebuilds, MaxTime, MaxSamples,
  Files, Overrides, Existing, Returned, MaxTicks, None, Absent, Wrong

VARIABLES
  scene, \* "engine", "runner" or "python"
  mode, now, data, known, step, at, snaps, cursor, lastHop, lastOut, state, out,
  fed, from, rebuilt, runs, first,
  inst, meta, health, outputs, returned

Runner == INSTANCE ScriptRunner WITH pc <- step
Python == INSTANCE PyScripts WITH out <- outputs

runner_vars ==
  <<mode, now, data, known, step, at, snaps, cursor, lastHop, lastOut, state, out,
    fed, from, rebuilt, runs, first>>
python_vars == <<inst, meta, health, outputs, returned>>
all_vars == <<scene, vars, runner_vars, python_vars>>

(* Two instances over three names, one of them a configured channel; one    *)
(* instance is in the configuration. *)
MCNames == {rms, diff, accel}
MCOutputs == {{rms}, {diff}, {rms, diff}, {accel}}
MCConfig == << [id |-> i1, outs |-> {rms}, enabled |-> TRUE] >>

(* Files that can be used, with one output and with two, and files that     *)
(* cannot. *)
File == [INPUTS |-> <<<<"a", "x">>>>, OUTPUTS |-> <<[name |-> "o", type |-> "float"]>>,
         MODE |-> Absent, HOP_MS |-> Absent, compute |-> "njit"]
MCFiles ==
  [one |-> File,
   two |-> [File EXCEPT !.INPUTS = <<<<"a", "x">>, <<"b", "y">>>>, !.MODE = "map", !.HOP_MS = 20,
              !.OUTPUTS = <<[name |-> "o", type |-> "int"], [name |-> "p", type |-> "bool"]>>],
   plain |-> [File EXCEPT !.compute = "plain"], raises |-> [File EXCEPT !.compute = "raises"],
   mode |-> [File EXCEPT !.MODE = Wrong], hop |-> [File EXCEPT !.HOP_MS = Wrong],
   bare |-> [File EXCEPT !.INPUTS = Absent], none |-> [File EXCEPT !.OUTPUTS = <<>>],
   text |-> [File EXCEPT !.OUTPUTS = <<[name |-> "o", type |-> "text"]>>]]

(* Left to the script, and with inputs, templates or both of its own.       *)
Token(kind, k) == [kind |-> kind, text |-> "", at |-> k]
Plain(s) == [kind |-> "text", text |-> s, at |-> 0]
Template(tokens) == [name |-> tokens, type |-> "float"]
MCOverrides ==
  [id : {"r"}, script : DOMAIN MCFiles, inputs : {None}, outputs : {None}]
  \union
  [id : {"r"}, script : {"one", "two"},
   inputs : {None, <<<<"c", "z">>>>, <<<<"c", "z">>, <<"d", "z">>>>},
   outputs :
     {None, <<Template(<<Token("input", 1)>>)>>,
      <<Template(<<Plain("rms"), Token("stem", 1)>>)>>,
      <<Template(<<Token("other", 1)>>)>>,
      <<Template(<<Token("input", 1), Plain("n")>>), Template(<<Token("stem", 2)>>)>>,
      <<Template(<<Token("stem", 1)>>), Template(<<Token("stem", 2)>>)>>}]

(* Pairs and tuples of them; bare arrays, arrays of another kind, times     *)
(* that go back, lengths that differ. *)
Array(dtype, seq) == [kind |-> "array", dtype |-> dtype, data |-> seq]
Ints(seq)   == Array("int64", seq)
Halves(seq) == Array("float64", seq)
Tuple(items) == [kind |-> "tuple", items |-> items]
Pairs ==
  {Tuple(<<Ints(<<1, 2>>), Halves(<<1, 4>>)>>), Tuple(<<Halves(<<6, 5>>), Ints(<<0, 1>>)>>),
   Tuple(<<Ints(<<>>), Ints(<<>>)>>), Tuple(<<Ints(<<4, 5>>), Halves(<<3>>)>>)}
MCReturned ==
  Pairs \union {Tuple(<<p>>) : p \in Pairs} \union {Tuple(<<p, q>>) : p, q \in Pairs}
  \union {Ints(<<1>>), Tuple(<<Ints(<<1>>)>>),
          Tuple(<<Ints(<<1>>), Array("other", <<1>>)>>)}

MCExisting == {<<"a", "x">>}

ASSUME RunnerAssumption ==
  /\ Inputs \in Nat \ {0} /\ Modes \subseteq {"map", "reduce"}
  /\ Window \in Nat /\ Hop \in Nat

(* An instance's configuration has four fields. *)
ASSUME OverridesAssumption ==
  \A x \in Overrides :
    x = [id |-> x.id, script |-> x.script, inputs |-> x.inputs, outputs |-> x.outputs]

MCInit ==
  /\ scene \in {"engine", "runner", "python"}
  /\ Init /\ Runner!Init /\ Python!Init
  /\ scene # "runner" => mode = "map"
  /\ scene # "python" => inst = [id |-> "r", script |-> "one", inputs |-> None, outputs |-> None]

MCNext ==
  /\ UNCHANGED scene
  /\ \/ scene = "engine" /\ Next /\ UNCHANGED <<runner_vars, python_vars>>
     \/ scene = "runner" /\ Runner!Next /\ UNCHANGED <<vars, python_vars>>
     \/ scene = "python" /\ Python!Next /\ UNCHANGED <<vars, runner_vars>>

MCSpec == MCInit /\ [][MCNext]_all_vars

-----------------------------------------------------------------------------
(* Properties. *)

(* What an element-wise script is fed has no gaps, and it publishes one     *)
(* sample for each sample it was fed, in their order. *)
RunnerExact ==
  scene = "runner" => Runner!NothingSkipped /\ Runner!OutputOnce /\ Runner!OutputComplete

(* What a script returns is in the channels of its instance's names, each   *)
(* output in its own, and the editor's defaults are those the engine would  *)
(* have taken. *)
ReturnedExact ==
  scene = "python" =>
    /\ Python!PublishedAsReturned /\ Python!NamedAfterInputs /\ Python!ApplyChangesNothing

(* A script that reduces is paced by its hop whatever its ticks find, and   *)
(* its output stays in order, both also when it is built anew. *)
ReducePaced == scene = "runner" => Runner!ReducedOrdered /\ Runner!ReducedPaced
=============================================================================
