----------------------------- MODULE MCRecorder -----------------------------
(* A WebSocket source with two clients, the script engine and a bridge, one  *)
(* configured topic and one discovered topic.                                *)
EXTENDS Recorder

CONSTANTS c1, c2, engine, reader, ws, scripts, bridge, accel, temp, int, float

MCSlotOf == [w \in Writers |->
  IF w \in {c1, c2} THEN ws ELSE IF w = engine THEN scripts ELSE bridge]
(* The bridge records under a topic of its own name, which no channel has.   *)
MCFramesOf == [w \in Writers |->
  IF w = reader THEN {<<accel, Shared>>, <<temp, Shared>>}
  ELSE IF w = engine THEN {<<temp, int>>} ELSE {<<temp, int>>, <<accel, int>>}]
MCFramesOne == [w \in Writers |-> {<<temp, int>>}]
MCFramesTwo == [w \in Writers |-> {<<temp, IF w = c2 THEN float ELSE int>>}]

MCTopics == {accel, temp}
MCSeeded == {accel}
MCSchemas == {int, float}
=============================================================================
