------------------------------- MODULE Delivery -------------------------------
(***************************************************************************)
(* What becomes of one received message (src/ingest/scalar.rs, decode.rs,  *)
(* router.rs, loader.rs, bridge/router.rs; src/record/mqtt_schema.rs;      *)
(* src/dynamic_channel.rs): the samples written to the store and the frame *)
(* queued for the recorder.                                                *)
(*                                                                         *)
(* Four kinds of messages: a payload on a topic (MQTT, WebSocket), a       *)
(* protobuf message whose fields several channels take (ZeroMQ), a batch   *)
(* of columns (bridge), and a sample a script publishes. A payload is one  *)
(* of four kinds of strings, a value its type.                             *)
(***************************************************************************)
EXTENDS Integers, Sequences, FiniteSets, FiniteSetsExt

CONSTANTS
  Topics,    \* of payloads
  BaseOf,    \* the identifier sanitize makes of each
  MaxLen,    \* bound: samples in a column or a repeated field
  None

Types == {"Int", "Float", "Bool", "Text"}

(* "1", "0.5", "on", "idle", by what they parse as. *)
ParsesAs == [bit |-> {"Int", "Float", "Bool"},
             frac |-> {"Float"}, token |-> {"Bool"}, text |-> {}]
Payloads == DOMAIN ParsesAs

VARIABLES
  kind,       \* of the source
  discovered, \* the last payload of each topic
  topic_map,  \* the type of the channel a topic is routed to
  recording,  \* the sender slot holds a sender
  entries,    \* DynamicProtoRegistry: type and message name of a topic
  writes,     \* what the last message wrote: channel type, value type, time
  columns,    \* how many samples each column of it carried and left
  frame       \* the frame it queued: topic and the type encoded

route_vars == <<kind, discovered, topic_map, recording, entries>>
vars == <<route_vars, writes, columns, frame>>

TypeOK ==
  /\ discovered \in [Topics -> Payloads \union {None}]
  /\ topic_map \in [Topics -> Types \union {None}]
  /\ recording \in BOOLEAN
  /\ \A t \in Topics : entries[t] = None \/ entries[t].type \in Types

Init ==
  /\ kind \in {"scalar", "zmq", "bridge", "script"}
  /\ discovered = [t \in Topics |-> None] /\ topic_map = [t \in Topics |-> None]
  /\ recording = FALSE /\ entries = [t \in Topics |-> None]
  /\ writes = {} /\ columns = {} /\ frame = None

Write(type, val, time) == [type |-> type, val |-> val, time |-> time]

-----------------------------------------------------------------------------
(* Payloads. *)

infer_type(p) ==
  IF "Int" \in ParsesAs[p] THEN "Int"
  ELSE IF "Float" \in ParsesAs[p] THEN "Float"
  ELSE IF "Bool" \in ParsesAs[p] THEN "Bool" ELSE "Text"

(* on_message writes a Bool whatever the payload: what is no token of truth *)
(* is false. *)
Accepted(p, type) == type \in {"Bool", "Text"} \/ type \in ParsesAs[p]

StoreRoute(p, type) ==
  IF type # None /\ Accepted(p, type) THEN {Write(type, type, "message")} ELSE {}

(* unique_name: base, base_2, base_3, ... *)
UsedNames == {entries[t].name : t \in {u \in Topics : entries[u] # None}}
base_name(t) == <<BaseOf[t], 1>>
unique_name(t) ==
  <<BaseOf[t], Min({n \in 1..Cardinality(Topics) : <<BaseOf[t], n>> \notin UsedNames})>>

(* A line of an InfluxDB client: each field is a reading on a topic of its  *)
(* own, made of measurement, tags in the order of their keys, and field. A  *)
(* field without a value or a key is left out; a tag without a value or a   *)
(* time that is no integer loses the line, as a bad head does. MQTT         *)
(* delivers one reading. *)
Reading == [topic : Topics, payload : Payloads]
Lines ==
  [head : BOOLEAN, time : BOOLEAN,
   fields : {{r, None} : r \in Reading} \union {{r, q} : r, q \in Reading}]

parse_line(line) == IF line.head /\ line.time THEN line.fields \ {None} ELSE {}

Readings == UNION {parse_line(line) : line \in Lines}

build_entry(t, type) == [type |-> type, name |-> unique_name(t)]

(* record_frame: the type of a topic is that of its first recorded payload. *)
EntryFor(t, p) ==
  IF entries[t] # None THEN entries[t] ELSE build_entry(t, infer_type(p))

(* on_message, for each reading of a line by itself. *)
Handle(t, p) ==
  LET e == EntryFor(t, p)
      encodable == e.type = "Text" \/ e.type \in ParsesAs[p]
  IN /\ discovered' = [discovered EXCEPT ![t] = p]
     /\ writes' = StoreRoute(p, topic_map[t])
     /\ IF recording
        THEN /\ entries' = [entries EXCEPT ![t] = e]
             /\ frame' = IF encodable THEN [topic |-> t, type |-> e.type] ELSE None
        ELSE UNCHANGED entries /\ frame' = None

Publish ==
  /\ kind = "scalar"
  /\ \E r \in Readings : Handle(r.topic, r.payload)
  /\ columns' = {}
  /\ UNCHANGED <<kind, topic_map, recording>>

(* resolve_or_register_drop: the channel takes the type of the payload seen *)
(* last, which is its first sample. *)
Drop ==
  /\ kind = "scalar"
  /\ \E t \in Topics :
       /\ topic_map[t] = None /\ discovered[t] # None
       /\ LET type == infer_type(discovered[t]) IN
            /\ topic_map' = [topic_map EXCEPT ![t] = type]
            /\ writes' = {Write(type, type, "now")}
  /\ columns' = {} /\ frame' = None
  /\ UNCHANGED <<kind, discovered, recording, entries>>

(* record_numeric: a topic locked to another type is not recorded. *)
record_numeric(t, type) ==
  LET e == IF entries[t] # None THEN entries[t] ELSE build_entry(t, type)
  IN [entry |-> e, frame |-> IF e.type = type THEN [topic |-> t, type |-> type] ELSE None]

(* A script publishes a sample of the type it declares; the channel keeps   *)
(* the type it was registered with, and its ring refuses any other. *)
Emit ==
  /\ kind = "script"
  /\ \E t \in Topics, type \in Types \ {"Text"} :
       LET registered == IF topic_map[t] = None THEN type ELSE topic_map[t]
           r == record_numeric(t, type)
       IN /\ topic_map' = [topic_map EXCEPT ![t] = registered]
          /\ writes' = IF registered = type THEN {Write(registered, type, "message")} ELSE {}
          /\ IF recording THEN entries' = [entries EXCEPT ![t] = r.entry] /\ frame' = r.frame
             ELSE UNCHANGED entries /\ frame' = None
  /\ columns' = {}
  /\ UNCHANGED <<kind, discovered, recording>>

(* The registry of a source outlives the recordings it fed.                 *)
ToggleRecording ==
  /\ kind \in {"scalar", "script"}
  /\ recording' = ~recording
  /\ writes' = {} /\ columns' = {} /\ frame' = None
  /\ UNCHANGED <<kind, discovered, topic_map, entries>>

-----------------------------------------------------------------------------
(* Protobuf. *)

(* resolve_ts: a time that is missing or not positive is the present.       *)
Times == {"positive", "zero", "missing"}
resolve_ts(t) == IF t = "positive" THEN "message" ELSE "now"

(* Wire values, and what write_value makes of them for a channel. *)
WireValues == {"number", "bool", "string", "other"}

extract(v, type) ==
  IF type = "Text" THEN IF v = "string" THEN {"Text"} ELSE {}
  ELSE IF v \in {"number", "bool"} THEN {type} ELSE {}

write_value(v, type, t) == {Write(type, val, resolve_ts(t)) : val \in extract(v, type)}

(* The channels of one topic take fields of one message, which is decoded   *)
(* as the type of the first of them: a field the message has not is not     *)
(* written. A path leads to a field, to a field of each element of a list,  *)
(* or is not supported. *)
Paths == {"field", "list", "deep"}

FieldValues == [v : WireValues, t : Times]

decode_channel(type, path, values) ==
  CASE path = "deep" -> {}
    [] path = "field" -> write_value(values[1].v, type, values[1].t)
    [] path = "list" -> UNION {write_value(values[i].v, type, values[i].t) : i \in DOMAIN values}

DecodeBatch ==
  /\ kind = "zmq"
  /\ \E type \in Types, path \in Paths, n \in 1..MaxLen :
       \E values \in [1..n -> FieldValues], valid \in BOOLEAN :
         writes' = IF valid THEN decode_channel(type, path, values) ELSE {}
  /\ columns' = {} /\ frame' = None
  /\ UNCHANGED route_vars

(* apply_column: a column whose values do not fit the channel, or whose     *)
(* times do not match them in number, is left out as a whole.               *)
ColumnValues == {"Strings", "Doubles", "Ints"}

FitsAnyNumber(values, type) == values = "Strings" => type = "Text"
Fits(values, type) == values = "Strings" <=> type = "Text"

ValueOf(values, type) ==
  IF values = "Strings" THEN "Text" ELSE IF type = "Text" THEN "Float" ELSE type

Matched(times, count) == Len(times) = count

apply_column(values, type, times, count) ==
  IF ~Fits(values, type) \/ ~Matched(times, count) THEN <<>>
  ELSE [i \in 1..Min({Len(times), count}) |->
          Write(type, ValueOf(values, type), resolve_ts(times[i]))]

ApplyBatch ==
  /\ kind = "bridge"
  /\ \E values \in ColumnValues, type \in Types, n \in 0..MaxLen, count \in 0..MaxLen :
       \E times \in [1..n -> Times \ {"missing"}] :
         LET col == apply_column(values, type, times, count) IN
         /\ writes' = {col[i] : i \in DOMAIN col}
         /\ columns' = {[sent |-> {n, count}, written |-> Len(col)]}
  /\ frame' = None
  /\ UNCHANGED route_vars

-----------------------------------------------------------------------------
Next == Publish \/ Drop \/ Emit \/ ToggleRecording \/ DecodeBatch \/ ApplyBatch

Spec == Init /\ [][Next]_vars

-----------------------------------------------------------------------------
(* Properties. *)

(* Whatever a message holds, what reaches the store has the type of its     *)
(* channel, so that no write is refused, a time that is one, and a column   *)
(* of a batch is written as a whole or not at all. *)
WrittenAsDeclared ==
  /\ \A w \in writes : w.val = w.type /\ w.time \in {"message", "now"}
  /\ \A c \in columns : c.written = 0 \/ c.sent = {c.written}

(* A frame is encoded under the schema of its topic, which no later payload *)
(* and no later recording changes, and two topics never share a message     *)
(* name, however alike they read. *)
SchemasStep ==
  /\ \A t \in Topics : entries[t] # None => entries'[t] = entries[t]
  /\ \A t, u \in Topics : t # u /\ entries'[t] # None /\ entries'[u] # None =>
       entries'[t].name # entries'[u].name
  /\ frame' # None => frame'.type = entries'[frame'.topic].type

SchemasKept == [][SchemasStep]_vars

(* What a channel shows while a recording runs is in the recording.         *)
ShownIsRecorded == [][recording /\ Publish /\ writes' # {} => frame' # None]_vars
=============================================================================
