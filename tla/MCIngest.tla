------------------------------ MODULE MCIngest ------------------------------
(***************************************************************************)
(* The sources: a run of each, chosen at the start, all of which show a    *)
(* connection status and end with a stop flag; the bytes they receive; and *)
(* what becomes of the messages in them.                                   *)
(***************************************************************************)
EXTENDS Integers, Sequences, FiniteSets

CONSTANTS Base, MaxBackoff, TimeoutAfter, Peers, Silent, MaxQueue, Topics, BaseOf, MaxLen, None,
          Bodies, MaxFrame, Prefix, Names, TextValues, Numbers

ASSUME IngestAssumption ==
  /\ Base \in Nat \ {0} /\ MaxBackoff \in Nat /\ MaxBackoff >= Base
  /\ TimeoutAfter \in Nat
  /\ IsFiniteSet(Peers) /\ Silent \subseteq Peers
  /\ MaxQueue \in Nat \ {0} /\ MaxLen \in Nat
  /\ IsFiniteSet(Topics)

ASSUME FramesAssumption ==
  /\ Bodies \in Seq(Nat) /\ Prefix \in Nat \ {0} /\ None \notin {"end", "io", "oversized"}

VARIABLES
  source, \* which of them
  conn, stop, backoff,
  reader, inHand, current, leaked, owner, age, watchdog, left, produced, mismatch,
  listening, thread, clients,
  receiver, quiet, waited, junk,
  client, watcher, session, requests, events, event,
  wire, sending, alive, pipe, buf, got, verdict, said, heard,
  kind, discovered, topic_map, recording, entries, writes, columns, frame

Bridge == INSTANCE BridgeSource
Ws     == INSTANCE WsClients
ZeroMq == INSTANCE Zmq
Broker == INSTANCE Mqtt
Bytes  == INSTANCE Wire
Data   == INSTANCE Delivery

shared == <<conn, stop>>
bridge == <<reader, inHand, current, leaked, owner, age, watchdog, left, produced, mismatch>>
ws     == <<listening, thread, clients>>
zmq    == <<receiver, quiet, waited, junk>>
mqtt   == <<client, watcher, session, requests, events, event>>
bytes  == <<wire, sending, alive, pipe, buf, got, verdict, said, heard>>
data   == <<kind, discovered, topic_map, recording, entries, writes, columns, frame>>
vars   == <<source, shared, backoff, bridge, ws, zmq, mqtt, bytes, data>>

MCBaseOf == [t \in Topics |-> "AB"]

(* The frames of an adapter, the last too long. *)
MCBodies == <<1, 2, 0, 4>>

MCNames == {<<"a">>, <<",">>, <<"=">>, <<" ">>, <<"a", " ">>}
MCTextValues == {<< >>, <<",">>, <<"=">>, <<" ", "a">>, <<"\"">>, <<"1", "i">>, <<",", "\"">>}
MCNumbers == {<< <<"1">>, <<"1">> >>, << <<"-", "1", "i">>, <<"-", "1">> >>,
              << <<"t">>, <<"true">> >>, << <<"f">>, <<"false">> >>,
              << <<"a", "i">>, <<"a", "i">> >>}

Init ==
  /\ source \in {"bridge", "ws", "zmq", "mqtt", "wire", "data"}
  /\ Bridge!Init /\ Ws!Init /\ ZeroMq!Init /\ Broker!Init /\ Bytes!Init /\ Data!Init
  /\ source # "data" => kind = "scalar"
  /\ source # "wire" => wire = "line"

Next ==
  /\ UNCHANGED source
  /\ \/ source = "bridge" /\ Bridge!Next /\ UNCHANGED <<ws, zmq, mqtt, bytes, data>>
     \/ source = "ws" /\ Ws!Next /\ UNCHANGED <<backoff, bridge, zmq, mqtt, bytes, data>>
     \/ source = "zmq" /\ ZeroMq!Next /\ UNCHANGED <<bridge, ws, mqtt, bytes, data>>
     \/ source = "mqtt" /\ Broker!Next /\ UNCHANGED <<backoff, bridge, ws, zmq, bytes, data>>
     \/ source = "wire" /\ Bytes!Next /\ UNCHANGED <<shared, backoff, bridge, ws, zmq, mqtt, data>>
     \/ source = "data" /\ Data!Next /\ UNCHANGED <<shared, backoff, bridge, ws, zmq, mqtt, bytes>>

bridge_vars == <<shared, backoff, bridge>>
ws_vars     == <<shared, ws>>
zmq_vars    == <<shared, backoff, zmq>>
mqtt_vars   == <<shared, mqtt>>

(* The fairness of each, of the source that runs. *)
Fairness ==
  /\ WF_bridge_vars(source = "bridge" /\ Bridge!RunLoop)
  /\ SF_bridge_vars(source = "bridge" /\ Bridge!StreamEnds)
  /\ WF_bridge_vars(source = "bridge" /\ Bridge!Watchdog)
  /\ WF_bridge_vars(source = "bridge" /\ Bridge!DropGuard)
  /\ WF_bridge_vars(source = "bridge" /\ Bridge!Tick)
  /\ \A p \in Peers : WF_ws_vars(source = "ws" /\ Ws!Serve(p))
  /\ \A p \in Peers \ Silent : WF_ws_vars(source = "ws" /\ (Ws!HandshakeOk(p) \/ Ws!HandshakeFails(p)))
  /\ WF_ws_vars(source = "ws" /\ stop /\ Ws!StopListening)
  /\ WF_zmq_vars(source = "zmq" /\ ZeroMq!RunLoop) /\ WF_zmq_vars(source = "zmq" /\ ZeroMq!Tick)
  /\ WF_mqtt_vars(source = "mqtt" /\ Broker!RunLoop)
  /\ WF_mqtt_vars(source = "mqtt" /\ Broker!WatcherDisconnects)
  /\ WF_mqtt_vars(source = "mqtt" /\ session = "none" /\ (Broker!Connects \/ Broker!Errs))
  /\ SF_mqtt_vars(source = "mqtt" /\ Broker!Requested) /\ WF_mqtt_vars(source = "mqtt" /\ Broker!Closed)

FairSpec == Init /\ [][Next]_vars /\ Fairness

-----------------------------------------------------------------------------
(* Properties. *)

(* No adapter process is orphaned by a stop, a restart or a shutdown.       *)
NoOrphan == source = "bridge" => Bridge!NoOrphan

(* What a source shows of its connection is so: a protocol mismatch of an   *)
(* adapter is permanent, the count behind a WebSocket source's status is    *)
(* exact, a ZeroMQ source is not live for long after its last message, and  *)
(* an MQTT source that is live is subscribed, or has asked for it.          *)
StatusTruthful ==
  CASE source = "bridge" -> Bridge!MismatchIsFinal
    [] source = "ws"     -> Ws!CountExact
    [] source = "zmq"    -> ZeroMq!LiveIsRecent
    [] source = "mqtt"   -> Broker!LiveIsSubscribed
    [] OTHER -> TRUE

(* What reaches the store is what was sent: the frames of an adapter arrive *)
(* whole, in order and apart, and each value fits its channel. *)
WrittenAsDeclared ==
  /\ source = "wire" => Bytes!FramesWhole
  /\ source = "data" => Data!WrittenAsDeclared

(* A line arrives as its client meant it. *)
LinesExact == source = "wire" => Bytes!LineReadsBack

(* What is recorded of a topic keeps its schema, apart from all others.     *)
SchemasKept == [][source = "data" => Data!SchemasStep]_vars

(* A source that is stopped ends: its threads return and its process is     *)
(* gone, unless the whole program ends first. *)
StopEnds ==
  stop ~> CASE source = "bridge" -> Bridge!Gone
            [] source = "ws"     -> Ws!Released
            [] source = "zmq"    -> receiver = "done"
            [] source = "mqtt"   -> client = "done"
            [] OTHER -> TRUE

(* An adapter gone silent does not stay live, and one that ended is started *)
(* again, unless the source is stopped. *)
AdapterRecovers ==
  /\ source = "bridge" => Bridge!SilenceIsNoticed
  /\ source = "bridge" => Bridge!Restarts
=============================================================================
