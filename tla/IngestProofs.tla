---------------------------- MODULE IngestProofs ----------------------------
(***************************************************************************)
(* Proofs about the sources of MCIngest, for any time limits, peers, queue *)
(* lengths and topics.                                                     *)
(***************************************************************************)
EXTENDS MCIngest, FiniteSetTheorems, WellFoundedInduction, TLAPS

(* A run of one source is a run of the composition in which the others      *)
(* stand still. *)
SafeSpec == Init /\ [][Next]_vars

LEMMA FairIsSafe == FairSpec => SafeSpec
BY PTL DEF FairSpec, SafeSpec

LEMMA SourceStays == ASSUME [Next]_vars PROVE source' = source
BY DEF Next, vars

-----------------------------------------------------------------------------
(* The bridge source. *)

WithChild == {"recheck", "preamble", "read", "live", "stamp", "fail", "reap"}

(* Where the child is known to whom: in the reader's hand only between the  *)
(* spawn and the store, in the mutex only until it is reaped. Once the      *)
(* guard was dropped the mutex holds a running child only until the reader  *)
(* has looked at the stop flag again, which was raised before. *)
ChildPlaced ==
  /\ leaked = FALSE
  /\ inHand # "none" => reader = "store"
  /\ current # "none" => reader \in WithChild
  /\ owner # "app" => stop
  /\ owner \in {"dropped", "exited"} /\ current = "running" => reader = "recheck"

BridgeInv == source = "bridge" => ChildPlaced /\ Bridge!MismatchIsFinal

LEMMA BridgeInvInit == Init => BridgeInv
BY DEF Init, Bridge!Init, BridgeInv, ChildPlaced, Bridge!MismatchIsFinal

LEMMA BridgeReader ==
  ASSUME ChildPlaced, Bridge!MismatchIsFinal, Bridge!RunLoop
  PROVE  ChildPlaced' /\ Bridge!MismatchIsFinal'
<1>. USE DEF ChildPlaced, Bridge!MismatchIsFinal, WithChild, Bridge!At, Bridge!Running,
             Bridge!process, Bridge!timing, Bridge!history
<1>1. CASE Bridge!Top
  BY <1>1 DEF Bridge!Top
<1>2. CASE Bridge!Spawn
  BY <1>2 DEF Bridge!Spawn
<1>3. CASE Bridge!SpawnFails
  BY <1>3 DEF Bridge!SpawnFails
<1>4. CASE Bridge!StoreChild
  BY <1>4 DEF Bridge!StoreChild
<1>5. CASE Bridge!Recheck
  BY <1>5 DEF Bridge!Recheck
<1>6. CASE Bridge!SetLive
  BY <1>6 DEF Bridge!SetLive
<1>7. CASE Bridge!StampFrame
  BY <1>7 DEF Bridge!StampFrame
<1>8. CASE Bridge!StreamEnds
  BY <1>8 DEF Bridge!StreamEnds
<1>9. CASE Bridge!Reap
  BY <1>9 DEF Bridge!Reap
<1>10. CASE Bridge!Ended
  BY <1>10 DEF Bridge!Ended
<1>11. CASE Bridge!Sleep
  BY <1>11 DEF Bridge!Sleep
<1>12. CASE Bridge!ResetBackoff
  BY <1>12 DEF Bridge!ResetBackoff
<1>. QED
  BY <1>1, <1>2, <1>3, <1>4, <1>5, <1>6, <1>7, <1>8, <1>9, <1>10, <1>11, <1>12
  DEF Bridge!RunLoop

LEMMA BridgeOthers ==
  ASSUME ChildPlaced, Bridge!MismatchIsFinal,
         Bridge!Adapter \/ Bridge!Watchdog \/ Bridge!Owner \/ Bridge!Tick
  PROVE  ChildPlaced' /\ Bridge!MismatchIsFinal'
<1>. USE DEF ChildPlaced, Bridge!MismatchIsFinal, WithChild, Bridge!At, Bridge!Running,
             Bridge!process, Bridge!timing, Bridge!history
<1>1. CASE Bridge!Adapter
  BY <1>1 DEF Bridge!Adapter, Bridge!GoodPreamble, Bridge!BadPreamble, Bridge!Frame,
              Bridge!StreamBreaks, Bridge!ChildExits
<1>2. CASE Bridge!Watchdog
  BY <1>2 DEF Bridge!Watchdog, Bridge!WatchdogWakes, Bridge!WatchdogLoads, Bridge!WatchdogStores
<1>3. CASE Bridge!Owner
  BY <1>3 DEF Bridge!Owner, Bridge!Stop, Bridge!DropGuard, Bridge!ProgramEnds
<1>4. CASE Bridge!Tick
  BY <1>4 DEF Bridge!Tick
<1>. QED
  BY <1>1, <1>2, <1>3, <1>4

LEMMA BridgeInvStep == BridgeInv /\ [Next]_vars => BridgeInv'
<1>. SUFFICES ASSUME BridgeInv, [Next]_vars, source' = "bridge"
              PROVE  ChildPlaced' /\ Bridge!MismatchIsFinal'
  BY DEF BridgeInv
<1>1. source = "bridge" /\ ChildPlaced /\ Bridge!MismatchIsFinal
  BY SourceStays DEF BridgeInv
<1>2. CASE UNCHANGED vars
  BY <1>1, <1>2 DEF vars, shared, bridge, ChildPlaced, Bridge!MismatchIsFinal
<1>3. CASE Bridge!Next
  BY <1>1, <1>3, BridgeReader, BridgeOthers DEF Bridge!Next
<1>. QED
  BY <1>1, <1>2, <1>3 DEF Next

LEMMA BridgeInvAlways == SafeSpec => []BridgeInv
BY BridgeInvInit, BridgeInvStep, PTL DEF SafeSpec

(* No adapter process is orphaned by a stop, a restart or a shutdown:       *)
(* ChildGuard and the reader between them reap every child.                 *)
THEOREM AdaptersNeverOrphaned == FairSpec => []NoOrphan
<1>1. BridgeInv => NoOrphan
  BY DEF BridgeInv, ChildPlaced, WithChild, NoOrphan, Bridge!NoOrphan, Bridge!ChildRuns
<1>. QED
  BY <1>1, FairIsSafe, BridgeInvAlways, PTL

-----------------------------------------------------------------------------
(* The WebSocket source. *)

LEMMA WsCounts == \A S : Ws!Cardinality(S) = Cardinality(S)
BY DEF Ws!Cardinality, Cardinality

WsInv == source = "ws" => thread \in [Peers -> Ws!Pcs] /\ Ws!CountExact

LEMMA WsInvInit == Init => WsInv
<1>. SUFFICES ASSUME Init PROVE WsInv
  OBVIOUS
<1>1. thread = [p \in Peers |-> "none"] /\ clients = 0
  BY DEF Init, Ws!Init
<1>2. Ws!Counted = {}
  BY <1>1 DEF Ws!Counted
<1>. QED
  BY <1>1, <1>2, FS_EmptySet, WsCounts DEF WsInv, Ws!CountExact, Ws!Pcs

(* A thread that moves changes the set of the counted by itself at most.    *)
LEMMA CountedMoves ==
  ASSUME thread \in [Peers -> Ws!Pcs], Ws!CountExact,
         NEW p \in Peers, NEW pc \in Ws!Pcs, Ws!Goto(p, pc)
  PROVE  /\ thread' \in [Peers -> Ws!Pcs]
         /\ Cardinality(Ws!Counted') =
              clients - (IF p \in Ws!Counted THEN 1 ELSE 0)
                      + (IF pc \in {"setLive", "serve", "uncount"} THEN 1 ELSE 0)
         /\ clients \in Nat
<1>1. thread' \in [Peers -> Ws!Pcs]
  BY DEF Ws!Goto
<1>2. IsFiniteSet(Ws!Counted) /\ clients = Cardinality(Ws!Counted) /\ clients \in Nat
  <2>1. Ws!Counted \in SUBSET Peers
    BY DEF Ws!Counted
  <2>. QED
    BY <2>1, IngestAssumption, FS_Subset, FS_CardinalityType, WsCounts DEF Ws!CountExact
<1>3. Ws!Counted' = IF pc \in {"setLive", "serve", "uncount"}
                    THEN (Ws!Counted \ {p}) \cup {p} ELSE Ws!Counted \ {p}
  BY <1>1 DEF Ws!Counted, Ws!Goto
<1>4. /\ IsFiniteSet(Ws!Counted \ {p})
      /\ Cardinality(Ws!Counted \ {p}) = IF p \in Ws!Counted THEN clients - 1 ELSE clients
  BY <1>2, FS_RemoveElement
<1>5. Cardinality((Ws!Counted \ {p}) \cup {p}) = Cardinality(Ws!Counted \ {p}) + 1
  BY <1>4, FS_AddElement
<1>. QED
  BY <1>1, <1>2, <1>3, <1>4, <1>5

LEMMA WsThread ==
  ASSUME thread \in [Peers -> Ws!Pcs], Ws!CountExact,
         NEW p \in Peers, Ws!Serve(p) \/ Ws!Peer(p)
  PROVE  thread' \in [Peers -> Ws!Pcs] /\ Ws!CountExact'
<1>1. CASE Ws!Count(p)
  <2>1. PICK pc \in {"setLive", "serve"} : Ws!Goto(p, pc)
    BY <1>1 DEF Ws!Count
  <2>2. p \notin Ws!Counted /\ clients' = clients + 1
    BY <1>1 DEF Ws!Count, Ws!Counted
  <2>3. pc \in Ws!Pcs
    BY DEF Ws!Pcs
  <2>. QED
    BY <2>1, <2>2, <2>3, CountedMoves, WsCounts DEF Ws!CountExact
<1>2. CASE Ws!Uncount(p)
  <2>1. PICK pc \in {"setConnecting", "none"} : Ws!Goto(p, pc)
    BY <1>2 DEF Ws!Uncount
  <2>2. p \in Ws!Counted /\ clients' = clients - 1
    BY <1>2 DEF Ws!Uncount, Ws!Counted
  <2>3. pc \in Ws!Pcs
    BY DEF Ws!Pcs
  <2>. QED
    BY <2>1, <2>2, <2>3, CountedMoves, WsCounts DEF Ws!CountExact
<1>3. CASE Ws!Accept(p) \/ Ws!HandshakeFails(p) \/ Ws!HandshakeOk(p) \/ Ws!SetConnecting(p)
  <2>1. /\ \E pc \in {"handshake", "none", "count"} : Ws!Goto(p, pc)
        /\ p \notin Ws!Counted /\ clients' = clients
    BY <1>3 DEF Ws!Accept, Ws!HandshakeFails, Ws!HandshakeOk, Ws!SetConnecting, Ws!Counted
  <2>. QED
    BY <2>1, CountedMoves, WsCounts DEF Ws!CountExact, Ws!Pcs
<1>4. CASE Ws!SetLive(p) \/ Ws!PeerLeaves(p) \/ Ws!SeesStop(p)
  <2>1. /\ \E pc \in {"serve", "uncount"} : Ws!Goto(p, pc)
        /\ p \in Ws!Counted /\ clients' = clients
    BY <1>4 DEF Ws!SetLive, Ws!PeerLeaves, Ws!SeesStop, Ws!Counted
  <2>. QED
    BY <2>1, CountedMoves, WsCounts DEF Ws!CountExact, Ws!Pcs
<1>. QED
  BY <1>1, <1>2, <1>3, <1>4 DEF Ws!Serve, Ws!Peer

LEMMA WsInvStep == WsInv /\ [Next]_vars => WsInv'
<1>. SUFFICES ASSUME WsInv, [Next]_vars, source' = "ws"
              PROVE  thread' \in [Peers -> Ws!Pcs] /\ Ws!CountExact'
  BY DEF WsInv
<1>1. source = "ws" /\ thread \in [Peers -> Ws!Pcs] /\ Ws!CountExact
  BY SourceStays DEF WsInv
<1>2. CASE UNCHANGED <<thread, clients>>
  BY <1>1, <1>2 DEF Ws!CountExact, Ws!Counted
<1>3. CASE \E p \in Peers : Ws!Serve(p) \/ Ws!Peer(p)
  BY <1>1, <1>3, WsThread
<1>4. CASE Ws!StopListening \/ Ws!Stop
  BY <1>2, <1>4 DEF Ws!StopListening, Ws!Stop
<1>5. CASE UNCHANGED vars
  BY <1>2, <1>5 DEF vars, ws
<1>. QED
  BY <1>1, <1>3, <1>4, <1>5 DEF Next, Ws!Next

LEMMA WsInvAlways == SafeSpec => []WsInv
BY WsInvInit, WsInvStep, PTL DEF SafeSpec

-----------------------------------------------------------------------------
(* The ZeroMQ source. *)

(* How old the last message may be where the thread is: at most the         *)
(* time-out when the status was judged, a second more when a receive ended  *)
(* otherwise, and then what was slept. *)
Age ==
  CASE receiver = "check" -> TimeoutAfter
    [] receiver = "recv"  -> TimeoutAfter + waited
    [] receiver = "sleep" -> TimeoutAfter + 1 + MaxBackoff - waited
    [] OTHER              -> TimeoutAfter + 1 + MaxBackoff

ZmqInv ==
  source = "zmq" =>
    /\ receiver \in {"top", "connect", "check", "recv", "sleep", "done"}
    /\ quiet \in Nat /\ waited \in 0..MaxBackoff /\ backoff \in Base..MaxBackoff
    /\ receiver = "recv" => waited <= 1
    /\ receiver = "connect" => conn = "CONNECTING"
    /\ conn = "LIVE" /\ receiver # "done" => quiet <= Age \/ junk

LEMMA ZmqInvInit == Init => ZmqInv
BY IngestAssumption DEF Init, ZeroMq!Init, ZmqInv, ZeroMq!Old

LEMMA ZmqInvStep == ZmqInv /\ [Next]_vars => ZmqInv'
<1>. SUFFICES ASSUME ZmqInv, [Next]_vars, source = "zmq", source' = "zmq" PROVE ZmqInv'
  BY SourceStays DEF ZmqInv
<1>. USE IngestAssumption DEF ZmqInv, Age, ZeroMq!Old
<1>1. CASE UNCHANGED vars
  BY <1>1 DEF vars, shared, zmq
<1>2. CASE ZeroMq!Top
  BY <1>2 DEF ZeroMq!Top
<1>3. CASE ZeroMq!Slept
  BY <1>3 DEF ZeroMq!Slept, ZeroMq!Doubled
<1>4. CASE ZeroMq!Connect
  BY <1>4 DEF ZeroMq!Connect, ZeroMq!Failed
<1>5. CASE ZeroMq!Check
  BY <1>5 DEF ZeroMq!Check
<1>6. CASE ZeroMq!Expired
  BY <1>6 DEF ZeroMq!Expired
<1>7. CASE ZeroMq!Message \/ ZeroMq!Malformed
  BY <1>7 DEF ZeroMq!Message, ZeroMq!Malformed
<1>8. CASE ZeroMq!RecvFails
  BY <1>8 DEF ZeroMq!RecvFails, ZeroMq!Failed
<1>9. CASE ZeroMq!Stop
  BY <1>9 DEF ZeroMq!Stop
<1>10. CASE ZeroMq!Tick
  BY <1>10 DEF ZeroMq!Tick, ZeroMq!Older
<1>. QED
  BY <1>1, <1>2, <1>3, <1>4, <1>5, <1>6, <1>7, <1>8, <1>9, <1>10
  DEF Next, ZeroMq!Next, ZeroMq!RunLoop

LEMMA ZmqInvAlways == SafeSpec => []ZmqInv
BY ZmqInvInit, ZmqInvStep, PTL DEF SafeSpec

-----------------------------------------------------------------------------
(* The MQTT source. *)

Subscribing == \E i \in DOMAIN requests : requests[i] = "subscribe"

(* At most one event is between the library and the thread, and a new       *)
(* session is either news to it or has been asked for its messages. *)
MqttInv ==
  source = "mqtt" =>
    /\ requests \in Seq({"subscribe", "disconnect"})
    /\ events = <<>> \/ \E e \in Broker!Events : events = <<e>>
    /\ client \in {"wait", "sleep"} => event = "none"
    /\ session = "up" => events = <<"ConnAck">> \/ event = "ConnAck" \/ Subscribing

LEMMA MqttInvInit == Init => MqttInv
BY DEF Init, Broker!Init, MqttInv

LEMMA Requesting ==
  ASSUME requests \in Seq({"subscribe", "disconnect"}),
         NEW r \in {"subscribe", "disconnect"}, requests' = Append(requests, r)
  PROVE  /\ requests' \in Seq({"subscribe", "disconnect"})
         /\ Subscribing \/ r = "subscribe" => Subscribing'
<1>1. ASSUME NEW i \in DOMAIN requests, requests[i] = "subscribe" PROVE Subscribing'
  BY <1>1 DEF Subscribing
<1>2. ASSUME r = "subscribe" PROVE Subscribing'
  BY <1>2 DEF Subscribing
<1>. QED
  BY <1>1, <1>2 DEF Subscribing

LEMMA MqttInvStep == MqttInv /\ [Next]_vars => MqttInv'
<1>. SUFFICES ASSUME MqttInv, [Next]_vars, source = "mqtt", source' = "mqtt" PROVE MqttInv'
  BY SourceStays DEF MqttInv
<1>. USE DEF MqttInv, Broker!Events, Broker!Polled, Broker!Gives
<1>0. UNCHANGED requests => Subscribing' = Subscribing
  BY DEF Subscribing
<1>1. CASE UNCHANGED vars
  BY <1>0, <1>1 DEF vars, mqtt
<1>2. CASE Broker!Take
  <2>1. PICK e \in Broker!Events : events = <<e>>
    BY <1>2 DEF Broker!Take
  <2>2. Head(events) = e /\ Tail(events) = << >> /\ (events = <<"ConnAck">> => e = "ConnAck")
    BY <2>1
  <2>. QED
    BY <1>0, <1>2, <2>2 DEF Broker!Take
<1>3. CASE Broker!HandleConnAck
  BY <1>3, Requesting DEF Broker!HandleConnAck
<1>4. CASE Broker!HandleOther \/ Broker!HandleErr \/ Broker!Slept
  BY <1>0, <1>4 DEF Broker!HandleOther, Broker!HandleErr, Broker!Slept
<1>5. CASE Broker!WatcherDisconnects
  BY <1>5, Requesting DEF Broker!WatcherDisconnects
<1>6. CASE Broker!Connects \/ Broker!Errs \/ Broker!Receives \/ Broker!Closed
  <2>1. \A e : events = << >> => Append(events, e) = <<e>>
    OBVIOUS
  <2>. QED
    <3>1. CASE Broker!Connects
      BY <1>0, <2>1, <3>1 DEF Broker!Connects
    <3>2. CASE Broker!Errs
      BY <1>0, <2>1, <3>2 DEF Broker!Errs
    <3>3. CASE Broker!Receives
      BY <1>0, <2>1, <3>3 DEF Broker!Receives
    <3>4. CASE Broker!Closed
      BY <1>0, <2>1, <3>4 DEF Broker!Closed
    <3>. QED
      BY <1>6, <3>1, <3>2, <3>3, <3>4
<1>7. CASE Broker!Requested
  BY <1>7 DEF Broker!Requested
<1>8. CASE Broker!Stop
  BY <1>0, <1>8 DEF Broker!Stop
<1>. QED
  BY <1>1, <1>2, <1>3, <1>4, <1>5, <1>6, <1>7, <1>8
  DEF Next, Broker!Next, Broker!RunLoop, Broker!Library

LEMMA MqttInvAlways == SafeSpec => []MqttInv
BY MqttInvInit, MqttInvStep, PTL DEF SafeSpec

(* What a source shows of its connection is so: a mismatch of an adapter is *)
(* final, the WebSocket count exact, a live ZeroMQ source recent, a live    *)
(* MQTT source subscribed. *)
THEOREM StatusIsTruthful == FairSpec => []StatusTruthful
<1>1. ZmqInv => (source = "zmq" => ZeroMq!LiveIsRecent)
  BY IngestAssumption DEF ZmqInv, Age, ZeroMq!LiveIsRecent
<1>2. MqttInv => (source = "mqtt" => Broker!LiveIsSubscribed)
  BY DEF MqttInv, Subscribing, Broker!LiveIsSubscribed
<1>3. BridgeInv /\ WsInv /\ ZmqInv /\ MqttInv => StatusTruthful
  BY <1>1, <1>2 DEF StatusTruthful, BridgeInv, WsInv
<1>. QED
  BY <1>3, FairIsSafe, BridgeInvAlways, WsInvAlways, ZmqInvAlways, MqttInvAlways, PTL

-----------------------------------------------------------------------------
(* What becomes of a message: the names of recorded topics. *)

LEMMA SmallestOf ==
  ASSUME NEW S \in SUBSET Nat, S # {}
  PROVE  \E x \in S : \A y \in S : x <= y
<1>1. IsWellFoundedOn({ss \in Nat \X Nat : ss[1] < ss[2]}, Nat)
  BY NatLessThanWellFounded DEF OpToRel
<1>2. PICK x \in S : \A y \in S : <<y, x>> \notin {ss \in Nat \X Nat : ss[1] < ss[2]}
  BY <1>1, WFMin
<1>3. ASSUME NEW y \in S PROVE x <= y
  <2>1. x \in Nat /\ y \in Nat /\ ~(y < x)
    BY <1>2
  <2>. QED
    BY <2>1
<1>. QED
  BY <1>3

LEMMA SmallestExists ==
  ASSUME NEW S \in SUBSET Nat, S # {}
  PROVE  Data!Min(S) \in S
BY SmallestOf DEF Data!Min

LEMMA DataCounts == \A S : Data!Cardinality(S) = Cardinality(S)
BY DEF Data!Cardinality, Cardinality

Entry == [type : Data!Types, name : {BaseOf[t] : t \in Topics} \X Nat]
Distinct ==
  \A t, u \in Topics : t # u /\ entries[t] # None /\ entries[u] # None =>
    entries[t].name # entries[u].name

(* No two topics of a source share a message name. *)
NamesInv == source = "data" => entries \in [Topics -> Entry \cup {None}] /\ Distinct

LEMMA NamesInvInit == Init => NamesInv
BY DEF Init, Data!Init, NamesInv, Distinct

(* There are as many names to try as topics, so one is not taken by any of  *)
(* the others. *)
LEMMA NameIsFree ==
  ASSUME entries \in [Topics -> Entry \cup {None}], NEW t \in Topics, entries[t] = None
  PROVE  /\ Data!unique_name(t) \in {BaseOf[u] : u \in Topics} \X Nat
         /\ Data!unique_name(t) \notin Data!UsedNames
<1>. DEFINE Count == Cardinality(Topics)
            Free == {n \in 1..Count : <<BaseOf[t], n>> \notin Data!UsedNames}
            Others == Topics \ {t}
<1>1. Count \in Nat /\ IsFiniteSet(Others) /\ Cardinality(Others) = Count - 1
  BY IngestAssumption, FS_CardinalityType, FS_RemoveElement
<1>2. ASSUME Free = {} PROVE FALSE
  <2>. DEFINE Owner(n, u) == entries[u] # None /\ entries[u].name = <<BaseOf[t], n>>
              f == [n \in 1..Count |-> CHOOSE u \in Others : Owner(n, u)]
  <2>1. ASSUME NEW n \in 1..Count PROVE \E u \in Others : Owner(n, u)
    BY <1>2 DEF Data!UsedNames
  <2>2. ASSUME NEW n \in 1..Count PROVE f[n] \in Others /\ Owner(n, f[n])
    BY <2>1
  <2>3. f \in [1..Count -> Others]
    BY <2>2
  <2>4. IsFiniteSet(1..Count) /\ Cardinality(Others) < Cardinality(1..Count)
    <3>1. Count - 1 \in Nat
      BY <1>1, FS_CardinalityType
    <3>2. IsFiniteSet(1..Count) /\ Cardinality(1..Count) = IF 1 > Count THEN 0 ELSE Count - 1 + 1
      BY <1>1, FS_Interval
    <3>. QED
      BY <1>1, <3>1, <3>2
  <2>. HIDE DEF f
  <2>5. PICK m, n \in 1..Count : m # n /\ f[m] = f[n]
    BY <1>1, <2>3, <2>4, FS_PigeonHole
  <2>6. <<BaseOf[t], m>> = <<BaseOf[t], n>>
    BY <2>2, <2>5
  <2>. QED
    BY <2>5, <2>6
<1>3. Data!Min(Free) \in Free
  <2>1. Free \in SUBSET Nat /\ Free # {}
    BY <1>1, <1>2
  <2>. QED
    BY <2>1, SmallestExists
<1>4. Data!unique_name(t) = <<BaseOf[t], Data!Min(Free)>>
  BY DataCounts DEF Data!unique_name
<1>. QED
  BY <1>3, <1>4

(* Recording a topic gives it an entry if it had none, and changes no other. *)
LEMMA EntriesGrow ==
  ASSUME entries \in [Topics -> Entry \cup {None}], Distinct,
         NEW t \in Topics, NEW type \in Data!Types,
         NEW e, e = IF entries[t] # None THEN entries[t] ELSE Data!build_entry(t, type),
         entries' = [entries EXCEPT ![t] = e]
  PROVE  /\ (entries \in [Topics -> Entry \cup {None}])' /\ Distinct'
         /\ \A u \in Topics : entries[u] # None => entries'[u] = entries[u]
         /\ entries'[t] = e
<1>1. CASE entries[t] # None
  BY <1>1 DEF Distinct
<1>2. CASE entries[t] = None
  <2>1. /\ e = [type |-> type, name |-> Data!unique_name(t)]
        /\ e.name \notin Data!UsedNames /\ e \in Entry
    BY <1>2, NameIsFree DEF Data!build_entry, Entry
  <2>2. \A u \in Topics \ {t} : entries'[u] = entries[u]
    OBVIOUS
  <2>3. \A u \in Topics \ {t} : entries[u] # None => entries[u].name # e.name
    BY <2>1 DEF Data!UsedNames
  <2>4. entries'[t] = e
    OBVIOUS
  <2>5. Distinct'
    BY <2>2, <2>3, <2>4 DEF Distinct
  <2>6. (entries \in [Topics -> Entry \cup {None}])'
    BY <2>1
  <2>. QED
    BY <1>2, <2>2, <2>4, <2>5, <2>6
<1>. QED
  BY <1>1, <1>2

LEMMA ReadingsHaveTopics == \A r \in Data!Readings : r.topic \in Topics
<1>1. ASSUME NEW line \in Data!Lines, NEW r \in Data!parse_line(line)
      PROVE  r \in Data!Reading
  <2>1. r \in line.fields /\ r # None
    BY <1>1 DEF Data!parse_line
  <2>2. line.fields \in {{q, None} : q \in Data!Reading} \cup
                        {{q, s} : q \in Data!Reading, s \in Data!Reading}
    BY DEF Data!Lines
  <2>. QED
    BY <2>1, <2>2
<1>2. \A r \in Data!Readings : r \in Data!Reading
  BY <1>1 DEF Data!Readings
<1>. QED
  BY <1>2 DEF Data!Reading

LEMMA InferredIsType == \A p : Data!infer_type(p) \in Data!Types
BY DEF Data!infer_type, Data!Types

LEMMA DataStep ==
  ASSUME entries \in [Topics -> Entry \cup {None}], Distinct, Data!Next
  PROVE  /\ (entries \in [Topics -> Entry \cup {None}])' /\ Distinct'
         /\ Data!SchemasStep
<1>1. ASSUME UNCHANGED entries, frame' = None
      PROVE  /\ (entries \in [Topics -> Entry \cup {None}])' /\ Distinct'
             /\ Data!SchemasStep
  BY <1>1 DEF Distinct, Data!SchemasStep
<1>2. ASSUME NEW t \in Topics, NEW type \in Data!Types,
             NEW e, e = IF entries[t] # None THEN entries[t] ELSE Data!build_entry(t, type),
             entries' = [entries EXCEPT ![t] = e],
             frame' \in {None, [topic |-> t, type |-> e.type]}
      PROVE  /\ (entries \in [Topics -> Entry \cup {None}])' /\ Distinct'
             /\ Data!SchemasStep
  <2>1. /\ (entries \in [Topics -> Entry \cup {None}])' /\ Distinct'
        /\ \A u \in Topics : entries[u] # None => entries'[u] = entries[u]
        /\ entries'[t] = e
    BY <1>2, EntriesGrow
  <2>2. frame' # None => frame'.type = entries'[frame'.topic].type
    BY <1>2, <2>1
  <2>. QED
    BY <2>1, <2>2 DEF Distinct, Data!SchemasStep
<1>3. CASE Data!Publish
  <2>1. PICK r \in Data!Readings : Data!Handle(r.topic, r.payload)
    BY <1>3 DEF Data!Publish
  <2>. DEFINE t == r.topic
              type == Data!infer_type(r.payload)
              e == Data!EntryFor(t, r.payload)
  <2>2. t \in Topics /\ type \in Data!Types
    BY ReadingsHaveTopics, InferredIsType
  <2>3. e = IF entries[t] # None THEN entries[t] ELSE Data!build_entry(t, type)
    BY DEF Data!EntryFor
  <2>4. \/ UNCHANGED entries /\ frame' = None
        \/ /\ entries' = [entries EXCEPT ![t] = e]
           /\ frame' \in {None, [topic |-> t, type |-> e.type]}
    BY <2>1 DEF Data!Handle
  <2>. HIDE DEF t, type, e
  <2>. QED
    BY <1>1, <1>2, <2>2, <2>3, <2>4
<1>4. CASE Data!Emit
  <2>1. PICK t \in Topics, type \in Data!Types \ {"Text"} :
          \/ UNCHANGED entries /\ frame' = None
          \/ /\ entries' = [entries EXCEPT ![t] = Data!record_numeric(t, type).entry]
             /\ frame' = Data!record_numeric(t, type).frame
    BY <1>4 DEF Data!Emit
  <2>. DEFINE e == IF entries[t] # None THEN entries[t] ELSE Data!build_entry(t, type)
  <2>2. /\ Data!record_numeric(t, type).entry = e
        /\ Data!record_numeric(t, type).frame
             = IF e.type = type THEN [topic |-> t, type |-> type] ELSE None
    BY DEF Data!record_numeric
  <2>. HIDE DEF e
  <2>3. \/ UNCHANGED entries /\ frame' = None
        \/ /\ entries' = [entries EXCEPT ![t] = e]
           /\ frame' \in {None, [topic |-> t, type |-> e.type]}
    BY <2>1, <2>2
  <2>. QED
    BY <1>1, <1>2, <2>3 DEF e
<1>5. CASE Data!Drop \/ Data!ToggleRecording \/ Data!DecodeBatch \/ Data!ApplyBatch
  <2>1. UNCHANGED entries /\ frame' = None
    BY <1>5 DEF Data!Drop, Data!ToggleRecording, Data!DecodeBatch, Data!ApplyBatch, Data!route_vars
  <2>. QED
    BY <1>1, <2>1
<1>. QED
  BY <1>3, <1>4, <1>5 DEF Data!Next

LEMMA NamesInvStep == NamesInv /\ [Next]_vars => NamesInv'
<1>. SUFFICES ASSUME NamesInv, [Next]_vars, source = "data", source' = "data" PROVE NamesInv'
  BY SourceStays DEF NamesInv
<1>1. CASE UNCHANGED vars
  BY <1>1 DEF vars, data, NamesInv, Distinct
<1>2. CASE Data!Next
  BY <1>2, DataStep DEF NamesInv
<1>. QED
  BY <1>1, <1>2 DEF Next

LEMMA NamesInvAlways == SafeSpec => []NamesInv
BY NamesInvInit, NamesInvStep, PTL DEF SafeSpec

(* What is recorded of a topic keeps its schema whatever arrives later, no  *)
(* two topics share a message name however alike they read, and each frame  *)
(* is encoded as the type of its topic. *)
THEOREM SchemasAreKept == FairSpec => SchemasKept
<1>1. NamesInv /\ [Next]_vars => [source = "data" => Data!SchemasStep]_vars
  <2>1. ASSUME NamesInv, Next, source = "data" PROVE Data!SchemasStep
    <3>1. Data!Next
      BY <2>1 DEF Next
    <3>. QED
      BY <2>1, <3>1, DataStep DEF NamesInv
  <2>. QED
    BY <2>1
<1>. QED
  BY <1>1, FairIsSafe, NamesInvAlways, PTL DEF SafeSpec, SchemasKept

-----------------------------------------------------------------------------
(* What becomes of a message: the samples. *)

DataWritten == source = "data" => Data!WrittenAsDeclared

LEMMA DataWrittenInit == Init => DataWritten
BY DEF Init, Data!Init, DataWritten, Data!WrittenAsDeclared

Fitting(samples) == \A w \in samples : w.val = w.type /\ w.time \in {"message", "now"}

LEMMA FieldsFit ==
  ASSUME NEW v, NEW type, NEW t
  PROVE  Fitting(Data!write_value(v, type, t))
<1>1. Data!resolve_ts(t) \in {"message", "now"}
  BY DEF Data!resolve_ts
<1>2. \A val \in Data!extract(v, type) : val = type
  BY DEF Data!extract
<1>. QED
  BY <1>1, <1>2 DEF Data!write_value, Data!Write, Fitting

(* A column as it is written: all of it or nothing. *)
WholeColumn(col, n, count) ==
  /\ Fitting({col[i] : i \in DOMAIN col})
  /\ Len(col) = 0 \/ {n, count} = {Len(col)}

LEMMA ColumnFits ==
  ASSUME NEW values, NEW type, NEW n \in Nat, NEW count \in Nat,
         NEW times \in [1..n -> Data!Times]
  PROVE  WholeColumn(Data!apply_column(values, type, times, count), n, count)
<1>. DEFINE col == Data!apply_column(values, type, times, count)
            m == Data!Min({Len(times), count})
            sample == [i \in 1..m |-> Data!Write(type, Data!ValueOf(values, type), Data!resolve_ts(times[i]))]
<1>1. Len(times) = n
  OBVIOUS
<1>2. CASE col = << >>
  <2>1. Len(col) = 0 /\ DOMAIN col = {}
    BY <1>2
  <2>. QED
    BY <2>1 DEF Fitting, WholeColumn
<1>3. CASE col # << >>
  <2>1. /\ (values = "Strings" <=> type = "Text") /\ n = count
        /\ col = sample
    BY <1>1, <1>3 DEF Data!apply_column, Data!Fits, Data!Matched
  <2>2. m = n
    BY <1>1, <2>1 DEF Data!Min
  <2>3. Data!ValueOf(values, type) = type
    BY <2>1 DEF Data!ValueOf
  <2>4. \A t : Data!resolve_ts(t) \in {"message", "now"}
    BY DEF Data!resolve_ts
  <2>. HIDE DEF m
  <2>5. DOMAIN sample = 1..n /\ Len(sample) = n
    BY <2>2
  <2>6. \A i \in 1..n : /\ sample[i].val = sample[i].type
                        /\ sample[i].time \in {"message", "now"}
    BY <2>2, <2>3, <2>4 DEF Data!Write
  <2>. HIDE DEF sample
  <2>. QED
    BY <2>1, <2>5, <2>6 DEF Fitting, WholeColumn
<1>. QED
  BY <1>2, <1>3

LEMMA DataWrittenStep == DataWritten /\ [Next]_vars => DataWritten'
<1>. SUFFICES ASSUME Data!WrittenAsDeclared, [Next]_vars, source = "data", source' = "data"
              PROVE  Data!WrittenAsDeclared'
  BY SourceStays DEF DataWritten
<1>1. CASE UNCHANGED vars
  BY <1>1 DEF vars, data, Data!WrittenAsDeclared
<1>. SUFFICES ASSUME Data!Next PROVE Data!WrittenAsDeclared'
  BY <1>1 DEF Next
<1>2. ASSUME Fitting(writes'), columns' = {} PROVE Data!WrittenAsDeclared'
  BY <1>2 DEF Fitting, Data!WrittenAsDeclared
<1>3. CASE Data!Publish
  BY <1>2, <1>3 DEF Data!Publish, Data!Handle, Data!StoreRoute, Data!Write, Fitting
<1>4. CASE Data!Drop
  BY <1>2, <1>4 DEF Data!Drop, Data!Write, Fitting
<1>5. CASE Data!Emit
  BY <1>2, <1>5 DEF Data!Emit, Data!Write, Fitting
<1>6. CASE Data!ToggleRecording
  BY <1>2, <1>6 DEF Data!ToggleRecording, Fitting
<1>7. CASE Data!DecodeBatch
  <2>1. ASSUME NEW type, NEW path \in Data!Paths, NEW values
        PROVE  Fitting(Data!decode_channel(type, path, values))
    <3>1. CASE path = "deep"
      BY <3>1 DEF Data!decode_channel, Fitting
    <3>2. CASE path = "field"
      BY <3>2, FieldsFit DEF Data!decode_channel
    <3>3. CASE path = "list"
      <4>1. Data!decode_channel(type, path, values)
              = UNION {Data!write_value(values[i].v, type, values[i].t) : i \in DOMAIN values}
        BY <3>3 DEF Data!decode_channel
      <4>2. \A i \in DOMAIN values : Fitting(Data!write_value(values[i].v, type, values[i].t))
        BY FieldsFit
      <4>. QED
        BY <4>1, <4>2 DEF Fitting
    <3>. QED
      BY <3>1, <3>2, <3>3 DEF Data!Paths
  <2>2. Fitting(writes') /\ columns' = {}
    BY <1>7, <2>1 DEF Data!DecodeBatch, Fitting
  <2>. QED
    BY <1>2, <2>2
<1>8. CASE Data!ApplyBatch
  <2>0. PICK values \in Data!ColumnValues, type \in Data!Types, n \in 0..MaxLen, count \in 0..MaxLen :
          \E times \in [1..n -> Data!Times \ {"missing"}] :
            LET col == Data!apply_column(values, type, times, count) IN
            /\ writes' = {col[i] : i \in DOMAIN col}
            /\ columns' = {[sent |-> {n, count}, written |-> Len(col)]}
    BY <1>8 DEF Data!ApplyBatch
  <2>1. PICK times \in [1..n -> Data!Times \ {"missing"}] :
          LET col == Data!apply_column(values, type, times, count) IN
          /\ writes' = {col[i] : i \in DOMAIN col}
          /\ columns' = {[sent |-> {n, count}, written |-> Len(col)]}
    BY <2>0
  <2>2. times \in [1..n -> Data!Times] /\ n \in Nat /\ count \in Nat
    BY IngestAssumption
  <2>. DEFINE col == Data!apply_column(values, type, times, count)
  <2>3. WholeColumn(col, n, count)
    BY <2>2, ColumnFits
  <2>4. /\ writes' = {col[i] : i \in DOMAIN col}
        /\ columns' = {[sent |-> {n, count}, written |-> Len(col)]}
    BY <2>1
  <2>. HIDE DEF col
  <2>. QED
    BY <2>3, <2>4 DEF WholeColumn, Fitting, Data!WrittenAsDeclared
<1>. QED
  BY <1>3, <1>4, <1>5, <1>6, <1>7, <1>8 DEF Data!Next

(* Whatever a message holds, what reaches the store has the type of its     *)
(* channel and a time, and a column is written as a whole or not at all.    *)
THEOREM SamplesFitChannels == FairSpec => [](source = "data" => Data!WrittenAsDeclared)
<1>1. SafeSpec => []DataWritten
  BY DataWrittenInit, DataWrittenStep, PTL DEF SafeSpec
<1>. QED
  BY <1>1, FairIsSafe, PTL DEF DataWritten

-----------------------------------------------------------------------------
(* Frames: what is in the pipe, in hand and returned is what the adapter    *)
(* wrote, without a gap.                                                    *)

Byte == Nat \X Nat

InHand == Len(got) + 1

Returned ==
  got \in Seq(Seq(Byte)) /\ \A i \in DOMAIN got : got[i] = Bytes!BytesOf(i)

Partial ==
  /\ buf \in Seq(Byte) /\ Len(buf) <= Bytes!Wanted
  /\ buf # << >> => InHand \in DOMAIN Bodies
  /\ \A i \in 1..Len(buf) : buf[i] = <<InHand, i>>

(* The byte that comes after those in hand. *)
Ahead == IF buf = << >> THEN <<InHand, 1>> ELSE Bytes!After(<<InHand, Len(buf)>>)

Chained ==
  /\ sending \in Byte /\ pipe \in Seq(Byte)
  /\ \A k \in 1..Len(pipe) :
       /\ pipe[k][1] \in DOMAIN Bodies
       /\ Bytes!After(pipe[k]) = IF k = Len(pipe) THEN sending ELSE pipe[k + 1]
  /\ Ahead = IF pipe = << >> THEN sending ELSE pipe[1]

Ended ==
  /\ verdict = "end" => ~alive /\ sending = <<InHand, 1>>
  /\ verdict = "io" => ~alive /\ sending[1] = InHand /\ sending[2] > 1
  /\ verdict = "oversized" => Bodies[InHand] > MaxFrame

FramesInv == Returned /\ Partial /\ Chained /\ Ended

LEMMA SizeIs ==
  ASSUME NEW f \in DOMAIN Bodies
  PROVE  /\ Bodies[f] \in Nat /\ Bytes!Size(f) = Prefix + Bodies[f]
         /\ Bytes!Size(f) \in Nat /\ Bytes!Size(f) >= Prefix /\ Prefix \in Nat \ {0}
<1>1. Bodies \in Seq(Nat)
  BY FramesAssumption
<1>2. Bodies[f] \in Nat
  BY <1>1
<1>. QED
  BY <1>2, FramesAssumption DEF Bytes!Size

LEMMA AfterIs ==
  ASSUME NEW f \in Nat, NEW k \in Nat
  PROVE  Bytes!After(<<f, k>>) = IF k = Bytes!Size(f) THEN <<f + 1, 1>> ELSE <<f, k + 1>>
BY DEF Bytes!After

LEMMA AfterIsByte ==
  ASSUME NEW b \in Byte
  PROVE  Bytes!After(b) \in Byte
BY DEF Bytes!After, Byte

LEMMA FramesInvInit == Bytes!Init => FramesInv
<1>. SUFFICES ASSUME Bytes!Init PROVE FramesInv
  OBVIOUS
<1>1. /\ sending = <<1, 1>> /\ pipe = << >> /\ buf = << >> /\ got = << >> /\ verdict = None
  BY DEF Bytes!Init
<1>2. Len(got) = 0 /\ DOMAIN got = {} /\ Len(buf) = 0 /\ Len(pipe) = 0
  BY <1>1
<1>3. Returned
  BY <1>1, <1>2 DEF Returned
<1>4. Partial
  BY <1>1, <1>2, FramesAssumption DEF Partial, Bytes!Wanted
<1>5. Chained
  BY <1>1, <1>2 DEF Chained, Byte, Ahead, InHand
<1>6. Ended
  BY <1>1, FramesAssumption DEF Ended
<1>. QED
  BY <1>3, <1>4, <1>5, <1>6 DEF FramesInv

(* What is wanted of the frame in hand. *)
LEMMA WantedIs ==
  ASSUME FramesInv, NEW f, f = InHand, f \in DOMAIN Bodies
  PROVE  /\ Prefix <= Bytes!Wanted /\ Bytes!Wanted <= Bytes!Size(f)
         /\ Bytes!Wanted \in Nat /\ f \in Nat /\ Len(buf) \in Nat
         /\ Len(buf) >= Prefix =>
              /\ Bytes!TooLong <=> Bodies[f] > MaxFrame
              /\ ~Bytes!TooLong => Bytes!Wanted = Bytes!Size(f)
<1>0. Len(buf) \in Nat /\ f \in Nat
  BY DEF FramesInv, Partial, Returned, InHand
<1>1. Len(buf) >= Prefix => Bytes!Length(buf) = Bodies[f]
  <2>. SUFFICES ASSUME Len(buf) >= Prefix PROVE Bytes!Length(buf) = Bodies[f]
    OBVIOUS
  <2>1. 1 \in 1..Len(buf)
    BY <1>0, FramesAssumption
  <2>2. buf[1] = <<f, 1>>
    BY <2>1 DEF FramesInv, Partial
  <2>. QED
    BY <2>2 DEF Bytes!Length
<1>. QED
  BY <1>0, <1>1, SizeIs DEF Bytes!Wanted, Bytes!TooLong

LEMMA WritesKeeps ==
  ASSUME FramesInv, Bytes!AdapterWrites
  PROVE  FramesInv'
<1>1. /\ alive /\ sending[1] \in DOMAIN Bodies
      /\ pipe' = Append(pipe, sending) /\ sending' = Bytes!After(sending)
      /\ UNCHANGED <<alive, buf, got, verdict>>
  BY DEF Bytes!AdapterWrites
<1>2. Returned' /\ Partial' /\ InHand' = InHand /\ Ahead' = Ahead
  BY <1>1 DEF FramesInv, Returned, Partial, InHand, Ahead, Bytes!Wanted, Bytes!TooLong
<1>3. Chained'
  <2>1. sending \in Byte /\ pipe \in Seq(Byte) /\ Len(pipe) \in Nat
    BY DEF FramesInv, Chained
  <2>2. sending' \in Byte /\ pipe' \in Seq(Byte) /\ Len(pipe') = Len(pipe) + 1
    BY <1>1, <2>1, AfterIsByte
  <2>3. \A k \in 1..Len(pipe) : pipe'[k] = pipe[k]
    BY <1>1, <2>1
  <2>4. pipe'[Len(pipe) + 1] = sending
    BY <1>1, <2>1
  <2>5. ASSUME NEW k \in 1..Len(pipe')
        PROVE  /\ pipe'[k][1] \in DOMAIN Bodies
               /\ Bytes!After(pipe'[k]) = IF k = Len(pipe') THEN sending' ELSE pipe'[k + 1]
    <3>1. CASE k = Len(pipe) + 1
      BY <3>1, <2>2, <2>4, <1>1
    <3>2. CASE k = Len(pipe)
      <4>1. k \in 1..Len(pipe) /\ k # Len(pipe')
        BY <3>2, <2>1, <2>2
      <4>. QED
        BY <4>1, <3>2, <2>3, <2>4 DEF FramesInv, Chained
    <3>3. CASE k \in 1..Len(pipe) /\ k # Len(pipe)
      <4>1. k + 1 \in 1..Len(pipe) /\ k # Len(pipe')
        BY <3>3, <2>1, <2>2
      <4>. QED
        BY <4>1, <3>3, <2>3 DEF FramesInv, Chained
    <3>. QED
      BY <3>1, <3>2, <3>3, <2>1, <2>2
  <2>6. Ahead = IF pipe' = << >> THEN sending' ELSE pipe'[1]
    <3>1. pipe' # << >>
      BY <2>1, <2>2
    <3>2. CASE pipe = << >>
      BY <3>1, <3>2, <2>4 DEF FramesInv, Chained
    <3>3. CASE pipe # << >>
      <4>1. 1 \in 1..Len(pipe)
        BY <3>3, <2>1
      <4>. QED
        BY <3>1, <3>3, <4>1, <2>3 DEF FramesInv, Chained
    <3>. QED
      BY <3>2, <3>3
  <2>. QED
    BY <1>2, <2>2, <2>5, <2>6 DEF Chained
<1>4. Ended'
  BY <1>1, <1>2 DEF FramesInv, Ended
<1>. QED
  BY <1>2, <1>3, <1>4 DEF FramesInv

(* As long as they are wanted, the bytes in the pipe are the next ones of   *)
(* the frame in hand: a first one that is not would follow one that is.     *)
LEMMA WantedComeNext ==
  ASSUME FramesInv, NEW f, f = InHand, NEW w \in Nat, w <= Len(pipe),
         f \in DOMAIN Bodies, Len(buf) + w <= Bytes!Wanted
  PROVE  \A k \in 1..w : pipe[k] = <<f, Len(buf) + k>>
<1>. DEFINE m == Len(buf)
            Bad == {k \in Nat : k \in 1..w /\ pipe[k] # <<f, m + k>>}
<1>1. /\ Prefix <= Bytes!Wanted /\ Bytes!Wanted <= Bytes!Size(f) /\ Bytes!Wanted \in Nat
      /\ f \in Nat /\ m \in Nat /\ Bytes!Size(f) \in Nat /\ Prefix \in Nat \ {0}
  BY WantedIs, SizeIs
<1>2. pipe \in Seq(Byte) /\ Len(pipe) \in Nat
  BY DEF FramesInv, Chained
<1>3. 0 < w => pipe[1] = <<f, m + 1>>
  <2>. SUFFICES ASSUME 0 < w PROVE pipe[1] = <<f, m + 1>>
    OBVIOUS
  <2>1. pipe # << >> /\ pipe[1] = Ahead
    BY <1>2 DEF FramesInv, Chained
  <2>2. CASE buf = << >>
    BY <2>1, <2>2 DEF Ahead
  <2>3. CASE buf # << >>
    <3>1. Ahead = Bytes!After(<<f, m>>)
      BY <2>3 DEF Ahead
    <3>. HIDE DEF m
    <3>2. m # Bytes!Size(f)
      BY <1>1 DEF m
    <3>. QED
      BY <3>1, <3>2, <2>1, <1>1, AfterIs
  <2>. QED
    BY <2>2, <2>3
<1>4. ASSUME NEW k \in Nat, k >= 1, k + 1 <= w, pipe[k] = <<f, m + k>>
      PROVE  pipe[k + 1] = <<f, m + (k + 1)>>
  <2>1. k \in 1..Len(pipe) /\ k # Len(pipe)
    BY <1>2, <1>4
  <2>2. pipe[k + 1] = Bytes!After(<<f, m + k>>)
    BY <2>1, <1>4 DEF FramesInv, Chained
  <2>. HIDE DEF m
  <2>3. m + k \in Nat /\ m + k # Bytes!Size(f)
    BY <1>1, <1>4 DEF m
  <2>4. Bytes!After(<<f, m + k>>) = <<f, (m + k) + 1>>
    BY <2>3, <1>1, AfterIs
  <2>. QED
    BY <2>2, <2>4, <1>1
<1>5. Bad = {}
  <2>. SUFFICES ASSUME Bad # {} PROVE FALSE
    OBVIOUS
  <2>1. PICK k \in Bad : \A j \in Bad : k <= j
    <3>1. Bad \in SUBSET Nat
      OBVIOUS
    <3>. HIDE DEF Bad
    <3>. QED
      BY <3>1, SmallestOf
  <2>2. k \in Nat /\ 1 <= k /\ k <= w /\ pipe[k] # <<f, m + k>>
    OBVIOUS
  <2>3. k # 1
    BY <1>3, <2>2
  <2>. DEFINE j == k - 1
  <2>4. j \in Nat /\ j >= 1 /\ j + 1 <= w /\ ~(k <= j) /\ j + 1 = k
    BY <2>2, <2>3
  <2>5. j \notin Bad
    BY <2>1, <2>4
  <2>6. pipe[j] = <<f, m + j>>
    BY <2>4, <2>5
  <2>. HIDE DEF j, m, Bad
  <2>. QED
    BY <1>4, <2>2, <2>4, <2>6
<1>. QED
  BY <1>5

LEMMA MinOfTwo ==
  ASSUME NEW a \in Nat, NEW b \in Nat
  PROVE  Bytes!Min({a, b}) = IF a <= b THEN a ELSE b
BY DEF Bytes!Min

LEMMA ReadKeeps ==
  ASSUME FramesInv, Bytes!ReadSome
  PROVE  FramesInv'
<1>. DEFINE w == Bytes!Min({Len(pipe), Bytes!Wanted - Len(buf)})
            f == InHand
            m == Len(buf)
<1>1. /\ verdict = None /\ pipe # << >> /\ m < Bytes!Wanted
      /\ buf' = buf \o SubSeq(pipe, 1, w) /\ pipe' = SubSeq(pipe, w + 1, Len(pipe))
      /\ UNCHANGED <<sending, alive, got, verdict>>
  BY DEF Bytes!ReadSome
<1>2. /\ pipe \in Seq(Byte) /\ Len(pipe) \in Nat /\ Len(pipe) > 0 /\ buf \in Seq(Byte) /\ m \in Nat
      /\ f \in Nat
  BY <1>1 DEF FramesInv, Chained, Partial, Returned, InHand
<1>3. f \in DOMAIN Bodies
  <2>1. CASE buf = << >>
    <3>1. pipe[1] = <<f, 1>> /\ 1 \in 1..Len(pipe)
      BY <2>1, <1>1, <1>2 DEF FramesInv, Chained, Ahead
    <3>2. pipe[1][1] \in DOMAIN Bodies
      BY <3>1 DEF FramesInv, Chained
    <3>. QED
      BY <3>1, <3>2
  <2>. QED
    BY <2>1 DEF FramesInv, Partial
<1>4. /\ Bytes!Wanted \in Nat /\ Prefix <= Bytes!Wanted /\ Bytes!Wanted <= Bytes!Size(f)
      /\ m >= Prefix => Bytes!Wanted = Prefix \/ Bytes!Wanted = Bytes!Size(f)
      /\ m >= Prefix => (Bytes!TooLong <=> Bodies[f] > MaxFrame)
      /\ m >= Prefix /\ ~Bytes!TooLong => Bytes!Wanted = Bytes!Size(f)
      /\ Bytes!TooLong => m >= Prefix /\ Bytes!Wanted = Prefix
      /\ m < Prefix => Bytes!Wanted = Prefix
      /\ Prefix \in Nat \ {0} /\ Bodies[f] \in Nat
  <2>1. Bytes!TooLong => m >= Prefix /\ Bytes!Wanted = Prefix
    BY DEF Bytes!TooLong, Bytes!Wanted
  <2>2. m < Prefix => Bytes!Wanted = Prefix
    BY DEF Bytes!Wanted
  <2>. QED
    BY <1>3, WantedIs, SizeIs, <2>1, <2>2
<1>5. w \in Nat /\ 1 <= w /\ w <= Len(pipe) /\ m + w <= Bytes!Wanted
  <2>1. Bytes!Wanted - m \in Nat /\ Bytes!Wanted - m > 0
    BY <1>1, <1>2, <1>4
  <2>2. w = IF Len(pipe) <= Bytes!Wanted - m THEN Len(pipe) ELSE Bytes!Wanted - m
    BY <1>2, <2>1, MinOfTwo
  <2>. HIDE DEF w, m
  <2>. QED
    BY <1>2, <1>4, <2>1, <2>2
<1>6. \A k \in 1..w : pipe[k] = <<f, m + k>>
  <2>. HIDE DEF w
  <2>. QED
    BY <1>3, <1>5, WantedComeNext
<1>. HIDE DEF w
<1>7. /\ SubSeq(pipe, 1, w) \in Seq(Byte) /\ Len(SubSeq(pipe, 1, w)) = w
      /\ \A k \in 1..w : SubSeq(pipe, 1, w)[k] = pipe[k]
  BY <1>2, <1>5
<1>8. /\ pipe' \in Seq(Byte) /\ Len(pipe') = Len(pipe) - w /\ Len(pipe') \in Nat
      /\ \A k \in 1..Len(pipe') : pipe'[k] = pipe[k + w] /\ k + w \in 1..Len(pipe)
  <2>1. pipe' \in Seq(Byte) /\ Len(pipe') = Len(pipe) - w
    BY <1>1, <1>2, <1>5
  <2>2. \A k \in 1..(Len(pipe) - w) : SubSeq(pipe, w + 1, Len(pipe))[k] = pipe[k + w]
    BY <1>2, <1>5
  <2>. QED
    BY <2>1, <2>2, <1>1, <1>2, <1>5
<1>9. buf' \in Seq(Byte) /\ Len(buf') = m + w /\ \A i \in 1..(m + w) : buf'[i] = <<f, i>>
  <2>1. buf' \in Seq(Byte) /\ Len(buf') = m + w
    BY <1>1, <1>2, <1>7
  <2>. SUFFICES ASSUME NEW i \in 1..(m + w) PROVE buf'[i] = <<f, i>>
    BY <2>1
  <2>2. CASE i <= m
    <3>1. i \in 1..Len(buf)
      BY <2>2, <1>2, <1>5
    <3>2. (buf \o SubSeq(pipe, 1, w))[i] = buf[i]
      BY <3>1, <1>2, <1>7
    <3>. QED
      BY <3>1, <3>2, <1>1 DEF FramesInv, Partial
  <2>3. CASE ~(i <= m)
    <3>1. i - m \in 1..w /\ m + (i - m) = i
      BY <2>3, <1>2, <1>5
    <3>2. (buf \o SubSeq(pipe, 1, w))[i] = SubSeq(pipe, 1, w)[i - m]
      BY <2>3, <1>2, <1>5, <1>7
    <3>. QED
      BY <3>1, <3>2, <1>1, <1>6, <1>7
  <2>. QED
    BY <2>2, <2>3
<1>10. InHand' = f /\ Returned'
  BY <1>1 DEF FramesInv, Returned, InHand
<1>. HIDE DEF f
<1>11. Partial'
  <2>1. Len(buf') <= Bytes!Wanted'
    <3>1. CASE m + w <= Prefix
      <4>1. Bytes!Wanted' >= Prefix /\ Bytes!Wanted' \in Nat
        <5>1. Len(buf') >= Prefix => Bytes!Length(buf') = Bodies[f]
          <6>1. 1 \in 1..(m + w) /\ buf'[1] = <<f, 1>>
            BY <1>2, <1>5, <1>9
          <6>. QED
            BY <6>1 DEF Bytes!Length
        <5>. QED
          BY <5>1, <1>4, <1>9 DEF Bytes!Wanted
      <4>. QED
        BY <3>1, <4>1, <1>2, <1>4, <1>5, <1>9
    <3>2. CASE ~(m + w <= Prefix)
      <4>1. m >= Prefix /\ ~Bytes!TooLong /\ Bytes!Wanted = Bytes!Size(f)
        BY <3>2, <1>2, <1>4, <1>5
      <4>2. Bytes!Length(buf') = Bodies[f]
        <5>1. 1 \in 1..(m + w) /\ buf'[1] = <<f, 1>>
          BY <1>2, <1>5, <1>9
        <5>. QED
          BY <5>1 DEF Bytes!Length
      <4>3. ~(Bodies[f] > MaxFrame)
        BY <4>1, <1>4
      <4>4. Bytes!Wanted' = Prefix + Bodies[f]
        BY <3>2, <4>2, <4>3, <1>9, <1>2, <1>4, <1>5 DEF Bytes!Wanted, Bytes!TooLong
      <4>. QED
        BY <4>1, <4>4, <1>3, <1>5, <1>9, SizeIs
    <3>. QED
      BY <3>1, <3>2
  <2>. QED
    BY <2>1, <1>3, <1>9, <1>10 DEF Partial
<1>12. Chained'
  <2>1. \A k \in 1..Len(pipe) :
         /\ pipe[k][1] \in DOMAIN Bodies
         /\ Bytes!After(pipe[k]) = IF k = Len(pipe) THEN sending ELSE pipe[k + 1]
    BY DEF FramesInv, Chained
  <2>2. ASSUME NEW k \in 1..Len(pipe')
        PROVE  /\ pipe'[k][1] \in DOMAIN Bodies
               /\ Bytes!After(pipe'[k]) = IF k = Len(pipe') THEN sending ELSE pipe'[k + 1]
    <3>1. pipe'[k] = pipe[k + w] /\ k + w \in 1..Len(pipe)
      BY <1>8
    <3>2. k = Len(pipe') <=> k + w = Len(pipe)
      BY <1>2, <1>5, <1>8
    <3>3. k # Len(pipe') => pipe'[k + 1] = pipe[(k + w) + 1]
      <4>. SUFFICES ASSUME k # Len(pipe') PROVE pipe'[k + 1] = pipe[(k + w) + 1]
        OBVIOUS
      <4>0. Len(pipe') \in Nat /\ k \in Nat /\ k # Len(pipe')
        BY <1>8
      <4>1. k + 1 \in 1..Len(pipe') /\ (k + 1) + w = (k + w) + 1
        BY <4>0, <1>5
      <4>. QED
        BY <4>1, <1>8
    <3>. QED
      BY <2>1, <3>1, <3>2, <3>3
  <2>3. Ahead' = Bytes!After(pipe[w])
    <3>1. Ahead' = Bytes!After(<<f, m + w>>)
      <4>1. buf' # << >>
        BY <1>2, <1>5, <1>9
      <4>. QED
        BY <4>1, <1>9, <1>10 DEF Ahead, Bytes!After, Bytes!Size
    <3>. QED
      BY <3>1, <1>5, <1>6
  <2>4. Bytes!After(pipe[w]) = IF pipe' = << >> THEN sending ELSE pipe'[1]
    <3>1. w \in 1..Len(pipe)
      BY <1>2, <1>5
    <3>2. pipe' = << >> <=> w = Len(pipe)
      BY <1>2, <1>5, <1>8
    <3>3. w # Len(pipe) => pipe'[1] = pipe[w + 1]
      <4>. SUFFICES ASSUME w # Len(pipe) PROVE pipe'[1] = pipe[w + 1]
        OBVIOUS
      <4>1. 1 \in 1..Len(pipe') /\ 1 + w = w + 1
        BY <1>2, <1>5, <1>8
      <4>. QED
        BY <4>1, <1>8
    <3>. QED
      BY <2>1, <3>1, <3>2, <3>3
  <2>5. sending' \in Byte /\ sending' = sending
    BY <1>1 DEF FramesInv, Chained
  <2>. QED
    BY <1>8, <2>2, <2>3, <2>4, <2>5 DEF Chained
<1>13. Ended'
  BY <1>1, FramesAssumption DEF Ended
<1>. QED
  BY <1>10, <1>11, <1>12, <1>13 DEF FramesInv

(* A frame is returned when it is whole.                                    *)
LEMMA ReturnKeeps ==
  ASSUME FramesInv, Bytes!NextFrame
  PROVE  FramesInv'
<1>. DEFINE f == InHand
            m == Len(buf)
<1>1. /\ verdict = None /\ m >= Prefix /\ m = Bytes!Wanted /\ ~Bytes!TooLong
      /\ got' = Append(got, buf) /\ buf' = << >>
      /\ UNCHANGED <<sending, alive, pipe, verdict>>
  BY DEF Bytes!NextFrame, Bytes!Complete
<1>2. /\ buf \in Seq(Byte) /\ m \in Nat /\ got \in Seq(Seq(Byte)) /\ Len(got) \in Nat
      /\ f = Len(got) + 1
  BY DEF FramesInv, Partial, Returned, InHand
<1>3. f \in DOMAIN Bodies
  <2>1. buf # << >>
    BY <1>1, <1>2, FramesAssumption
  <2>. QED
    BY <2>1 DEF FramesInv, Partial
<1>4. m = Bytes!Size(f) /\ f \in Nat
  BY <1>1, <1>3, WantedIs
<1>5. buf = Bytes!BytesOf(f)
  <2>1. \A i \in 1..m : buf[i] = <<f, i>>
    BY DEF FramesInv, Partial
  <2>2. buf = [i \in 1..m |-> buf[i]]
    BY <1>2
  <2>. QED
    BY <2>1, <2>2, <1>4 DEF Bytes!BytesOf
<1>6. Ahead = <<f + 1, 1>>
  <2>1. buf # << >>
    BY <1>1, <1>2, FramesAssumption
  <2>2. Ahead = Bytes!After(<<f, m>>)
    BY <2>1 DEF Ahead
  <2>. HIDE DEF f, m
  <2>. QED
    BY <2>2, <1>2, <1>4, AfterIs
<1>7. Len(got') = f /\ got' \in Seq(Seq(Byte)) /\ InHand' = f + 1
  BY <1>1, <1>2 DEF InHand
<1>8. Returned'
  <2>1. \A i \in 1..Len(got) : got'[i] = got[i]
    BY <1>1, <1>2
  <2>2. got'[f] = buf
    BY <1>1, <1>2
  <2>3. DOMAIN got' = 1..f /\ DOMAIN got = 1..Len(got)
    BY <1>2, <1>7
  <2>4. ASSUME NEW i \in 1..f PROVE got'[i] = Bytes!BytesOf(i)
    <3>1. CASE i = f
      BY <3>1, <2>2, <1>5
    <3>2. CASE i # f
      <4>1. i \in 1..Len(got)
        BY <3>2, <1>2
      <4>. QED
        BY <4>1, <2>1, <2>3 DEF FramesInv, Returned
    <3>. QED
      BY <3>1, <3>2
  <2>. QED
    BY <1>7, <2>3, <2>4 DEF Returned, Bytes!BytesOf, Bytes!Size
<1>. HIDE DEF f
<1>9. Partial'
  <2>1. Len(buf') = 0
    BY <1>1
  <2>2. Bytes!Wanted' = Prefix
    BY <2>1, FramesAssumption DEF Bytes!Wanted
  <2>. QED
    BY <2>1, <2>2, <1>1, FramesAssumption DEF Partial
<1>10. Chained'
  <2>1. Ahead' = Ahead
    BY <1>1, <1>6, <1>7 DEF Ahead
  <2>. QED
    BY <2>1, <1>1 DEF FramesInv, Chained, Bytes!After, Bytes!Size
<1>11. Ended'
  BY <1>1, FramesAssumption DEF Ended
<1>. QED
  BY <1>8, <1>9, <1>10, <1>11 DEF FramesInv

(* The stream is given up when there is nothing left of it, or too much.    *)
LEMMA EndKeeps ==
  ASSUME FramesInv, Bytes!EndOfStream \/ Bytes!Oversized \/ Bytes!AdapterEnds
  PROVE  FramesInv'
<1>0. UNCHANGED <<sending, pipe, buf, got>>
  BY DEF Bytes!EndOfStream, Bytes!Oversized, Bytes!AdapterEnds
<1>1. Returned' /\ Partial' /\ InHand' = InHand /\ Ahead' = Ahead
  BY <1>0 DEF FramesInv, Returned, Partial, InHand, Ahead, Bytes!Wanted, Bytes!TooLong
<1>2. Chained'
  BY <1>0, <1>1 DEF FramesInv, Chained
<1>t. InHand \in Nat /\ Len(buf) \in Nat /\ buf \in Seq(Byte)
  BY DEF FramesInv, Returned, Partial, InHand
<1>3. CASE Bytes!AdapterEnds
  <2>1. alive /\ verdict' = verdict
    BY <1>3 DEF Bytes!AdapterEnds
  <2>2. verdict # "end" /\ verdict # "io" /\ (verdict = "oversized" => Bodies[InHand] > MaxFrame)
    BY <2>1 DEF FramesInv, Ended
  <2>3. Ended'
    BY <2>1, <2>2, <1>1 DEF Ended
  <2>. QED
    BY <2>3, <1>1, <1>2 DEF FramesInv
<1>4. CASE Bytes!Oversized
  <2>1. verdict' = "oversized" /\ Bytes!TooLong
    BY <1>4 DEF Bytes!Oversized
  <2>2. Len(buf) >= Prefix /\ buf # << >> /\ InHand \in DOMAIN Bodies
    <3>1. Len(buf) >= Prefix
      BY <2>1 DEF Bytes!TooLong
    <3>2. buf # << >>
      BY <3>1, <1>t, FramesAssumption
    <3>. QED
      BY <3>1, <3>2 DEF FramesInv, Partial
  <2>3. Bodies[InHand] > MaxFrame
    BY <2>1, <2>2, WantedIs
  <2>. QED
    BY <2>1, <2>3, <1>1, <1>2 DEF FramesInv, Ended
<1>5. CASE Bytes!EndOfStream
  <2>1. /\ pipe = << >> /\ ~alive /\ ~Bytes!Complete /\ alive' = alive
        /\ verdict' = IF buf = << >> THEN "end" ELSE "io"
    BY <1>5 DEF Bytes!EndOfStream
  <2>2. sending = Ahead
    BY <2>1 DEF FramesInv, Chained
  <2>3. CASE buf = << >>
    BY <2>1, <2>2, <2>3, <1>0, <1>1, <1>2 DEF Ended, Ahead, FramesInv
  <2>4. CASE buf # << >>
    <3>1. InHand \in DOMAIN Bodies /\ Len(buf) <= Bytes!Wanted
      BY <2>4 DEF FramesInv, Partial
    <3>2. Len(buf) < Bytes!Size(InHand) /\ Bytes!Size(InHand) \in Nat
      <4>1. /\ Prefix <= Bytes!Wanted /\ Bytes!Wanted <= Bytes!Size(InHand)
            /\ Bytes!Wanted \in Nat /\ Bytes!Size(InHand) \in Nat /\ Prefix \in Nat
        BY <3>1, WantedIs, SizeIs
      <4>2. ~(Len(buf) >= Prefix /\ Len(buf) = Bytes!Wanted)
        BY <2>1 DEF Bytes!Complete
      <4>. QED
        BY <3>1, <4>1, <4>2, <1>t
    <3>3. Ahead = <<InHand, Len(buf) + 1>>
      <4>1. Ahead = Bytes!After(<<InHand, Len(buf)>>)
        BY <2>4 DEF Ahead
      <4>2. Len(buf) # Bytes!Size(InHand)
        BY <3>2, <1>t
      <4>. QED
        BY <4>1, <4>2, <1>t, AfterIs
    <3>4. Len(buf) > 0
      BY <2>4, <1>t
    <3>. QED
      BY <2>1, <2>2, <2>4, <3>3, <3>4, <1>0, <1>1, <1>2, <1>t DEF Ended, FramesInv
  <2>. QED
    BY <2>3, <2>4
<1>. QED
  BY <1>3, <1>4, <1>5

LEMMA FramesInvStep == FramesInv /\ [Next]_vars => FramesInv'
<1>. SUFFICES ASSUME FramesInv, [Next]_vars PROVE FramesInv'
  OBVIOUS
<1>1. CASE UNCHANGED bytes
  <2>1. UNCHANGED <<sending, alive, pipe, buf, got, verdict>>
    BY <1>1 DEF bytes
  <2>2. Returned' /\ Partial' /\ InHand' = InHand /\ Ahead' = Ahead
    BY <2>1 DEF FramesInv, Returned, Partial, InHand, Ahead, Bytes!Wanted, Bytes!TooLong
  <2>. QED
    BY <2>1, <2>2 DEF FramesInv, Chained, Ended
<1>2. CASE Bytes!LineArrives
  BY <1>1, <1>2 DEF Bytes!LineArrives, Bytes!frame_vars, bytes,
     FramesInv, Returned, Partial, InHand, Ahead, Bytes!Wanted, Bytes!TooLong, Chained, Ended
<1>3. ~UNCHANGED bytes => Bytes!Next
  BY DEF Next, vars, bytes
<1>. QED
  BY <1>1, <1>2, <1>3, WritesKeeps, ReadKeeps, ReturnKeeps, EndKeeps DEF Bytes!Next

(* However the bytes of an adapter are cut up and whenever it ends, its     *)
(* frames are returned whole and in order, and the stream is given up for   *)
(* what the adapter did: for any frames, any prefix and any cap.            *)
THEOREM FramesArriveWhole == FairSpec => [](source = "wire" => Bytes!FramesWhole)
<1>1. Init => FramesInv
  BY FramesInvInit DEF Init
<1>2. FramesInv => (source = "wire" => Bytes!FramesWhole)
  BY DEF FramesInv, Returned, Ended, InHand, Bytes!FramesWhole
<1>. QED
  BY <1>1, <1>2, FramesInvStep, FairIsSafe, PTL DEF SafeSpec

(* Both together: whatever arrives, and however it is cut up, the store     *)
(* gets what was sent and what its channels can hold. *)
THEOREM WhatIsSentIsWritten == FairSpec => []WrittenAsDeclared
BY FramesArriveWhole, SamplesFitChannels, PTL DEF WrittenAsDeclared
=============================================================================
