-------------------------------- MODULE Mqtt --------------------------------
(***************************************************************************)
(* The threads of an MQTT source (src/ingest/mqtt.rs): one handles the     *)
(* events of the client library, one waits for the stop flag and then asks *)
(* the library to disconnect, since the first may wait for an event that   *)
(* an idle broker never causes.                                            *)
(*                                                                         *)
(* The library is external: it connects again by itself, gives events in   *)
(* order, carries out requests in order, keeps those it had no connection  *)
(* for, and a new session has no subscriptions.                            *)
(***************************************************************************)
EXTENDS Naturals, Sequences

CONSTANTS MaxQueue  \* requests that may wait: 64

VARIABLES
  client,     \* place of run_loop: waiting, an event in hand, asleep, done
  watcher,    \* "waits" or "done"
  conn,       \* conn_state
  stop,       \* the stop flag
  session,    \* external: "none", "up", "subscribed", "closed"
  requests,   \* external: subscribe and disconnect, in order
  events,     \* external: not yet taken by run_loop
  event       \* in hand

vars == <<client, watcher, conn, stop, session, requests, events, event>>

Events == {"ConnAck", "Publish", "Other", "Err"}

TypeOK ==
  /\ client \in {"wait", "event", "sleep", "done"} /\ watcher \in {"waits", "done"}
  /\ conn \in {"CONNECTING", "LIVE"} /\ stop \in BOOLEAN
  /\ session \in {"none", "up", "subscribed", "closed"}
  /\ requests \in Seq({"subscribe", "disconnect"}) /\ events \in Seq(Events)
  /\ event \in Events \union {"none"}

Init ==
  /\ client = "wait" /\ watcher = "waits" /\ conn = "CONNECTING" /\ stop = FALSE
  /\ session = "none" /\ requests = <<>> /\ events = <<>> /\ event = "none"

-----------------------------------------------------------------------------
(* The library, which works only while run_loop waits for an event.         *)

Polled == client = "wait" /\ events = <<>>
Gives(e) == events' = Append(events, e)

Connects ==
  /\ Polled /\ session = "none"
  /\ session' = "up" /\ Gives("ConnAck")
  /\ UNCHANGED <<client, watcher, conn, stop, requests, event>>

(* The broker is out of reach, or the connection is lost. The broker is     *)
(* assumed not to drop MaxQueue sessions in a row before it took a request: *)
(* run_loop would then wait for room in a queue that it alone empties.      *)
Errs ==
  /\ Polled /\ session # "closed"
  /\ session = "none" \/ Len(requests) + 1 < MaxQueue
  /\ session' = "none" /\ Gives("Err")
  /\ UNCHANGED <<client, watcher, conn, stop, requests, event>>

(* Messages and the library's own traffic. *)
Receives ==
  /\ Polled /\ session \in {"up", "subscribed"}
  /\ \E e \in {"Other"} \union IF session = "subscribed" THEN {"Publish"} ELSE {} : Gives(e)
  /\ UNCHANGED <<client, watcher, conn, stop, session, requests, event>>

Requested ==
  /\ Polled /\ session \in {"up", "subscribed"} /\ requests # <<>>
  /\ session' = IF Head(requests) = "subscribe" THEN "subscribed" ELSE "closed"
  /\ requests' = Tail(requests) /\ Gives("Other")
  /\ UNCHANGED <<client, watcher, conn, stop, event>>

Closed ==
  /\ Polled /\ session = "closed" /\ Gives("Err")
  /\ UNCHANGED <<client, watcher, conn, stop, session, requests, event>>

-----------------------------------------------------------------------------
(* run_loop *)

Take ==
  /\ client = "wait" /\ events # <<>>
  /\ client' = IF stop THEN "done" ELSE "event"
  /\ event' = Head(events) /\ events' = Tail(events)
  /\ UNCHANGED <<watcher, conn, stop, session, requests>>

HandleConnAckBare ==
  /\ client = "event" /\ event = "ConnAck"
  /\ conn' = "LIVE" /\ client' = "wait" /\ event' = "none"
  /\ UNCHANGED <<watcher, stop, session, requests, events>>

HandleConnAck ==
  /\ client = "event" /\ event = "ConnAck"
  /\ Len(requests) < MaxQueue
  /\ conn' = "LIVE" /\ requests' = Append(requests, "subscribe")
  /\ client' = "wait" /\ event' = "none"
  /\ UNCHANGED <<watcher, stop, session, events>>

(* A published payload goes to on_message, and leaves this state alone.     *)
HandleOther ==
  /\ client = "event" /\ event \in {"Publish", "Other"}
  /\ client' = "wait" /\ event' = "none"
  /\ UNCHANGED <<watcher, conn, stop, session, requests, events>>

HandleErr ==
  /\ client = "event" /\ event = "Err"
  /\ conn' = "CONNECTING"
  /\ client' = IF stop THEN "done" ELSE "sleep"
  /\ event' = "none"
  /\ UNCHANGED <<watcher, stop, session, requests, events>>

Slept ==
  /\ client = "sleep" /\ client' = "wait"
  /\ UNCHANGED <<watcher, conn, stop, session, requests, events, event>>

(* The watcher looks at the flag every 200 ms. *)
WatcherLeaves ==
  /\ watcher = "waits" /\ stop /\ watcher' = "done"
  /\ UNCHANGED <<client, conn, stop, session, requests, events, event>>

WatcherDisconnects ==
  /\ watcher = "waits" /\ stop /\ Len(requests) < MaxQueue
  /\ watcher' = "done"
  /\ requests' = Append(requests, "disconnect")
  /\ UNCHANGED <<client, conn, stop, session, events, event>>

(* SourceManager::remove *)
Stop ==
  /\ ~stop /\ stop' = TRUE
  /\ UNCHANGED <<client, watcher, conn, session, requests, events, event>>

-----------------------------------------------------------------------------
RunLoop == Take \/ HandleConnAck \/ HandleOther \/ HandleErr \/ Slept

Library == Connects \/ Errs \/ Receives \/ Requested \/ Closed

Next == RunLoop \/ WatcherDisconnects \/ Library \/ Stop

Spec == Init /\ [][Next]_vars

(* Both threads run. The library, while it is polled, connects or gives up, *)
(* carries out what it was asked to, and ends a connection it closed. An    *)
(* idle broker sends nothing, and the packets that keep the connection      *)
(* alive are not relied upon. *)
FairSpec ==
  /\ Spec
  /\ WF_vars(RunLoop) /\ WF_vars(WatcherDisconnects)
  /\ WF_vars(session = "none" /\ (Connects \/ Errs)) /\ SF_vars(Requested) /\ WF_vars(Closed)

-----------------------------------------------------------------------------
(* Properties. *)

(* A source that is removed ends its thread, also when the broker is idle,  *)
(* out of reach, or coming and going. *)
StopEnds == stop ~> client = "done"

(* Each session is subscribed: whenever the source is shown as live and the *)
(* news of its session was handled, messages flow or a request for them is  *)
(* on its way, also after the broker dropped the session. *)
LiveIsSubscribed ==
  conn = "LIVE" /\ session = "up" /\ events = <<>> /\ event = "none" /\ ~stop =>
    \E i \in DOMAIN requests : requests[i] = "subscribe"
=============================================================================
