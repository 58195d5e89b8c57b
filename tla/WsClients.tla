----------------------------- MODULE WsClients -----------------------------
(***************************************************************************)
(* The threads of a WebSocket source (src/ingest/websocket.rs): one        *)
(* accepts connections, one per connection serves it. They share a count   *)
(* of live clients and the status the UI shows; each updates the count and *)
(* then, in a second step, the status.                                     *)
(***************************************************************************)
EXTENDS Naturals, FiniteSets

CONSTANTS
  Peers,   \* connections that may be under way at once; each may reconnect
  Silent   \* peers that may connect and never begin the handshake

VARIABLES
  listening, \* accept_loop runs
  thread,    \* per peer: place of its serve_client thread, "none" without one
  clients,   \* the counter
  conn,      \* conn_state
  stop       \* the stop flag

vars == <<listening, thread, clients, conn, stop>>

Pcs == {"none", "handshake", "count", "setLive", "serve", "uncount", "setConnecting"}

TypeOK ==
  /\ listening \in BOOLEAN
  /\ thread \in [Peers -> Pcs]
  /\ clients \in 0..Cardinality(Peers)
  /\ conn \in {"CONNECTING", "LIVE"}
  /\ stop \in BOOLEAN

Init ==
  /\ listening = TRUE
  /\ thread = [p \in Peers |-> "none"]
  /\ clients = 0 /\ conn = "CONNECTING" /\ stop = FALSE

Goto(p, pc) == thread' = [thread EXCEPT ![p] = pc]

-----------------------------------------------------------------------------
(* accept_loop *)

Accept(p) ==
  /\ listening /\ thread[p] = "none"
  /\ Goto(p, "handshake")
  /\ UNCHANGED <<listening, clients, conn, stop>>

(* The loop ends with the stop flag, and with any error of accept. *)
StopListening ==
  /\ listening /\ listening' = FALSE
  /\ UNCHANGED <<thread, clients, conn, stop>>

-----------------------------------------------------------------------------
(* serve_client *)

(* The handshake reads without a time limit: it waits for the peer. *)
HandshakeOk(p) ==
  /\ thread[p] = "handshake"
  /\ Goto(p, "count")
  /\ UNCHANGED <<listening, clients, conn, stop>>

HandshakeFails(p) ==
  /\ thread[p] = "handshake"
  /\ Goto(p, "none")
  /\ UNCHANGED <<listening, clients, conn, stop>>

(* fetch_add: only the first client goes on to set the status. *)
Count(p) ==
  /\ thread[p] = "count"
  /\ clients' = clients + 1
  /\ Goto(p, IF clients = 0 THEN "setLive" ELSE "serve")
  /\ UNCHANGED <<listening, conn, stop>>

SetLive(p) ==
  /\ thread[p] = "setLive"
  /\ conn' = "LIVE" /\ Goto(p, "serve")
  /\ UNCHANGED <<listening, clients, stop>>

(* Close, an error, or the stop flag, seen at the latest when a read has    *)
(* timed out. *)
PeerLeaves(p) ==
  /\ thread[p] = "serve"
  /\ Goto(p, "uncount")
  /\ UNCHANGED <<listening, clients, conn, stop>>

SeesStop(p) ==
  /\ thread[p] = "serve" /\ stop
  /\ Goto(p, "uncount")
  /\ UNCHANGED <<listening, clients, conn, stop>>

UncountTwice(p) ==
  /\ thread[p] = "uncount"
  /\ clients' = IF clients > 1 THEN clients - 2 ELSE 0
  /\ Goto(p, IF clients = 1 THEN "setConnecting" ELSE "none")
  /\ UNCHANGED <<listening, conn, stop>>

(* fetch_sub: only the last client goes on to reset the status. *)
Uncount(p) ==
  /\ thread[p] = "uncount"
  /\ clients' = clients - 1
  /\ Goto(p, IF clients = 1 THEN "setConnecting" ELSE "none")
  /\ UNCHANGED <<listening, conn, stop>>

SetConnecting(p) ==
  /\ thread[p] = "setConnecting"
  /\ conn' = "CONNECTING" /\ Goto(p, "none")
  /\ UNCHANGED <<listening, clients, stop>>

(* SourceManager::remove *)
Stop ==
  /\ ~stop /\ stop' = TRUE
  /\ UNCHANGED <<listening, thread, clients, conn>>

-----------------------------------------------------------------------------
Serve(p) ==
  Count(p) \/ SetLive(p) \/ SeesStop(p) \/ Uncount(p) \/ SetConnecting(p)

Peer(p) == Accept(p) \/ HandshakeOk(p) \/ HandshakeFails(p) \/ PeerLeaves(p)

Next == (\E p \in Peers : Serve(p) \/ Peer(p)) \/ StopListening \/ Stop

Spec == Init /\ [][Next]_vars

(* Threads run; a peer that is not silent ends its handshake; after a stop  *)
(* the accept loop sees the flag. *)
FairSpec ==
  /\ Spec
  /\ \A p \in Peers : WF_vars(Serve(p))
  /\ \A p \in Peers \ Silent : WF_vars(HandshakeOk(p) \/ HandshakeFails(p))
  /\ WF_vars(stop /\ StopListening)

-----------------------------------------------------------------------------
(* Properties. *)

Counted == {p \in Peers : thread[p] \in {"setLive", "serve", "uncount"}}

(* The counter is the number of clients being served, however joins and     *)
(* leaves interleave. *)
CountExact == clients = Cardinality(Counted)

(* A source that is removed gives its threads back: every client thread     *)
(* sees the stop flag, "this thread wakes periodically to observe stop".    *)
Released == \A p \in Peers : thread[p] = "none"
StopReleasesThreads == stop ~> Released

(* "The first live client sets conn_state LIVE; the last to leave restores  *)
(* CONNECTING": with no update under way the status agrees with the count.  *)
StatusAgrees ==
  (\A p \in Peers : thread[p] \notin {"setLive", "setConnecting"}) =>
    (conn = "LIVE" <=> clients > 0)
=============================================================================
