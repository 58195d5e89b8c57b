--------------------------------- MODULE Zmq ---------------------------------
(***************************************************************************)
(* The receive thread of a ZeroMQ source (src/ingest/thread.rs). It        *)
(* connects, waits for messages a second at a time, and after an error     *)
(* sleeps, longer each time, and connects again. It alone sets the status  *)
(* the UI shows and looks at the stop flag the UI raises.                  *)
(*                                                                         *)
(* A tick is a second, the time limit of a receive. How long ago something *)
(* was is known to a tick.                                                 *)
(***************************************************************************)
EXTENDS Naturals

CONSTANTS
  Base,         \* first backoff
  MaxBackoff,
  TimeoutAfter  \* 5 s

VARIABLES
  receiver,  \* place of run_loop and connect_and_recv
  conn,    \* conn_state
  stop,    \* the stop flag
  quiet,   \* last_live.elapsed()
  waited,  \* how long the receive under way, or what is left of the sleep
  backoff,
  junk     \* history: something malformed came since the last message

vars == <<receiver, conn, stop, quiet, waited, backoff, junk>>

(* Ages are not followed beyond what the status depends on. *)
Old == TimeoutAfter + MaxBackoff + 2
Older(n) == IF n < Old THEN n + 1 ELSE n

TypeOK ==
  /\ receiver \in {"top", "connect", "check", "recv", "sleep", "done"}
  /\ conn \in {"CONNECTING", "LIVE", "TIMEOUT"} /\ stop \in BOOLEAN
  /\ quiet \in 0..Old /\ waited \in 0..MaxBackoff
  /\ backoff \in Base..MaxBackoff /\ junk \in BOOLEAN

Init ==
  /\ receiver = "top" /\ conn = "CONNECTING" /\ stop = FALSE
  /\ quiet = Old /\ waited = 0 /\ backoff = Base /\ junk = FALSE

-----------------------------------------------------------------------------
(* run_loop *)

Top ==
  /\ receiver = "top"
  /\ IF stop THEN receiver' = "done" /\ UNCHANGED conn
             ELSE receiver' = "connect" /\ conn' = "CONNECTING"
  /\ UNCHANGED <<stop, quiet, waited, backoff, junk>>

Failed == receiver' = "sleep" /\ waited' = backoff

Doubled == IF backoff * 2 < MaxBackoff THEN backoff * 2 ELSE MaxBackoff

(* The sleep is not cut short by a stop. connect_and_recv returns Ok only   *)
(* when it saw the stop flag: the backoff is never reset.                   *)
Slept ==
  /\ receiver = "sleep" /\ waited = 0
  /\ receiver' = "top" /\ backoff' = Doubled
  /\ UNCHANGED <<conn, stop, quiet, waited, junk>>

-----------------------------------------------------------------------------
(* connect_and_recv *)

(* "treat as if last_live was 10s ago" *)
Connect ==
  /\ receiver = "connect"
  /\ \/ receiver' = "check" /\ quiet' = Old /\ junk' = FALSE /\ UNCHANGED waited
     \/ Failed /\ UNCHANGED <<quiet, junk>>
  /\ UNCHANGED <<conn, stop, backoff>>

CheckWhenIdle ==
  /\ receiver = "check"
  /\ receiver' = "recv" /\ waited' = 0
  /\ UNCHANGED <<conn, stop, quiet, backoff, junk>>

Check ==
  /\ receiver = "check"
  /\ receiver' = IF stop THEN "done" ELSE "recv"
  /\ waited' = 0
  /\ UNCHANGED <<conn, stop, quiet, backoff, junk>>

(* A message is decoded, the source is live, and the raw frame goes to the  *)
(* recorder. *)
Message ==
  /\ receiver = "recv"
  /\ conn' = "LIVE" /\ quiet' = 0 /\ junk' = FALSE
  /\ receiver' = "check"
  /\ UNCHANGED <<stop, waited, backoff>>

(* Fewer than two parts: ignored, and the wait begins anew. *)
Malformed ==
  /\ receiver = "recv"
  /\ receiver' = "check" /\ junk' = TRUE
  /\ UNCHANGED <<conn, stop, quiet, waited, backoff>>

RecvFails ==
  /\ receiver = "recv" /\ Failed
  /\ UNCHANGED <<conn, stop, quiet, backoff, junk>>

(* EAGAIN. Elapsed for more than five seconds, or for a little less.        *)
ExpiredUnlessLive ==
  /\ receiver = "recv" /\ waited = 1
  /\ conn' = IF quiet > TimeoutAfter /\ conn # "LIVE" THEN "TIMEOUT" ELSE conn
  /\ receiver' = "check"
  /\ UNCHANGED <<stop, quiet, waited, backoff, junk>>

Expired ==
  /\ receiver = "recv" /\ waited = 1
  /\ IF stop THEN receiver' = "done" /\ UNCHANGED conn
     ELSE /\ receiver' = "check"
          /\ conn' \in IF quiet > TimeoutAfter THEN {"TIMEOUT"}
                       ELSE IF quiet = TimeoutAfter THEN {conn, "TIMEOUT"} ELSE {conn}
  /\ UNCHANGED <<stop, quiet, waited, backoff, junk>>

-----------------------------------------------------------------------------
(* SourceManager::remove *)
Stop ==
  /\ ~stop /\ stop' = TRUE
  /\ UNCHANGED <<receiver, conn, quiet, waited, backoff, junk>>

(* A step of the thread takes no time: it runs before the next second.      *)
Tick ==
  /\ \/ receiver = "recv" /\ waited = 0 /\ waited' = 1
     \/ receiver = "sleep" /\ waited > 0 /\ waited' = waited - 1
     \/ receiver = "done" /\ UNCHANGED waited
  /\ quiet' = Older(quiet)
  /\ UNCHANGED <<receiver, conn, stop, backoff, junk>>

RunLoop == Top \/ Slept \/ Connect \/ Check \/ Expired

Next == RunLoop \/ Message \/ Malformed \/ RecvFails \/ Stop \/ Tick

Spec == Init /\ [][Next]_vars

(* The thread runs and time passes; the publisher owes nothing.             *)
FairSpec == Spec /\ WF_vars(RunLoop) /\ WF_vars(Tick)

-----------------------------------------------------------------------------
(* Properties. *)

(* A source is not shown as live for longer than the time-out, the receive  *)
(* that ends with it and, after an error, the sleep; unless something       *)
(* malformed comes every second, which puts the time-out off. *)
LiveIsRecent ==
  conn = "LIVE" /\ receiver # "done" =>
    quiet <= TimeoutAfter + 1 + (IF receiver \in {"sleep", "top", "connect"} THEN MaxBackoff ELSE 0)
    \/ junk

(* A source that is removed ends its thread: no wait is longer than one     *)
(* receive or one sleep. *)
StopEnds == stop ~> receiver = "done"

(* "Source was live but has not received data within the timeout window."   *)
TimeoutWasLive == [][conn' = "TIMEOUT" => conn \in {"LIVE", "TIMEOUT"}]_vars
=============================================================================
