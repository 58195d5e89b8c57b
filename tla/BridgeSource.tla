---------------------------- MODULE BridgeSource ----------------------------
(***************************************************************************)
(* SubprocessSource (src/ingest/bridge/source.rs): a reader thread spawns  *)
(* an adapter process, reads its frames and restarts it with a backoff; a  *)
(* watchdog turns the status from LIVE to TIMEOUT when frames stop; the UI *)
(* stops the source and drops its ChildGuard, which kills the process; at  *)
(* shutdown the drop is followed by the end of the program.                *)
(*                                                                         *)
(* Time is relative and advances by Tick: the age of the last frame, and   *)
(* what is left of the reader's sleep.                                     *)
(***************************************************************************)
EXTENDS Naturals

CONSTANTS
  Base,          \* first backoff: 250 ms
  MaxBackoff,    \* longest backoff: 5 s
  TimeoutAfter   \* TIMEOUT_AFTER: 5 s

VARIABLES
  reader,   \* place of the reader thread in run_loop and read_stream
  inHand,   \* the child spawned and not yet stored in current
  current,  \* the child in the mutex shared with ChildGuard
  leaked,   \* a child still running whose handle was thrown away
  stop,     \* the stop flag
  owner,    \* who owns the handle: "app", "dropping", "dropped", "exited"
  conn,     \* conn_state
  age,      \* now_ns() - last_frame_ns, up to TimeoutAfter + 1
  watchdog, \* [pc, seen]: the watchdog and the age it read
  backoff, left,  \* the next wait, and the rest of the wait under way
  produced, \* history: the last run delivered a frame
  mismatch  \* history: a bad preamble was read

vars == <<reader, inHand, current, leaked, stop, owner, conn, age, watchdog,
          backoff, left, produced, mismatch>>
process == <<inHand, current, leaked>>
timing  == <<backoff, left>>
history == <<produced, mismatch>>

ReaderPcs == {"top", "spawn", "retry", "store", "recheck", "preamble", "read", "live",
              "stamp", "fail", "reap", "ended", "sleep", "reset", "done"}
Child == {"none", "running", "exited"}
Old == TimeoutAfter + 1

TypeOK ==
  /\ reader \in ReaderPcs
  /\ inHand \in Child /\ current \in Child /\ leaked \in BOOLEAN
  /\ stop \in BOOLEAN
  /\ owner \in {"app", "dropping", "dropped", "exited"}
  /\ conn \in {"CONNECTING", "LIVE", "TIMEOUT"}
  /\ age \in 0..Old
  /\ watchdog \in [pc: {"sleep", "load", "store", "done"}, seen: 0..Old]
  /\ backoff \in Base..MaxBackoff /\ left \in 0..MaxBackoff
  /\ produced \in BOOLEAN /\ mismatch \in BOOLEAN

Init ==
  /\ reader = "top"
  /\ inHand = "none" /\ current = "none" /\ leaked = FALSE
  /\ stop = FALSE /\ owner = "app"
  /\ conn = "CONNECTING" /\ age = Old
  /\ watchdog = [pc |-> "sleep", seen |-> 0]
  /\ backoff = Base /\ left = 0
  /\ produced = FALSE /\ mismatch = FALSE

Running == owner # "exited"   \* threads run until the program ends

-----------------------------------------------------------------------------
(* The reader: run_loop. *)

At(pc) == reader = pc /\ Running

Top ==
  /\ At("top")
  /\ IF stop THEN reader' = "done" /\ UNCHANGED conn
             ELSE reader' = "spawn" /\ conn' = "CONNECTING"
  /\ UNCHANGED <<process, stop, owner, age, watchdog, timing, history>>

Spawn ==
  /\ At("spawn")
  /\ inHand' = "running" /\ reader' = "store"
  /\ produced' = FALSE
  /\ UNCHANGED <<current, leaked, stop, owner, conn, age, watchdog, timing, mismatch>>

(* The command cannot be started: wait and try again. *)
SpawnFails ==
  /\ At("spawn")
  /\ reader' = "retry" /\ left' = backoff
  /\ UNCHANGED <<process, stop, owner, conn, age, watchdog, backoff, history>>

(* *current.lock() = Some(child): a handle it replaces is dropped, which    *)
(* does not kill the process. *)
StoreChild ==
  /\ At("store")
  /\ current' = inHand /\ inHand' = "none"
  /\ leaked' = (leaked \/ current = "running")
  /\ reader' = "recheck"
  /\ UNCHANGED <<stop, owner, conn, age, watchdog, timing, history>>

(* The stop flag is read again now that the child is where ChildGuard looks *)
(* for it: "Close the orphan window". *)
Recheck ==
  /\ At("recheck")
  /\ IF stop THEN reader' = "done" /\ current' = "none"
             ELSE reader' = "preamble" /\ UNCHANGED current
  /\ UNCHANGED <<inHand, leaked, stop, owner, conn, age, watchdog, timing, history>>

-----------------------------------------------------------------------------
(* The reader: read_stream. A child that hangs lets nothing here happen;    *)
(* what a child that is gone has left in the pipe is read to its end.       *)

GoodPreamble ==
  /\ At("preamble")
  /\ reader' = "read"
  /\ UNCHANGED <<process, stop, owner, conn, age, watchdog, timing, history>>

(* Bad magic or version: the status is set, then the child reaped. *)
BadPreambleKeepsState ==
  /\ At("preamble")
  /\ reader' = "fail" /\ mismatch' = TRUE
  /\ UNCHANGED <<process, stop, owner, conn, age, watchdog, timing, produced>>

BadPreamble ==
  /\ At("preamble")
  /\ reader' = "fail" /\ mismatch' = TRUE /\ conn' = "TIMEOUT"
  /\ UNCHANGED <<process, stop, owner, age, watchdog, timing, produced>>

(* A frame was decoded and routed. *)
Frame ==
  /\ At("read")
  /\ reader' = "live" /\ produced' = TRUE
  /\ UNCHANGED <<process, stop, owner, conn, age, watchdog, timing, mismatch>>

SetLive ==
  /\ At("live")
  /\ conn' = "LIVE" /\ reader' = "stamp"
  /\ UNCHANGED <<process, stop, owner, age, watchdog, timing, history>>

StampFrame ==
  /\ At("stamp")
  /\ age' = 0 /\ reader' = "read"
  /\ UNCHANGED <<process, stop, owner, conn, watchdog, timing, history>>

(* End of file: the child exited, or was killed through ChildGuard.         *)
StreamEnds ==
  /\ At("preamble") \/ At("read")
  /\ current # "running"
  /\ reader' = "reap"
  /\ UNCHANGED <<process, stop, owner, conn, age, watchdog, timing, history>>

(* The child lives on but closed its stdout or sent an oversized frame.     *)
StreamBreaks ==
  /\ At("preamble") \/ At("read")
  /\ current = "running"
  /\ reader' = "reap"
  /\ UNCHANGED <<process, stop, owner, conn, age, watchdog, timing, history>>

-----------------------------------------------------------------------------
(* The reader: after the stream. *)

(* reap: take the child out of current, kill it and wait for it. *)
ReapNothing ==
  /\ At("fail") \/ At("reap")
  /\ reader' = IF reader = "fail" THEN "done" ELSE "ended"
  /\ UNCHANGED <<process, stop, owner, conn, age, watchdog, timing, history>>

Reap ==
  /\ At("fail") \/ At("reap")
  /\ current' = "none"
  /\ reader' = IF reader = "fail" THEN "done" ELSE "ended"
  /\ UNCHANGED <<inHand, leaked, stop, owner, conn, age, watchdog, timing, history>>

Ended ==
  /\ At("ended")
  /\ IF stop THEN reader' = "done" /\ UNCHANGED left
             ELSE reader' = "sleep" /\ left' = backoff
  /\ UNCHANGED <<process, stop, owner, conn, age, watchdog, backoff, history>>

Doubled == IF backoff * 2 < MaxBackoff THEN backoff * 2 ELSE MaxBackoff

SleepUntilStop ==
  /\ At("retry") \/ At("sleep")
  /\ stop /\ reader' = "done"
  /\ UNCHANGED <<process, stop, owner, conn, age, watchdog, timing, history>>

(* sleep_or_stop: ends with the stop flag, or when the time is over, and    *)
(* the backoff doubles. *)
Sleep ==
  /\ At("retry") \/ At("sleep")
  /\ \/ stop /\ reader' = "done" /\ UNCHANGED backoff
     \/ /\ ~stop /\ left = 0
        /\ backoff' = Doubled
        /\ reader' = IF reader = "retry" THEN "top" ELSE "reset"
  /\ UNCHANGED <<process, stop, owner, conn, age, watchdog, left, history>>

(* "A stream that produced frames resets the backoff": judged by the status *)
(* the watchdog may have changed in the meantime. *)
ResetBackoff ==
  /\ At("reset")
  /\ backoff' = IF conn = "LIVE" THEN Base ELSE backoff
  /\ reader' = "top"
  /\ UNCHANGED <<process, stop, owner, conn, age, watchdog, left, history>>

-----------------------------------------------------------------------------
(* The watchdog. *)

WatchdogWakes ==
  /\ watchdog.pc = "sleep" /\ Running
  /\ watchdog' = [watchdog EXCEPT !.pc =
       IF conn = "LIVE" THEN "load" ELSE IF stop THEN "done" ELSE "sleep"]
  /\ UNCHANGED <<reader, process, stop, owner, conn, age, timing, history>>

WatchdogLoads ==
  /\ watchdog.pc = "load" /\ Running
  /\ watchdog' = [pc |-> "store", seen |-> age]
  /\ UNCHANGED <<reader, process, stop, owner, conn, age, timing, history>>

WatchdogNeverStores ==
  /\ watchdog.pc = "store" /\ Running
  /\ watchdog' = [pc |-> IF stop THEN "done" ELSE "sleep", seen |-> 0]
  /\ UNCHANGED <<reader, process, stop, owner, conn, age, timing, history>>

WatchdogStores ==
  /\ watchdog.pc = "store" /\ Running
  /\ conn' = IF watchdog.seen > TimeoutAfter THEN "TIMEOUT" ELSE conn
  /\ watchdog' = [pc |-> IF stop THEN "done" ELSE "sleep", seen |-> 0]
  /\ UNCHANGED <<reader, process, stop, owner, age, timing, history>>

-----------------------------------------------------------------------------
(* The owner of the handle, the child, and time. *)

(* SourceManager::remove, or the first line of ChildGuard::drop. *)
Stop ==
  /\ owner = "app"
  /\ stop' = TRUE /\ owner' = "dropping"
  /\ UNCHANGED <<reader, process, conn, age, watchdog, timing, history>>

(* ChildGuard::drop: whatever current holds is killed and waited for. *)
DropGuard ==
  /\ owner = "dropping"
  /\ current' = "none" /\ owner' = "dropped"
  /\ UNCHANGED <<reader, inHand, leaked, stop, conn, age, watchdog, timing, history>>

(* The drop was part of a shutdown: the process ends with its threads. *)
ProgramEnds ==
  /\ owner = "dropped"
  /\ owner' = "exited"
  /\ UNCHANGED <<reader, process, stop, conn, age, watchdog, timing, history>>

(* The child exits or crashes by itself. *)
ChildExits ==
  /\ \/ inHand = "running" /\ inHand' = "exited" /\ UNCHANGED current
     \/ current = "running" /\ current' = "exited" /\ UNCHANGED inHand
  /\ UNCHANGED <<reader, leaked, stop, owner, conn, age, watchdog, timing, history>>

Later(a) == IF a < Old THEN a + 1 ELSE Old

Tick ==
  /\ age' = Later(age)
  /\ watchdog' = IF watchdog.pc = "store"
                 THEN [watchdog EXCEPT !.seen = Later(@)] ELSE watchdog
  /\ left' = IF left > 0 THEN left - 1 ELSE 0
  /\ UNCHANGED <<reader, process, stop, owner, conn, backoff, history>>

-----------------------------------------------------------------------------
RunLoop ==
  \/ Top \/ Spawn \/ SpawnFails \/ StoreChild \/ Recheck
  \/ SetLive \/ StampFrame \/ StreamEnds
  \/ Reap \/ Ended \/ Sleep \/ ResetBackoff

Adapter == GoodPreamble \/ BadPreamble \/ Frame \/ StreamBreaks \/ ChildExits

Watchdog == WatchdogWakes \/ WatchdogLoads \/ WatchdogStores

Owner == Stop \/ DropGuard \/ ProgramEnds

Next == RunLoop \/ Adapter \/ Watchdog \/ Owner \/ Tick

Spec == Init /\ [][Next]_vars

(* Threads run and time passes; the adapter owes nothing, and the user need *)
(* not stop the source. The pipe of a child that is gone has an end. *)
FairSpec ==
  /\ Spec
  /\ WF_vars(RunLoop) /\ SF_vars(StreamEnds)
  /\ WF_vars(Watchdog) /\ WF_vars(DropGuard) /\ WF_vars(Tick)

-----------------------------------------------------------------------------
(* Properties. *)

ChildRuns == inHand = "running" \/ current = "running" \/ leaked

(* No adapter is orphaned. When the reader has returned none is running,    *)
(* wherever the stop flag was raised and whichever thread found the child   *)
(* ("reap the child ourselves so it never outlives" the source); no handle  *)
(* of a running child is thrown away on the way there; and after the drop   *)
(* of the guard a child can run only between its spawn and the re-check of  *)
(* the stop flag. *)
NoOrphan ==
  /\ reader = "done" => ~ChildRuns
  /\ owner \in {"dropped", "exited"} /\ ChildRuns => reader \in {"store", "recheck"}

(* A protocol mismatch is permanent: the source ends in TIMEOUT, and a      *)
(* watchdog late by one wake-up does not bring it back. *)
MismatchIsFinal == mismatch => reader \in {"fail", "done"} /\ conn = "TIMEOUT"

(* A source that is stopped ends: its reader returns and its child is gone, *)
(* unless the whole program ends first. *)
Gone == (reader = "done" /\ ~ChildRuns) \/ owner = "exited"
StopEnds == stop ~> Gone

(* A stream gone silent does not stay LIVE. *)
SilenceIsNoticed ==
  conn = "LIVE" /\ age > TimeoutAfter ~> conn # "LIVE" \/ age <= TimeoutAfter \/ stop

(* A child that ended is started again, unless the source is stopped.       *)
Restarts == reader = "ended" ~> reader = "spawn" \/ stop

(* "A run that successfully delivers at least one frame resets the backoff  *)
(* to 250 ms on the next restart" (docs/external-source-protocol.md).       *)
BackoffResets == reader = "sleep" /\ produced => backoff = Base

(* "TIMEOUT if no frame arrives within the heartbeat window": the status    *)
(* says TIMEOUT only when the last frame is that old, or after a mismatch.  *)
TimeoutMeansSilence == conn = "TIMEOUT" => age > TimeoutAfter \/ mismatch

(* "a bridge never outlives datavis" (ChildGuard): when the program has     *)
(* ended, no child is running. *)
NeverOutlives == owner = "exited" => ~ChildRuns
=============================================================================
