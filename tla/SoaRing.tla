------------------------------ MODULE SoaRing ------------------------------
(***************************************************************************)
(* SoaRing<T> (src/store/ring.rs): a power-of-two ring of timestamps and   *)
(* values in two arrays, written without a lock by push and copied by      *)
(* readers that validate against head afterwards and retry when lapped.    *)
(* Every access to a slot and to head is a step of its own.                *)
(*                                                                         *)
(* Readers write nothing that is shared, so one reader stands for all.     *)
(*                                                                         *)
(* The slots are plain memory. Accesses take effect in program order, as   *)
(* on x86-64; for samples below Reordered, the timestamp of the next push  *)
(* may also become visible before the Release store of head, which orders  *)
(* only what precedes it: an outcome of the aarch64 builds of flake.nix.   *)
(***************************************************************************)
EXTENDS Naturals, Sequences, RingBounds

VARIABLES
  ts, vals,   \* the two arrays: timestamps, and samples standing for values
  head,       \* samples ever pushed
  made,       \* samples made so far, over all producers
  prod,       \* per producer: [pc, head, sample], its place inside push
  rd,         \* the reader: its place inside a read and its local variables
  log,        \* history: samples in the order they were published
  answer      \* history: what the last completed read returned

vars == <<ts, vals, head, made, prod, rd, log, answer>>

Visible == Cap - Margin
Slot(seq) == seq % Cap
Slots == 0..(Cap - 1)

Contract == INSTANCE SampleLog
  WITH calling <- rd.pc # "idle", op <- rd.op, calledAt <- rd.calledAt

None == Contract!None

ProducerPcs == {"idle", "ts", "val", "head", "early"}
ReaderPcs == {"idle", "load", "search", "scan", "val", "check"}

TypeOK ==
  /\ ts \in [Slots -> Nat] /\ vals \in [Slots -> Nat]
  /\ head \in Nat /\ made \in Nat
  /\ prod \in [Producers -> [pc: ProducerPcs, head: Nat, sample: Nat]]
  /\ rd \in [pc: ReaderPcs, op: Ops, calledAt: Nat, head: Nat, lo: Nat, hi: Nat,
             samples: Seq(Nat), ts: Seq(Nat)]
  /\ log \in Seq(Nat)
  /\ answer \in [samples: Seq(Nat), ts: Seq(Nat)]

Init ==
  /\ ts = [i \in Slots |-> 0] /\ vals = [i \in Slots |-> 0]
  /\ head = 0 /\ made = 0
  /\ prod = [p \in Producers |-> [pc |-> "idle", head |-> 0, sample |-> 0]]
  /\ rd = [pc |-> "idle", op |-> CHOOSE o \in Ops : TRUE, calledAt |-> 0, head |-> 0,
           lo |-> 0, hi |-> 0, samples |-> << >>, ts |-> << >>]
  /\ log = << >> /\ answer = None

-----------------------------------------------------------------------------
(* push *)

LoadHead(p) ==
  /\ prod[p].pc = "idle" /\ made < MaxPush
  /\ prod' = [prod EXCEPT ![p] = [pc |-> "ts", head |-> head, sample |-> made]]
  /\ made' = made + 1
  /\ UNCHANGED <<ts, vals, head, rd, log, answer>>

WriteTs(p) ==
  /\ prod[p].pc = "ts"
  /\ ts' = [ts EXCEPT ![Slot(prod[p].head)] = TsOf[prod[p].sample]]
  /\ prod' = [prod EXCEPT ![p].pc = "val"]
  /\ UNCHANGED <<vals, head, made, rd, log, answer>>

WriteVal(p) ==
  /\ prod[p].pc = "val"
  /\ vals' = [vals EXCEPT ![Slot(prod[p].head)] = prod[p].sample]
  /\ prod' = [prod EXCEPT ![p].pc = "head"]
  /\ UNCHANGED <<ts, head, made, rd, log, answer>>

StoreHead(p) ==
  /\ prod[p].pc = "head"
  /\ head' = prod[p].head + 1
  /\ log' = Append(log, prod[p].sample)
  /\ prod' = [prod EXCEPT ![p].pc = "idle"]
  /\ UNCHANGED <<ts, vals, made, rd, answer>>

(* The next push has begun, and the store of its timestamp overtakes the    *)
(* store of head. *)
WriteTsEarly(p) ==
  /\ prod[p].pc = "head" /\ made < Reordered
  /\ ts' = [ts EXCEPT ![Slot(prod[p].head + 1)] = TsOf[made]]
  /\ made' = made + 1
  /\ prod' = [prod EXCEPT ![p].pc = "early"]
  /\ UNCHANGED <<vals, head, rd, log, answer>>

(* The overtaken store; the push under way is one producer's next sample. *)
StoreHeadLate(p) ==
  /\ prod[p].pc = "early"
  /\ head' = prod[p].head + 1
  /\ log' = Append(log, prod[p].sample)
  /\ prod' = [prod EXCEPT ![p] = [pc |-> "val", head |-> head', sample |-> @.sample + 1]]
  /\ UNCHANGED <<ts, vals, made, rd, answer>>

-----------------------------------------------------------------------------
(* latest, recent_timestamps and read_window: load head, copy, validate. *)

(* The oldest sequence number a read may touch. *)
ValidLo(h) == IF h > Visible THEN h - Visible ELSE 0

Call(o) ==
  /\ rd.pc = "idle"
  /\ rd' = [rd EXCEPT !.pc = "load", !.op = o, !.calledAt = Len(log)]
  /\ answer' = None
  /\ UNCHANGED <<ts, vals, head, made, prod, log>>

Return(result) ==
  /\ answer' = result
  /\ rd' = [rd EXCEPT !.pc = "idle", !.head = 0, !.lo = 0, !.hi = 0,
                      !.samples = << >>, !.ts = << >>]

ReturnEmpty ==
  /\ rd.pc = "load"
  /\ head = 0 \/ (rd.op.kind = "recent" /\ rd.op.max = 0)
  /\ Return(None)
  /\ UNCHANGED <<ts, vals, head, made, prod, log>>

(* recent_timestamps starts at most max before head, never before valid_lo. *)
FromNewest(h) == h - Contract!Limit(rd.op.max, h - ValidLo(h))

(* Where the copy starts: lo and hi bound what is left to search. *)
Load ==
  /\ rd.pc = "load" /\ head # 0 /\ ~(rd.op.kind = "recent" /\ rd.op.max = 0)
  /\ LET first == CASE rd.op.kind = "latest" -> head - 1
                    [] rd.op.kind = "recent" -> FromNewest(head)
                    [] rd.op.kind = "window" -> ValidLo(head)
     IN rd' = [rd EXCEPT !.pc = IF rd.op.kind = "window" THEN "search" ELSE "scan",
                         !.head = head, !.lo = first, !.hi = head,
                         !.samples = << >>, !.ts = << >>]
  /\ UNCHANGED <<ts, vals, head, made, prod, log, answer>>

Before(t, start) == t < start

(* One probe of read_window's binary search for the first ts >= start. *)
Search ==
  /\ rd.pc = "search" /\ rd.lo < rd.hi
  /\ LET mid == rd.lo + (rd.hi - rd.lo) \div 2 IN
       rd' = IF Before(ts[Slot(mid)], rd.op.start)
             THEN [rd EXCEPT !.lo = mid + 1] ELSE [rd EXCEPT !.hi = mid]
  /\ UNCHANGED <<ts, vals, head, made, prod, log, answer>>

Searched ==
  /\ rd.pc = "search" /\ rd.lo = rd.hi
  /\ rd' = [rd EXCEPT !.pc = "scan", !.hi = rd.head]
  /\ UNCHANGED <<ts, vals, head, made, prod, log, answer>>

(* The timestamp of the next slot; the scan of a window ends at end_ns, and *)
(* recent_timestamps never touches the values. *)
ScanTs ==
  /\ rd.pc = "scan" /\ rd.lo < rd.hi
  /\ LET t == ts[Slot(rd.lo)] IN
       rd' = IF rd.op.kind = "window" /\ t >= rd.op.end
             THEN [rd EXCEPT !.pc = "check"]
             ELSE IF rd.op.kind = "recent"
             THEN [rd EXCEPT !.ts = Append(@, t), !.lo = @ + 1]
             ELSE [rd EXCEPT !.ts = Append(@, t), !.pc = "val"]
  /\ UNCHANGED <<ts, vals, head, made, prod, log, answer>>

ScanVal ==
  /\ rd.pc = "val"
  /\ rd' = [rd EXCEPT !.samples = Append(@, vals[Slot(rd.lo)]),
                      !.lo = @ + 1, !.pc = "scan"]
  /\ UNCHANGED <<ts, vals, head, made, prod, log, answer>>

Scanned ==
  /\ rd.pc = "scan" /\ rd.lo = rd.hi
  /\ rd' = [rd EXCEPT !.pc = "check"]
  /\ UNCHANGED <<ts, vals, head, made, prod, log, answer>>

(* The first sequence number whose push would overwrite a slot the copy may *)
(* have touched: latest watches its own slot, the others the whole window.  *)
GuardedOneLate == (IF rd.op.kind = "latest" THEN rd.head - 1 ELSE ValidLo(rd.head)) + Cap + 1

GuardedForgetsCap == IF rd.op.kind = "latest" THEN rd.head - 1 ELSE ValidLo(rd.head)

Guarded == (IF rd.op.kind = "latest" THEN rd.head - 1 ELSE ValidLo(rd.head)) + Cap

Validate ==
  /\ rd.pc = "check" /\ head < Guarded
  /\ Return([samples |-> rd.samples, ts |-> rd.ts])
  /\ UNCHANGED <<ts, vals, head, made, prod, log>>

Retry ==
  /\ rd.pc = "check" /\ head >= Guarded
  /\ rd' = [rd EXCEPT !.pc = "load", !.samples = << >>, !.ts = << >>]
  /\ UNCHANGED <<ts, vals, head, made, prod, log, answer>>

-----------------------------------------------------------------------------
Push(p) ==
  \/ LoadHead(p) \/ WriteTs(p) \/ WriteVal(p) \/ StoreHead(p)
  \/ WriteTsEarly(p) \/ StoreHeadLate(p)

Read ==
  \/ ReturnEmpty \/ Load \/ Search \/ Searched \/ ScanTs \/ ScanVal \/ Scanned
  \/ Validate \/ Retry

Next ==
  \/ \E p \in Producers : Push(p)
  \/ \E o \in Ops : Call(o)
  \/ Read

Spec == Init /\ [][Next]_vars

(* A thread that is inside a read keeps running. *)
FairSpec == Spec /\ WF_vars(Read)

-----------------------------------------------------------------------------
(* Properties. *)

(* Every read of the ring returns what it would have returned at one        *)
(* instant of the call on an unbounded log: no torn pair, no sample lost or *)
(* invented, nothing older than the call. Readers "discard and retry" when  *)
(* lapped, so a copy that is returned was never overwritten. *)
ImplementsLog == Contract!Spec

(* The pair of a value and a timestamp a read returns is one that was       *)
(* pushed: "invalid (possibly torn) copies are discarded before use". *)
NoTornSample ==
  \A i \in DOMAIN answer.samples : answer.ts[i] = TsOf[answer.samples[i]]

(* Once producers pause, a read ends: it cannot be lapped for ever. *)
ReadEnds == rd.pc # "idle" ~> rd.pc = "idle"
=============================================================================
