--------------------------- MODULE SoaRingProofs ---------------------------
(* Proof that SoaRing implements SampleLog, for any capacity and margin,    *)
(* any reads and any number of samples.                                     *)
EXTENDS MCStores, SequenceTheorems, TLAPS

(* What push and read_window ask of their callers and of the memory: one    *)
(* thread pushes, its timestamps never go back, and no store overtakes the  *)
(* store of head once the ring has been filled (on x86-64 none ever does).  *)
OneProducer == \A p, q \in Producers : p = q
TimeOrdered == \A i, j \in 0..MaxPush : i <= j => TsOf[i] <= TsOf[j]
NoneOvertakesLap == Reordered <= Cap

RingContext == OneProducer /\ TimeOrdered /\ NoneOvertakesLap

-----------------------------------------------------------------------------
(* Two samples less than a lap apart have slots of their own. *)

LEMMA Division ==
  ASSUME NEW a \in Nat, NEW c \in Nat \ {0}
  PROVE  /\ a \div c \in Nat /\ a % c \in 0..(c - 1)
         /\ a = c * (a \div c) + (a % c)
OBVIOUS

LEMMA Multiples ==
  ASSUME NEW c \in Nat \ {0}, NEW i \in Nat, NEW j \in Nat, i < j
  PROVE  c * i + c <= c * j
<1>1. PICK d \in Nat : j = i + 1 + d
  <2>1. j - i - 1 \in Nat /\ j = i + 1 + (j - i - 1)
    OBVIOUS
  <2>. QED
    BY <2>1
<1>2. c * j = c * i + c + c * d
  BY <1>1
<1>3. c * d >= 0
  OBVIOUS
<1>. QED
  BY <1>2, <1>3

LEMMA SlotsDiffer ==
  ASSUME NEW a \in Nat, NEW b \in Nat, a < b, b < a + Cap
  PROVE  Ring!Slot(a) # Ring!Slot(b)
<1>. DEFINE i == a \div Cap
            j == b \div Cap
<1>1. /\ i \in Nat /\ j \in Nat /\ a = Cap * i + (a % Cap) /\ b = Cap * j + (b % Cap)
      /\ a % Cap \in 0..(Cap - 1) /\ b % Cap \in 0..(Cap - 1) /\ Cap \in Nat \ {0}
  BY Division, RingAssumption
<1>. HIDE DEF i, j
<1>2. CASE i = j
  BY <1>1, <1>2 DEF Ring!Slot
<1>3. CASE i < j
  BY <1>1, <1>3, Multiples DEF Ring!Slot
<1>4. CASE j < i
  BY <1>1, <1>4, Multiples DEF Ring!Slot
<1>. QED
  BY <1>1, <1>2, <1>3, <1>4

LEMMA SlotType == ASSUME NEW a \in Nat PROVE Ring!Slot(a) \in Ring!Slots
BY Division, RingAssumption DEF Ring!Slot, Ring!Slots

LEMMA FirstLap == ASSUME NEW a \in Nat, a < Cap PROVE Ring!Slot(a) = a
<1>1. Cap \in Nat \ {0}
  BY RingAssumption
<1>. QED
  BY <1>1 DEF Ring!Slot
-----------------------------------------------------------------------------
(* The inductive invariant. The producer owns the slot at head, and once a  *)
(* store overtakes, the one after it; every other slot of the lap holds its *)
(* sample. *)

PushInv(p) ==
  IF prod[p].pc = "idle" THEN made = head
  ELSE /\ prod[p].head = head /\ prod[p].sample = head
       /\ made = IF prod[p].pc = "early" THEN head + 2 ELSE head + 1
       /\ prod[p].pc \in {"val", "head", "early"} => ts[Ring!Slot(head)] = TsOf[head]
       /\ prod[p].pc \in {"head", "early"} => vals[Ring!Slot(head)] = head
       /\ prod[p].pc = "early" => head + 1 < Cap /\ ts[Ring!Slot(head + 1)] = TsOf[head + 1]

Kept ==
  \A q \in 0..(head - 1) :
    head < q + Cap => vals[Ring!Slot(q)] = q /\ ts[Ring!Slot(q)] = TsOf[q]

WriterInv ==
  /\ ts \in [Ring!Slots -> Nat] /\ vals \in [Ring!Slots -> Nat]
  /\ head \in Nat /\ made \in 0..MaxPush /\ head <= made
  /\ prod \in [Producers -> [pc: Ring!ProducerPcs, head: Nat, sample: Nat]]
  /\ log \in Seq(Nat) /\ Len(log) = head /\ \A i \in 1..head : log[i] = i - 1
  /\ \A p \in Producers : PushInv(p)
  /\ Kept

(* The reader. While head is below what the read guards, all it has copied  *)
(* or compared is what was pushed; beyond that the copy is thrown away.     *)

Floor(r) == IF r.op.kind = "latest" THEN r.head - 1 ELSE Ring!ValidLo(r.head)

Clean(r) == head < Floor(r) + Cap

Searching(r) ==
  /\ \A q \in Floor(r)..(r.lo - 1) : TsOf[q] < r.op.start
  /\ r.hi < r.head => r.op.start <= TsOf[r.hi]

(* Where the copy of a read begins. *)
Begins(r, a) ==
  CASE r.op.kind = "latest" -> a = r.head - 1
    [] r.op.kind = "recent" ->
         a = r.head - Ring!Contract!Limit(r.op.max, r.head - Ring!ValidLo(r.head))
    [] r.op.kind = "window" ->
         /\ \A q \in Floor(r)..(a - 1) : TsOf[q] < r.op.start
         /\ a < r.head => r.op.start <= TsOf[a]

CopiedFrom(r, a) ==
  /\ Begins(r, a)
  /\ r.op.kind = "window" =>
       /\ \A q \in a..(r.lo - 1) : TsOf[q] < r.op.end
       /\ r.pc = "val" => TsOf[r.lo] < r.op.end
  /\ Len(r.samples) = IF r.op.kind = "recent" THEN 0 ELSE r.lo - a
  /\ Len(r.ts) = IF r.pc = "val" THEN r.lo - a + 1 ELSE r.lo - a
  /\ \A i \in 1..Len(r.samples) : r.samples[i] = a + i - 1
  /\ \A i \in 1..Len(r.ts) : r.ts[i] = TsOf[a + i - 1]
  /\ r.pc = "check" =>
       r.lo = r.head \/ (r.op.kind = "window" /\ r.op.end <= TsOf[r.lo])

Copied(r) == \E a \in Floor(r)..r.lo : CopiedFrom(r, a)

Reading(r) == r.pc \in {"search", "scan", "val", "check"}

Reader == [pc: Ring!ReaderPcs, op: Ops, calledAt: Nat, head: Nat, lo: Nat, hi: Nat,
           samples: Seq(Nat), ts: Seq(Nat)]

ReaderInv(r) ==
  /\ r \in Reader
  /\ r.pc # "idle" => r.calledAt <= head
  /\ Reading(r) =>
       /\ r.calledAt <= r.head /\ r.head \in 1..head
       /\ Floor(r) <= r.lo /\ r.lo <= r.hi /\ r.hi <= r.head
       /\ r.pc = "search" => r.op.kind = "window" /\ r.samples = << >> /\ r.ts = << >>
       /\ r.pc \in {"scan", "val"} => r.hi = r.head
       /\ r.pc = "val" => r.lo < r.hi /\ r.op.kind # "recent"
       /\ Clean(r) => IF r.pc = "search" THEN Searching(r) ELSE Copied(r)

RingInv ==
  /\ WriterInv /\ ReaderInv(rd)
  /\ answer \in [samples: Seq(Nat), ts: Seq(Nat)]

LEMMA RingInit == ASSUME Ring!Init PROVE RingInv
<1>1. << >> \in Seq(Nat) /\ Len(<< >>) = 0 /\ 0 \in Nat
  OBVIOUS
<1>2. (CHOOSE o \in Ops : TRUE) \in Ops
  BY RingAssumption
<1>3. rd \in Reader /\ rd.pc = "idle"
  BY <1>1, <1>2 DEF Ring!Init, Reader, Ring!ReaderPcs
<1>4. answer \in [samples: Seq(Nat), ts: Seq(Nat)]
  BY <1>1 DEF Ring!Init, Ring!None, Ring!Contract!None
<1>5. WriterInv
  <2>1. /\ ts \in [Ring!Slots -> Nat] /\ vals \in [Ring!Slots -> Nat] /\ head = 0 /\ made = 0
        /\ prod \in [Producers -> [pc: Ring!ProducerPcs, head: Nat, sample: Nat]]
        /\ log = << >> /\ \A p \in Producers : prod[p].pc = "idle"
    BY DEF Ring!Init, Ring!ProducerPcs
  <2>. QED
    BY <1>1, <2>1, RingAssumption DEF WriterInv, PushInv, Kept
<1>. QED
  BY <1>3, <1>4, <1>5 DEF RingInv, ReaderInv, Reading

(* A sample published during a read leaves the place of the read as it was. *)
LEMMA ReaderUntouched ==
  ASSUME ReaderInv(rd), UNCHANGED rd, head \in Nat, head' \in Nat, head <= head'
  PROVE  ReaderInv(rd)'
<1>. DEFINE r == rd
<1>1. r \in Reader /\ r.op \in Ops
  BY DEF ReaderInv, Reader
<1>2. ASSUME Reading(r)
      PROVE  /\ r.head \in 1..head' /\ r.head \in Nat
             /\ Floor(r) \in Nat /\ (head' < Floor(r) + Cap => Clean(r))
  <2>1. r.head \in 1..head
    BY <1>2 DEF ReaderInv
  <2>2. Floor(r) \in Nat
    <3>1. r.head \in Nat \ {0} /\ Cap \in Nat /\ Margin \in Nat /\ Margin < Cap
      BY <2>1, RingAssumption
    <3>2. r.head - 1 \in Nat /\ Ring!ValidLo(r.head) \in Nat
      BY <3>1 DEF Ring!ValidLo, Ring!Visible
    <3>. QED
      BY <3>2 DEF Floor
  <2>. QED
    BY <2>1, <2>2, RingAssumption DEF Clean
<1>3. r.calledAt \in Nat
  BY <1>1 DEF Reader
<1>4. r.pc # "idle" => r.calledAt <= head'
  BY <1>3 DEF ReaderInv
<1>. QED
  BY <1>1, <1>2, <1>4
  DEF ReaderInv, Reading, Clean, Searching, Copied, CopiedFrom, Begins, Floor
-----------------------------------------------------------------------------
(* The steps of the one producer. *)

LEMMA SlotFacts ==
  ASSUME WriterInv
  PROVE  /\ Ring!Slot(head) \in Ring!Slots /\ Ring!Slot(head + 1) \in Ring!Slots
         /\ \A q \in 0..(head - 1) : Ring!Slot(q) \in Ring!Slots
         /\ \A q \in 0..(head - 1) : head < q + Cap => Ring!Slot(q) # Ring!Slot(head)
         /\ Ring!Slot(head) # Ring!Slot(head + 1)
         /\ head + 1 < Cap => \A q \in 0..head : Ring!Slot(q) # Ring!Slot(head + 1)
<1>1. head \in Nat /\ head + 1 \in Nat /\ Cap \in Nat /\ 1 < Cap
  BY RingAssumption DEF WriterInv
<1>2. \A q \in 0..(head - 1) : q \in Nat /\ q < head
  BY <1>1
<1>3. \A q \in 0..head : q \in Nat /\ q < head + 1
  BY <1>1
<1>4. head + 1 < Cap => \A q \in 0..head : Ring!Slot(q) # Ring!Slot(head + 1)
  BY <1>1, <1>3, SlotsDiffer
<1>5. Ring!Slot(head) # Ring!Slot(head + 1)
  BY <1>1, SlotsDiffer
<1>. QED
  BY <1>1, <1>2, <1>4, <1>5, SlotType, SlotsDiffer

(* What a sample is, before and after it is published. *)
LEMMA WriterFacts ==
  ASSUME WriterInv, NEW p \in Producers
  PROVE  /\ prod[p] \in [pc: Ring!ProducerPcs, head: Nat, sample: Nat]
         /\ head \in Nat /\ made \in Nat /\ made <= MaxPush /\ MaxPush \in Nat
         /\ PushInv(p)
         /\ \A q \in 0..MaxPush : TsOf[q] \in Nat
BY RingAssumption DEF WriterInv

LEMMA LoadHeadKeeps ==
  ASSUME OneProducer, WriterInv, NEW p \in Producers, Ring!LoadHead(p)
  PROVE  WriterInv' /\ head' = head
<1>1. /\ prod[p].pc = "idle" /\ made < MaxPush /\ made' = made + 1
      /\ prod' = [prod EXCEPT ![p] = [pc |-> "ts", head |-> head, sample |-> made]]
      /\ UNCHANGED <<ts, vals, head, log>>
  BY DEF Ring!LoadHead
<1>2. made = head
  BY <1>1, WriterFacts DEF PushInv
<1>3. /\ prod' \in [Producers -> [pc: Ring!ProducerPcs, head: Nat, sample: Nat]]
      /\ prod'[p] = [pc |-> "ts", head |-> head, sample |-> made]
  BY <1>1, WriterFacts DEF WriterInv, Ring!ProducerPcs
<1>4. ASSUME NEW q \in Producers PROVE PushInv(q)'
  BY <1>1, <1>2, <1>3, <1>4 DEF OneProducer, PushInv
<1>5. made' \in 0..MaxPush /\ head <= made'
  BY <1>1, <1>2, WriterFacts
<1>. QED
  BY <1>1, <1>3, <1>4, <1>5 DEF WriterInv, Kept

LEMMA WriteKeeps ==
  ASSUME OneProducer, WriterInv, NEW p \in Producers, Ring!WriteTs(p) \/ Ring!WriteVal(p)
  PROVE  WriterInv' /\ head' = head
<1>1. /\ prod[p].pc \in {"ts", "val"} /\ UNCHANGED <<head, made, log>>
      /\ prod[p].pc = "ts" => /\ ts' = [ts EXCEPT ![Ring!Slot(prod[p].head)] = TsOf[prod[p].sample]]
                              /\ prod' = [prod EXCEPT ![p].pc = "val"] /\ vals' = vals
      /\ prod[p].pc = "val" => /\ vals' = [vals EXCEPT ![Ring!Slot(prod[p].head)] = prod[p].sample]
                               /\ prod' = [prod EXCEPT ![p].pc = "head"] /\ ts' = ts
  BY DEF Ring!WriteTs, Ring!WriteVal
<1>2. /\ prod[p].head = head /\ prod[p].sample = head /\ made = head + 1
      /\ prod[p].pc = "val" => ts[Ring!Slot(head)] = TsOf[head]
  BY <1>1, WriterFacts DEF PushInv
<1>3. head \in 0..MaxPush /\ TsOf[head] \in Nat
  BY <1>2, WriterFacts
<1>4. /\ ts' \in [Ring!Slots -> Nat] /\ vals' \in [Ring!Slots -> Nat]
      /\ ts'[Ring!Slot(head)] = TsOf[head]
      /\ prod[p].pc = "val" => vals'[Ring!Slot(head)] = head
      /\ \A i \in Ring!Slots : i # Ring!Slot(head) => ts'[i] = ts[i] /\ vals'[i] = vals[i]
  BY <1>1, <1>2, <1>3, SlotFacts DEF WriterInv
<1>5. /\ prod' \in [Producers -> [pc: Ring!ProducerPcs, head: Nat, sample: Nat]]
      /\ prod'[p].head = head /\ prod'[p].sample = head
      /\ prod'[p].pc = IF prod[p].pc = "ts" THEN "val" ELSE "head"
  <2>1. CASE prod[p].pc = "ts"
    <3>1. prod' = [prod EXCEPT ![p].pc = "val"]
      BY <1>1, <2>1
    <3>. QED
      BY <1>2, <2>1, <3>1, WriterFacts DEF WriterInv, Ring!ProducerPcs
  <2>2. CASE prod[p].pc = "val"
    <3>1. prod' = [prod EXCEPT ![p].pc = "head"]
      BY <1>1, <2>2
    <3>. QED
      BY <1>2, <2>2, <3>1, WriterFacts DEF WriterInv, Ring!ProducerPcs
  <2>. QED
    BY <1>1, <2>1, <2>2
<1>6. ASSUME NEW q \in Producers PROVE PushInv(q)'
  BY <1>1, <1>2, <1>4, <1>5, <1>6 DEF OneProducer, PushInv
<1>7. Kept'
  BY <1>1, <1>4, SlotFacts DEF Kept, WriterInv
<1>. QED
  BY <1>1, <1>4, <1>5, <1>6, <1>7 DEF WriterInv

(* The sample is published: its slot was written, and the one that leaves   *)
(* the lap is no longer spoken of. *)
LEMMA StoreHeadKeeps ==
  ASSUME OneProducer, WriterInv, NEW p \in Producers, Ring!StoreHead(p) \/ Ring!StoreHeadLate(p)
  PROVE  WriterInv' /\ head' = head + 1
<1>1. /\ prod[p].pc \in {"head", "early"}
      /\ head' = prod[p].head + 1 /\ log' = Append(log, prod[p].sample)
      /\ prod[p].pc = "head" => prod' = [prod EXCEPT ![p].pc = "idle"]
      /\ prod[p].pc = "early" =>
           prod' = [prod EXCEPT ![p] = [pc |-> "val", head |-> prod[p].head + 1,
                                        sample |-> prod[p].sample + 1]]
      /\ UNCHANGED <<ts, vals, made>>
  BY DEF Ring!StoreHead, Ring!StoreHeadLate
<1>2. /\ prod[p].head = head /\ prod[p].sample = head
      /\ made = IF prod[p].pc = "early" THEN head + 2 ELSE head + 1
      /\ ts[Ring!Slot(head)] = TsOf[head] /\ vals[Ring!Slot(head)] = head
      /\ prod[p].pc = "early" => ts[Ring!Slot(head + 1)] = TsOf[head + 1]
  BY <1>1, WriterFacts DEF PushInv
<1>3. head' = head + 1 /\ head \in Nat /\ log' = Append(log, head)
  BY <1>1, <1>2, WriterFacts
<1>4. /\ prod' \in [Producers -> [pc: Ring!ProducerPcs, head: Nat, sample: Nat]]
      /\ prod[p].pc = "head" => prod'[p].pc = "idle"
      /\ prod[p].pc = "early" =>
           prod'[p] = [pc |-> "val", head |-> head + 1, sample |-> head + 1]
  <2>1. CASE prod[p].pc = "head"
    <3>1. prod' = [prod EXCEPT ![p].pc = "idle"]
      BY <1>1, <2>1
    <3>. QED
      BY <2>1, <3>1, WriterFacts DEF WriterInv, Ring!ProducerPcs
  <2>2. CASE prod[p].pc = "early"
    <3>. DEFINE v == [pc |-> "val", head |-> head + 1, sample |-> head + 1]
    <3>1. prod' = [prod EXCEPT ![p] = v]
      BY <1>1, <1>2, <2>2
    <3>2. v \in [pc: Ring!ProducerPcs, head: Nat, sample: Nat]
      BY <1>3 DEF Ring!ProducerPcs
    <3>3. prod \in [Producers -> [pc: Ring!ProducerPcs, head: Nat, sample: Nat]]
      BY DEF WriterInv
    <3>. HIDE DEF v
    <3>4. prod' \in [Producers -> [pc: Ring!ProducerPcs, head: Nat, sample: Nat]] /\ prod'[p] = v
      BY <3>1, <3>2, <3>3
    <3>. QED
      BY <2>2, <3>4 DEF v
  <2>. QED
    BY <1>1, <2>1, <2>2
<1>5. PushInv(p)'
  <2>1. CASE prod[p].pc = "head"
    BY <1>1, <1>2, <1>3, <1>4, <2>1 DEF PushInv
  <2>2. CASE prod[p].pc = "early"
    BY <1>1, <1>2, <1>3, <1>4, <2>2 DEF PushInv
  <2>. QED
    BY <1>1, <2>1, <2>2
<1>6. \A q \in Producers : PushInv(q)'
  BY <1>5 DEF OneProducer
<1>7. Kept'
  <2>. SUFFICES ASSUME NEW q \in 0..head, head + 1 < q + Cap
                PROVE  vals[Ring!Slot(q)] = q /\ ts[Ring!Slot(q)] = TsOf[q]
    BY <1>1, <1>3 DEF Kept
  <2>1. CASE q = head
    BY <1>2, <2>1
  <2>2. CASE q # head
    <3>1. q \in 0..(head - 1) /\ head < q + Cap
      BY <1>3, <2>2, RingAssumption
    <3>. QED
      BY <3>1 DEF WriterInv, Kept
  <2>. QED
    BY <2>1, <2>2
<1>8. /\ log' \in Seq(Nat) /\ Len(log') = head + 1
      /\ \A i \in 1..(head + 1) : log'[i] = i - 1
  BY <1>3 DEF WriterInv
<1>. QED
  BY <1>1, <1>2, <1>3, <1>4, <1>6, <1>7, <1>8 DEF WriterInv

(* In the first lap, the slot of the next sample holds no other one. *)
LEMMA EarlyKeeps ==
  ASSUME RingContext, WriterInv, NEW p \in Producers, Ring!WriteTsEarly(p)
  PROVE  WriterInv' /\ head' = head
<1>1. /\ prod[p].pc = "head" /\ made < Reordered /\ made' = made + 1
      /\ ts' = [ts EXCEPT ![Ring!Slot(prod[p].head + 1)] = TsOf[made]]
      /\ prod' = [prod EXCEPT ![p].pc = "early"]
      /\ UNCHANGED <<vals, head, log>>
  BY DEF Ring!WriteTsEarly
<1>2. /\ prod[p].head = head /\ prod[p].sample = head /\ made = head + 1
      /\ ts[Ring!Slot(head)] = TsOf[head] /\ vals[Ring!Slot(head)] = head
  BY <1>1, WriterFacts DEF PushInv
<1>3. /\ head \in Nat /\ head + 1 < Cap /\ head + 1 \in 0..MaxPush /\ TsOf[head + 1] \in Nat
      /\ made' \in 0..MaxPush /\ head <= made'
  BY <1>1, <1>2, WriterFacts, RingAssumption DEF RingContext, NoneOvertakesLap
<1>4. /\ ts' \in [Ring!Slots -> Nat] /\ ts'[Ring!Slot(head + 1)] = TsOf[head + 1]
      /\ \A i \in Ring!Slots : i # Ring!Slot(head + 1) => ts'[i] = ts[i]
  BY <1>1, <1>2, <1>3, SlotFacts DEF WriterInv
<1>5. /\ prod' \in [Producers -> [pc: Ring!ProducerPcs, head: Nat, sample: Nat]]
      /\ prod'[p].pc = "early" /\ prod'[p].head = head /\ prod'[p].sample = head
  BY <1>1, <1>2, WriterFacts DEF WriterInv, Ring!ProducerPcs
<1>6. ts'[Ring!Slot(head)] = TsOf[head]
  BY <1>2, <1>4, SlotFacts
<1>7. made' = head + 2
  BY <1>1, <1>2, <1>3
<1>8. ASSUME NEW q \in Producers PROVE PushInv(q)'
  BY <1>1, <1>2, <1>3, <1>4, <1>5, <1>6, <1>7, <1>8 DEF OneProducer, RingContext, PushInv
<1>9. Kept'
  <2>. SUFFICES ASSUME NEW q \in 0..(head - 1), head < q + Cap
                PROVE  vals[Ring!Slot(q)] = q /\ ts'[Ring!Slot(q)] = TsOf[q]
    BY <1>1 DEF Kept
  <2>1. vals[Ring!Slot(q)] = q /\ ts[Ring!Slot(q)] = TsOf[q]
    BY DEF WriterInv, Kept
  <2>2. q \in 0..head
    BY <1>3
  <2>3. Ring!Slot(q) \in Ring!Slots /\ Ring!Slot(q) # Ring!Slot(head + 1)
    BY <1>3, <2>2, SlotFacts
  <2>. QED
    BY <1>4, <2>1, <2>3
<1>. QED
  BY <1>1, <1>3, <1>4, <1>5, <1>8, <1>9 DEF WriterInv

LEMMA PushKeeps ==
  ASSUME RingContext, RingInv, NEW p \in Producers, Ring!Push(p)
  PROVE  /\ RingInv'
         /\ UNCHANGED <<rd, answer>> /\ (log' = log \/ log' = Append(log, head))
<1>1. UNCHANGED <<rd, answer>>
  BY DEF Ring!Push, Ring!LoadHead, Ring!WriteTs, Ring!WriteVal, Ring!StoreHead, Ring!WriteTsEarly,
         Ring!StoreHeadLate
<1>2. WriterInv' /\ head' \in {head, head + 1}
  BY LoadHeadKeeps, WriteKeeps, StoreHeadKeeps, EarlyKeeps DEF Ring!Push, RingInv, RingContext
<1>3. head \in Nat /\ head' \in Nat /\ head <= head'
  BY <1>2 DEF RingInv, WriterInv
<1>4. ReaderInv(rd)'
  BY <1>1, <1>3, ReaderUntouched DEF RingInv
<1>5. log' = log \/ log' = Append(log, head)
  <2>1. CASE Ring!StoreHead(p) \/ Ring!StoreHeadLate(p)
    <3>1. prod[p].pc \in {"head", "early"} /\ log' = Append(log, prod[p].sample)
      BY <2>1 DEF Ring!StoreHead, Ring!StoreHeadLate
    <3>2. prod[p].sample = head
      BY <3>1, WriterFacts DEF PushInv, RingInv
    <3>. QED
      BY <3>1, <3>2
  <2>2. CASE log' = log
    BY <2>2
  <2>. QED
    BY <2>1, <2>2 DEF Ring!Push, Ring!LoadHead, Ring!WriteTs, Ring!WriteVal, Ring!WriteTsEarly
<1>. QED
  BY <1>1, <1>2, <1>4, <1>5 DEF RingInv
-----------------------------------------------------------------------------
(* The steps of a read. *)

LEMMA ReaderMoves ==
  ASSUME NEW w, ReaderInv(w), rd' = w, head' = head
  PROVE  ReaderInv(rd)'
BY DEF ReaderInv, Reading, Clean, Searching, Copied, CopiedFrom, Begins, Floor

(* A slot the read may touch holds its sample, as long as the read is not   *)
(* going to be thrown away. *)
LEMMA Fetch ==
  ASSUME WriterInv, NEW r, ReaderInv(r), Reading(r), NEW q \in Nat, q < r.head
  PROVE  /\ ts[Ring!Slot(q)] \in Nat /\ vals[Ring!Slot(q)] \in Nat
         /\ Clean(r) /\ Floor(r) <= q => ts[Ring!Slot(q)] = TsOf[q] /\ vals[Ring!Slot(q)] = q
<1>1. Ring!Slot(q) \in Ring!Slots
  BY SlotType
<1>2. ts[Ring!Slot(q)] \in Nat /\ vals[Ring!Slot(q)] \in Nat
  BY <1>1 DEF WriterInv
<1>3. r.head \in 1..head /\ head \in Nat
  BY DEF ReaderInv, WriterInv
<1>4. q \in 0..(head - 1)
  BY <1>3
<1>5. Floor(r) \in Nat /\ Cap \in Nat
  BY <1>3, RingAssumption, SMTT(30) DEF Floor, Ring!ValidLo, Ring!Visible
<1>6. ASSUME Clean(r), Floor(r) <= q PROVE head < q + Cap
  BY <1>3, <1>5, <1>6 DEF Clean
<1>. QED
  BY <1>2, <1>4, <1>6 DEF WriterInv, Kept

LEMMA WindowBounds ==
  ASSUME NEW h \in Nat \ {0}
  PROVE  /\ Ring!ValidLo(h) \in Nat /\ Ring!ValidLo(h) < h
         /\ Ring!Contract!Limit(Ring!Visible, h) = h - Ring!ValidLo(h)
         /\ \A n \in Nat : Ring!Contract!Limit(n, h - Ring!ValidLo(h)) \in 0..(h - Ring!ValidLo(h))
BY RingAssumption DEF Ring!ValidLo, Ring!Visible, Ring!Contract!Limit

LEMMA LoadKeeps ==
  ASSUME WriterInv, ReaderInv(rd), Ring!Load
  PROVE  ReaderInv(rd)'
<1>. DEFINE first == CASE rd.op.kind = "latest" -> head - 1
                       [] rd.op.kind = "recent" -> Ring!FromNewest(head)
                       [] rd.op.kind = "window" -> Ring!ValidLo(head)
            pc == IF rd.op.kind = "window" THEN "search" ELSE "scan"
            w == [rd EXCEPT !.pc = pc, !.head = head, !.lo = first, !.hi = head,
                            !.samples = << >>, !.ts = << >>]
<1>1. /\ rd.pc = "load" /\ rd' = w /\ head' = head
      /\ head \in Nat \ {0} /\ rd \in Reader
  BY DEF Ring!Load, WriterInv, ReaderInv
<1>2. rd.op.kind \in {"latest", "recent", "window"} /\ rd.op.max \in Nat /\ rd.op \in Ops
  BY <1>1, RingAssumption DEF Reader
<1>3. /\ first \in Nat /\ first <= head
      /\ first >= (IF rd.op.kind = "latest" THEN head - 1 ELSE Ring!ValidLo(head))
  BY <1>1, <1>2, WindowBounds DEF Ring!FromNewest
<1>4. /\ w.pc = pc /\ w.op = rd.op /\ w.calledAt = rd.calledAt /\ w.head = head
      /\ w.lo = first /\ w.hi = head /\ w.samples = << >> /\ w.ts = << >> /\ w \in Reader
  <2>1. << >> \in Seq(Nat) /\ pc \in Ring!ReaderPcs
    BY DEF Ring!ReaderPcs
  <2>. HIDE DEF first, pc
  <2>. QED
    BY <1>1, <1>3, <2>1 DEF Reader
<1>5. rd.op.kind = "latest" => first = head - 1
  BY <1>2
<1>6. rd.op.kind = "recent" =>
        first = head - Ring!Contract!Limit(rd.op.max, head - Ring!ValidLo(head))
  BY <1>2 DEF Ring!FromNewest
<1>7. rd.op.kind = "window" => first = Ring!ValidLo(head)
  BY <1>2
<1>8. pc = IF rd.op.kind = "window" THEN "search" ELSE "scan"
  OBVIOUS
<1>9. Len(<< >>) = 0
  OBVIOUS
<1>. HIDE DEF w, first, pc
<1>10. Floor(w) <= w.lo /\ Floor(w) \in Nat
  <2>1. Ring!ValidLo(head) \in Nat /\ head - 1 \in Nat
    BY <1>1, WindowBounds
  <2>2. Floor(w) = IF rd.op.kind = "latest" THEN head - 1 ELSE Ring!ValidLo(head)
    BY <1>4 DEF Floor
  <2>. QED
    BY <1>3, <1>4, <2>1, <2>2
<1>11. CASE rd.op.kind = "window"
  <2>1. Searching(w)
    BY <1>1, <1>4, <1>7, <1>11, WindowBounds, SMTT(30) DEF Searching, Floor
  <2>. QED
    BY <1>1, <1>3, <1>4, <1>8, <1>10, <1>11, <2>1, ReaderMoves DEF ReaderInv
<1>12. CASE rd.op.kind # "window"
  <2>1. Begins(w, first)
    BY <1>2, <1>4, <1>5, <1>6, <1>12 DEF Begins
  <2>2. first - first = 0
    BY <1>3
  <2>3. CopiedFrom(w, first)
    BY <1>4, <1>8, <1>9, <1>12, <2>1, <2>2 DEF CopiedFrom
  <2>4. Copied(w)
    BY <1>3, <1>4, <1>10, <2>3 DEF Copied
  <2>. QED
    BY <1>1, <1>3, <1>4, <1>8, <1>10, <1>12, <2>4, ReaderMoves DEF ReaderInv
<1>. QED
  BY <1>11, <1>12

(* A probe moves one bound of the search to the middle. *)
LEMMA ProbeKeeps ==
  ASSUME TimeOrdered, WriterInv, ReaderInv(rd), Ring!Search
  PROVE  ReaderInv(rd)'
<1>. DEFINE mid == rd.lo + (rd.hi - rd.lo) \div 2
            left == [rd EXCEPT !.lo = mid + 1]
            right == [rd EXCEPT !.hi = mid]
<1>1. /\ rd.pc = "search" /\ rd.lo < rd.hi /\ head' = head
      /\ rd' = IF Ring!Before(ts[Ring!Slot(mid)], rd.op.start) THEN left ELSE right
  BY DEF Ring!Search
<1>2. /\ rd \in Reader /\ rd.op.kind = "window" /\ rd.op.start \in Nat
      /\ rd.lo \in Nat /\ rd.hi \in Nat /\ rd.head \in Nat /\ rd.hi <= rd.head
      /\ Floor(rd) <= rd.lo /\ Reading(rd) /\ rd.head \in 1..head /\ rd.calledAt <= head
      /\ head \in Nat
  BY <1>1, RingAssumption DEF ReaderInv, Reader, Reading, WriterInv
<1>3. mid \in Nat /\ rd.lo <= mid /\ mid < rd.hi
  BY <1>1, <1>2
<1>4. Floor(rd) \in Nat /\ Floor(rd) <= mid /\ mid < rd.head
  <2>1. Floor(rd) = Ring!ValidLo(rd.head)
    BY <1>2 DEF Floor
  <2>2. rd.head \in Nat \ {0}
    BY <1>2
  <2>3. Floor(rd) \in Nat
    BY <2>1, <2>2, WindowBounds
  <2>. HIDE DEF mid
  <2>4. Floor(rd) <= mid
    BY <1>2, <1>3, <2>3
  <2>5. mid < rd.head
    BY <1>2, <1>3
  <2>. QED
    BY <2>3, <2>4, <2>5
<1>. HIDE DEF mid
<1>5. /\ left \in Reader /\ left.pc = rd.pc /\ left.op = rd.op /\ left.head = rd.head
      /\ left.lo = mid + 1 /\ left.hi = rd.hi /\ left.samples = rd.samples
      /\ left.ts = rd.ts /\ left.calledAt = rd.calledAt /\ Floor(left) = Floor(rd)
  <2>. DEFINE n == mid + 1
  <2>1. n \in Nat
    BY <1>3
  <2>. HIDE DEF n
  <2>2. [rd EXCEPT !.lo = n] \in Reader /\ [rd EXCEPT !.lo = n].lo = n
    BY <1>2, <2>1 DEF Reader
  <2>3. left = [rd EXCEPT !.lo = n]
    BY DEF n
  <2>. QED
    BY <1>2, <2>2, <2>3 DEF Reader, Floor, n
<1>6. /\ right \in Reader /\ right.pc = rd.pc /\ right.op = rd.op /\ right.head = rd.head
      /\ right.lo = rd.lo /\ right.hi = mid /\ right.samples = rd.samples
      /\ right.ts = rd.ts /\ right.calledAt = rd.calledAt /\ Floor(right) = Floor(rd)
  BY <1>2, <1>3 DEF Reader, Floor
<1>7. ASSUME Clean(rd) PROVE ts[Ring!Slot(mid)] = TsOf[mid] /\ Searching(rd)
  BY <1>1, <1>2, <1>3, <1>4, <1>7, Fetch DEF ReaderInv
<1>8. head <= MaxPush /\ MaxPush \in Nat /\ \A q \in 0..MaxPush : TsOf[q] \in Nat
  BY RingAssumption DEF WriterInv
<1>. HIDE DEF left, right
<1>9. CASE Ring!Before(ts[Ring!Slot(mid)], rd.op.start)
  <2>1. ASSUME Clean(rd) PROVE Searching(left)
    <3>1. TsOf[mid] < rd.op.start
      BY <1>7, <1>9, <2>1 DEF Ring!Before
    <3>2. ASSUME NEW q \in Floor(rd)..mid PROVE TsOf[q] < rd.op.start
      <4>1. q \in 0..MaxPush /\ mid \in 0..MaxPush /\ q <= mid
        BY <1>2, <1>3, <1>4, <1>8, <3>2
      <4>2. TsOf[q] <= TsOf[mid] /\ TsOf[q] \in Nat /\ TsOf[mid] \in Nat
        BY <1>8, <4>1 DEF TimeOrdered
      <4>. QED
        BY <1>2, <3>1, <4>2
    <3>3. left.lo - 1 = mid
      BY <1>3, <1>5
    <3>4. \A q \in Floor(left)..(left.lo - 1) : TsOf[q] < left.op.start
      BY <1>5, <3>2, <3>3
    <3>5. left.hi < left.head => left.op.start <= TsOf[left.hi]
      BY <1>5, <1>7, <2>1 DEF Searching
    <3>. QED
      BY <3>4, <3>5 DEF Searching
  <2>2. mid + 1 <= rd.hi /\ Floor(rd) <= mid + 1
    BY <1>2, <1>3, <1>4
  <2>. QED
    BY <1>1, <1>2, <1>5, <1>9, <2>1, <2>2, ReaderMoves DEF ReaderInv, Reading, Clean
<1>10. CASE ~Ring!Before(ts[Ring!Slot(mid)], rd.op.start)
  <2>1. ASSUME Clean(rd) PROVE Searching(right)
    <3>1. TsOf[mid] \in Nat
      BY <1>2, <1>3, <1>4, <1>8
    <3>2. rd.op.start <= TsOf[mid]
      BY <1>2, <1>7, <1>10, <2>1, <3>1 DEF Ring!Before
    <3>. QED
      BY <1>6, <1>7, <2>1, <3>2 DEF Searching
  <2>2. mid <= rd.head
    BY <1>2, <1>4, <1>3
  <2>. QED
    BY <1>1, <1>2, <1>3, <1>6, <1>10, <2>1, <2>2, ReaderMoves DEF ReaderInv, Reading, Clean
<1>. QED
  BY <1>9, <1>10

(* What is known of a read in progress. *)
LEMMA ReadingFacts ==
  ASSUME WriterInv, NEW r, ReaderInv(r), Reading(r)
  PROVE  /\ r \in Reader /\ r.op \in Ops
         /\ r.op.kind \in {"latest", "recent", "window"}
         /\ r.op.start \in Nat /\ r.op.end \in Nat /\ r.op.max \in Nat
         /\ r.calledAt \in Nat /\ r.calledAt <= head /\ r.calledAt <= r.head
         /\ r.head \in 1..head /\ r.head \in Nat \ {0} /\ head \in Nat
         /\ r.lo \in Nat /\ r.hi \in Nat /\ r.lo <= r.hi /\ r.hi <= r.head
         /\ r.samples \in Seq(Nat) /\ r.ts \in Seq(Nat)
         /\ Floor(r) \in Nat /\ Floor(r) <= r.lo
<1>1. /\ r \in Reader /\ r.op \in Ops /\ r.calledAt \in Nat /\ r.calledAt <= r.head
      /\ r.head \in 1..head /\ head \in Nat
      /\ r.lo \in Nat /\ r.hi \in Nat /\ r.lo <= r.hi /\ r.hi <= r.head
      /\ r.samples \in Seq(Nat) /\ r.ts \in Seq(Nat) /\ Floor(r) <= r.lo
      /\ r.calledAt <= head
  BY DEF WriterInv, ReaderInv, Reader, Reading
<1>2. r.head \in Nat \ {0}
  BY <1>1
<1>3. Floor(r) \in Nat
  <2>1. Ring!ValidLo(r.head) \in Nat /\ r.head - 1 \in Nat
    BY <1>2, WindowBounds
  <2>. QED
    BY <2>1 DEF Floor
<1>4. /\ r.op.kind \in {"latest", "recent", "window"}
      /\ r.op.start \in Nat /\ r.op.end \in Nat /\ r.op.max \in Nat
  BY <1>1, RingAssumption
<1>. QED
  BY <1>1, <1>2, <1>3, <1>4

(* Where the search ends, the copy begins. *)
LEMMA SearchedKeeps ==
  ASSUME WriterInv, ReaderInv(rd), Ring!Searched
  PROVE  ReaderInv(rd)'
<1>. DEFINE w == [rd EXCEPT !.pc = "scan", !.hi = rd.head]
<1>1. /\ rd.pc = "search" /\ rd.lo = rd.hi /\ rd' = w /\ head' = head /\ Reading(rd)
      /\ rd.op.kind = "window" /\ rd.samples = << >> /\ rd.ts = << >>
  BY DEF Ring!Searched, Reading, ReaderInv
<1>2. /\ w \in Reader /\ w.pc = "scan" /\ w.op = rd.op /\ w.head = rd.head /\ w.lo = rd.lo
      /\ w.hi = rd.head /\ w.samples = << >> /\ w.ts = << >> /\ w.calledAt = rd.calledAt
      /\ Floor(w) = Floor(rd)
  <2>1. rd \in Reader /\ rd.head \in Nat /\ "scan" \in Ring!ReaderPcs
    BY <1>1, ReadingFacts DEF Ring!ReaderPcs
  <2>2. w \in Reader
    BY <2>1 DEF Reader
  <2>. QED
    BY <1>1, <2>1, <2>2 DEF Reader, Floor
<1>. HIDE DEF w
<1>3. ASSUME Clean(rd) PROVE CopiedFrom(w, rd.lo)
  <2>1. Searching(rd)
    BY <1>1, <1>3 DEF ReaderInv
  <2>2. Begins(w, rd.lo)
    BY <1>1, <1>2, <2>1 DEF Begins, Searching
  <2>3. rd.lo - rd.lo = 0 /\ Len(<< >>) = 0 /\ rd.lo..(rd.lo - 1) = {}
    BY <1>1, ReadingFacts
  <2>. QED
    BY <1>1, <1>2, <2>2, <2>3 DEF CopiedFrom
<1>4. ASSUME Clean(rd) PROVE Copied(w)
  <2>1. rd.lo \in Floor(w)..w.lo
    BY <1>1, <1>2, ReadingFacts
  <2>. QED
    BY <1>3, <1>4, <2>1 DEF Copied
<1>5. rd.lo <= rd.head
  BY <1>1, ReadingFacts
<1>. QED
  BY <1>1, <1>2, <1>4, <1>5, ReadingFacts, ReaderMoves DEF ReaderInv, Reading, Clean

(* Where the scan ends there is nothing left, or nothing that is wanted. *)
LEMMA ScannedKeeps ==
  ASSUME WriterInv, ReaderInv(rd), rd.pc = "scan", head' = head,
         rd' = [rd EXCEPT !.pc = "check"],
         Clean(rd) => \/ rd.lo = rd.hi
                      \/ rd.op.kind = "window" /\ rd.op.end <= TsOf[rd.lo]
  PROVE  ReaderInv(rd)'
<1>. DEFINE w == [rd EXCEPT !.pc = "check"]
<1>1. Reading(rd) /\ rd.hi = rd.head
  BY DEF Reading, ReaderInv
<1>2. /\ w \in Reader /\ w.pc = "check" /\ w.op = rd.op /\ w.head = rd.head /\ w.lo = rd.lo
      /\ w.hi = rd.hi /\ w.samples = rd.samples /\ w.ts = rd.ts
      /\ w.calledAt = rd.calledAt /\ Floor(w) = Floor(rd)
  BY <1>1, ReadingFacts DEF Reader, Ring!ReaderPcs, Floor
<1>. HIDE DEF w
<1>3. ASSUME Clean(rd) PROVE Copied(w)
  <2>1. PICK a \in Floor(rd)..rd.lo : CopiedFrom(rd, a)
    BY <1>1, <1>3 DEF ReaderInv, Copied
  <2>2. CopiedFrom(w, a)
    BY <1>1, <1>2, <1>3, <2>1 DEF CopiedFrom, Begins, Floor
  <2>. QED
    BY <1>2, <2>1, <2>2 DEF Copied
<1>. QED
  BY <1>1, <1>2, <1>3, ReadingFacts, ReaderMoves DEF ReaderInv, Reading, Clean, w

LEMMA ScanTsKeeps ==
  ASSUME WriterInv, ReaderInv(rd), Ring!ScanTs
  PROVE  ReaderInv(rd)'
<1>. DEFINE t == ts[Ring!Slot(rd.lo)]
            recent == [rd EXCEPT !.ts = Append(@, t), !.lo = @ + 1]
            other == [rd EXCEPT !.ts = Append(@, t), !.pc = "val"]
<1>1. /\ rd.pc = "scan" /\ rd.lo < rd.hi /\ head' = head /\ Reading(rd) /\ rd.hi = rd.head
      /\ rd' = IF rd.op.kind = "window" /\ t >= rd.op.end THEN [rd EXCEPT !.pc = "check"]
               ELSE IF rd.op.kind = "recent" THEN recent ELSE other
  BY DEF Ring!ScanTs, Reading, ReaderInv
<1>2. rd.lo \in Nat /\ rd.lo < rd.head /\ rd.lo + 1 \in Nat
  BY <1>1, ReadingFacts
<1>3. t \in Nat /\ (Clean(rd) => t = TsOf[rd.lo])
  BY <1>1, <1>2, Fetch, ReadingFacts
<1>. HIDE DEF t
<1>4. CASE rd.op.kind = "window" /\ t >= rd.op.end
  BY <1>1, <1>3, <1>4, ReadingFacts, ScannedKeeps
<1>5. Append(rd.ts, t) \in Seq(Nat) /\ rd.ts \in Seq(Nat) /\ rd \in Reader
      /\ Len(Append(rd.ts, t)) = Len(rd.ts) + 1 /\ Len(rd.ts) \in Nat
      /\ \A i \in 1..(Len(rd.ts) + 1) :
           Append(rd.ts, t)[i] = IF i = Len(rd.ts) + 1 THEN t ELSE rd.ts[i]
  BY <1>1, <1>3, ReadingFacts
<1>6. ASSUME Clean(rd), NEW a \in Floor(rd)..rd.lo, CopiedFrom(rd, a)
      PROVE  /\ a \in Nat /\ Len(Append(rd.ts, t)) = rd.lo - a + 1
             /\ rd.lo + 1 - a = rd.lo - a + 1
             /\ \A i \in 1..Len(Append(rd.ts, t)) : Append(rd.ts, t)[i] = TsOf[a + i - 1]
  <2>1. a \in Nat /\ Len(rd.ts) = rd.lo - a /\ \A i \in 1..Len(rd.ts) : rd.ts[i] = TsOf[a + i - 1]
    BY <1>1, <1>6, ReadingFacts DEF CopiedFrom
  <2>2. a + (rd.lo - a + 1) - 1 = rd.lo /\ rd.lo + 1 - a = rd.lo - a + 1
    BY <1>2, <2>1
  <2>3. ASSUME NEW i \in 1..(Len(rd.ts) + 1) PROVE Append(rd.ts, t)[i] = TsOf[a + i - 1]
    <3>1. CASE i = Len(rd.ts) + 1
      <4>1. a + i - 1 = rd.lo
        BY <2>1, <2>2, <3>1
      <4>. QED
        BY <1>3, <1>5, <1>6, <3>1, <4>1
    <3>2. CASE i # Len(rd.ts) + 1
      <4>1. i \in 1..Len(rd.ts)
        BY <1>5, <3>2
      <4>. QED
        BY <1>5, <2>1, <3>2, <4>1
    <3>. QED
      BY <3>1, <3>2
  <2>4. Len(Append(rd.ts, t)) = rd.lo - a + 1
    BY <1>5, <2>1
  <2>. QED
    BY <1>5, <2>1, <2>2, <2>3, <2>4
<1>7. CASE rd.op.kind = "recent"
  <2>1. /\ recent \in Reader /\ recent.pc = "scan" /\ recent.op = rd.op
        /\ recent.head = rd.head /\ recent.lo = rd.lo + 1 /\ recent.hi = rd.hi
        /\ recent.samples = rd.samples /\ recent.ts = Append(rd.ts, t)
        /\ recent.calledAt = rd.calledAt /\ Floor(recent) = Floor(rd)
    <3>. DEFINE n == rd.lo + 1
                s == Append(rd.ts, t)
    <3>1. n \in Nat /\ s \in Seq(Nat)
      BY <1>2, <1>5
    <3>2. recent = [rd EXCEPT !.ts = s, !.lo = n]
      BY <1>5 DEF Reader
    <3>. HIDE DEF n, s
    <3>3. recent \in Reader /\ recent.ts = s /\ recent.lo = n
      BY <1>5, <3>1, <3>2 DEF Reader
    <3>. QED
      BY <1>1, <1>5, <3>2, <3>3 DEF Reader, Floor, n, s
  <2>. HIDE DEF recent
  <2>2. ASSUME Clean(rd) PROVE Copied(recent)
    <3>1. PICK a \in Floor(rd)..rd.lo : CopiedFrom(rd, a)
      BY <1>1, <2>2 DEF ReaderInv, Copied
    <3>2. CopiedFrom(recent, a)
      <4>1. Begins(recent, a) /\ Len(rd.samples) = 0
        BY <1>7, <2>1, <3>1 DEF CopiedFrom, Begins
      <4>2. /\ Len(recent.ts) = recent.lo - a
            /\ \A i \in 1..Len(recent.ts) : recent.ts[i] = TsOf[a + i - 1]
        <5>. DEFINE u == Append(rd.ts, t)
        <5>1. /\ Len(u) = rd.lo - a + 1 /\ rd.lo + 1 - a = rd.lo - a + 1
              /\ \A i \in 1..Len(u) : u[i] = TsOf[a + i - 1]
          BY <1>6, <2>2, <3>1
        <5>2. recent.ts = u /\ recent.lo = rd.lo + 1
          BY <2>1
        <5>. HIDE DEF u
        <5>3. Len(recent.ts) = Len(u)
          BY <5>2
        <5>5. recent.lo - a = rd.lo - a + 1
          <6>1. rd.lo \in Nat /\ a \in Nat
            BY <1>2, <1>6, <2>2, <3>1
          <6>. QED
            BY <5>2, <6>1
        <5>4. \A i \in 1..Len(recent.ts) : recent.ts[i] = TsOf[a + i - 1]
          BY <5>1, <5>2, Zenon
        <5>. QED
          BY <5>1, <5>3, <5>4, <5>5
      <4>. QED
        BY <1>7, <2>1, <4>1, <4>2 DEF CopiedFrom
    <3>3. a \in Floor(recent)..recent.lo
      BY <1>1, <2>1, ReadingFacts
    <3>. QED
      BY <3>2, <3>3 DEF Copied
  <2>3. rd.lo + 1 <= rd.hi /\ Floor(rd) <= rd.lo + 1
    BY <1>1, ReadingFacts
  <2>. QED
    BY <1>1, <1>7, <2>1, <2>2, <2>3, ReadingFacts, ReaderMoves DEF ReaderInv, Reading, Clean
<1>8. CASE rd.op.kind # "recent" /\ ~(rd.op.kind = "window" /\ t >= rd.op.end)
  <2>1. /\ other \in Reader /\ other.pc = "val" /\ other.op = rd.op
        /\ other.head = rd.head /\ other.lo = rd.lo /\ other.hi = rd.hi
        /\ other.samples = rd.samples /\ other.ts = Append(rd.ts, t)
        /\ other.calledAt = rd.calledAt /\ Floor(other) = Floor(rd)
    <3>. DEFINE s == Append(rd.ts, t)
    <3>1. "val" \in Ring!ReaderPcs /\ s \in Seq(Nat)
      BY <1>5 DEF Ring!ReaderPcs
    <3>2. other = [rd EXCEPT !.ts = s, !.pc = "val"]
      BY <1>5 DEF Reader
    <3>. HIDE DEF s
    <3>3. other \in Reader /\ other.ts = s /\ other.pc = "val"
      BY <1>5, <3>1, <3>2 DEF Reader
    <3>. QED
      BY <1>1, <1>5, <3>2, <3>3 DEF Reader, Floor, s
  <2>. HIDE DEF other
  <2>2. ASSUME Clean(rd) PROVE Copied(other)
    <3>1. PICK a \in Floor(rd)..rd.lo : CopiedFrom(rd, a)
      BY <1>1, <2>2 DEF ReaderInv, Copied
    <3>2. rd.op.kind = "window" => TsOf[rd.lo] < rd.op.end
      BY <1>1, <1>3, <1>8, <2>2, ReadingFacts
    <3>3. CopiedFrom(other, a)
      BY <1>1, <1>6, <1>8, <2>1, <2>2, <3>1, <3>2 DEF CopiedFrom, Begins, Floor
    <3>. QED
      BY <1>1, <2>1, <3>1, <3>3 DEF Copied
  <2>. QED
    BY <1>1, <1>8, <2>1, <2>2, ReadingFacts, ReaderMoves DEF ReaderInv, Reading, Clean
<1>. QED
  BY <1>4, <1>7, <1>8

LEMMA ScanValKeeps ==
  ASSUME WriterInv, ReaderInv(rd), Ring!ScanVal
  PROVE  ReaderInv(rd)'
<1>. DEFINE v == vals[Ring!Slot(rd.lo)]
            n == rd.lo + 1
            s == Append(rd.samples, v)
            w == [rd EXCEPT !.samples = s, !.lo = n, !.pc = "scan"]
<1>1. /\ rd.pc = "val" /\ rd.lo < rd.hi /\ head' = head /\ Reading(rd) /\ rd.hi = rd.head
      /\ rd.op.kind # "recent"
  BY DEF Ring!ScanVal, Reading, ReaderInv
<1>2. rd.lo \in Nat /\ rd.lo < rd.head /\ n \in Nat
  BY <1>1, ReadingFacts
<1>3. v \in Nat /\ (Clean(rd) => v = rd.lo)
  BY <1>1, <1>2, Fetch, ReadingFacts
<1>. HIDE DEF v
<1>4. /\ rd.samples \in Seq(Nat) /\ rd \in Reader /\ s \in Seq(Nat)
      /\ Len(s) = Len(rd.samples) + 1 /\ Len(rd.samples) \in Nat
      /\ \A i \in 1..(Len(rd.samples) + 1) :
           s[i] = IF i = Len(rd.samples) + 1 THEN v ELSE rd.samples[i]
  BY <1>1, <1>3, ReadingFacts
<1>5. rd' = w
  BY <1>4 DEF Ring!ScanVal, Reader, v
<1>. HIDE DEF s
<1>6. n = rd.lo + 1
  OBVIOUS
<1>. HIDE DEF n
<1>7. /\ w \in Reader /\ w.pc = "scan" /\ w.op = rd.op /\ w.head = rd.head /\ w.lo = n
      /\ w.hi = rd.hi /\ w.samples = s /\ w.ts = rd.ts
      /\ w.calledAt = rd.calledAt /\ Floor(w) = Floor(rd)
  <2>1. "scan" \in Ring!ReaderPcs
    BY DEF Ring!ReaderPcs
  <2>2. w \in Reader
    BY <1>2, <1>4, <2>1 DEF Reader
  <2>. QED
    BY <1>4, <2>2 DEF Reader, Floor
<1>. HIDE DEF w
<1>8. ASSUME Clean(rd) PROVE Copied(w)
  <2>1. PICK a \in Floor(rd)..rd.lo : CopiedFrom(rd, a)
    BY <1>1, <1>8 DEF ReaderInv, Copied
  <2>2. /\ a \in Nat /\ a <= rd.lo /\ Begins(rd, a) /\ Len(rd.samples) = rd.lo - a
        /\ Len(rd.ts) = rd.lo - a + 1
        /\ \A i \in 1..Len(rd.samples) : rd.samples[i] = a + i - 1
        /\ \A i \in 1..Len(rd.ts) : rd.ts[i] = TsOf[a + i - 1]
        /\ rd.op.kind = "window" => /\ \A q \in a..(rd.lo - 1) : TsOf[q] < rd.op.end
                                    /\ TsOf[rd.lo] < rd.op.end
    <3>1. a \in Nat /\ a <= rd.lo
      BY <1>1, <1>2, <2>1, ReadingFacts
    <3>. QED
      BY <1>1, <2>1, <3>1 DEF CopiedFrom
  <2>3. /\ a + (rd.lo - a + 1) - 1 = rd.lo /\ n - a = rd.lo - a + 1
        /\ \A q \in a..(n - 1) : q \in a..(rd.lo - 1) \/ q = rd.lo
    <3>1. a \in Nat /\ rd.lo \in Nat
      BY <1>2, <2>2
    <3>. QED
      BY <1>6, <3>1
  <2>4. ASSUME NEW i \in 1..Len(s) PROVE s[i] = a + i - 1
    <3>1. CASE i = Len(rd.samples) + 1
      <4>1. a + i - 1 = rd.lo
        BY <2>2, <2>3, <3>1
      <4>. QED
        BY <1>3, <1>4, <1>8, <3>1, <4>1
    <3>2. CASE i # Len(rd.samples) + 1
      <4>1. i \in 1..Len(rd.samples)
        BY <1>4, <3>2
      <4>. QED
        BY <1>4, <2>2, <3>2, <4>1
    <3>. QED
      BY <3>1, <3>2
  <2>5. Len(s) = n - a /\ Len(rd.ts) = n - a
    BY <1>4, <2>2, <2>3
  <2>6. Begins(w, a)
    BY <1>7, <2>2 DEF Begins, Floor
  <2>7. rd.op.kind = "window" => \A q \in a..(n - 1) : TsOf[q] < rd.op.end
    BY <2>2, <2>3
  <2>8. CopiedFrom(w, a)
    BY <1>1, <1>7, <2>2, <2>4, <2>5, <2>6, <2>7 DEF CopiedFrom
  <2>9. a \in Floor(w)..w.lo
    BY <1>1, <1>2, <1>6, <1>7, <2>2, ReadingFacts
  <2>. QED
    BY <2>8, <2>9 DEF Copied
<1>9. n <= rd.hi /\ Floor(rd) <= n
  BY <1>1, <1>6, ReadingFacts
<1>. QED
  BY <1>1, <1>5, <1>7, <1>8, <1>9, ReadingFacts, ReaderMoves DEF ReaderInv, Reading, Clean

LEMMA CallKeeps ==
  ASSUME WriterInv, ReaderInv(rd), NEW o \in Ops, Ring!Call(o)
  PROVE  ReaderInv(rd)' /\ answer' = Ring!None
<1>. DEFINE w == [rd EXCEPT !.pc = "load", !.op = o, !.calledAt = Len(log)]
<1>1. rd' = w /\ head' = head /\ rd \in Reader /\ Len(log) \in Nat /\ Len(log) = head
      /\ answer' = Ring!None
  BY DEF Ring!Call, ReaderInv, WriterInv
<1>2. w \in Reader /\ w.pc = "load" /\ w.calledAt = Len(log)
  <2>1. "load" \in Ring!ReaderPcs
    BY DEF Ring!ReaderPcs
  <2>. QED
    BY <1>1, <2>1 DEF Reader
<1>. HIDE DEF w
<1>3. ReaderInv(w)
  BY <1>1, <1>2 DEF ReaderInv, Reading
<1>. QED
  BY <1>1, <1>3, ReaderMoves

LEMMA RestKeeps ==
  ASSUME WriterInv, ReaderInv(rd), NEW result, Ring!Return(result), head' = head
  PROVE  ReaderInv(rd)'
<1>. DEFINE w == [rd EXCEPT !.pc = "idle", !.head = 0, !.lo = 0, !.hi = 0,
                            !.samples = << >>, !.ts = << >>]
<1>1. rd' = w /\ rd \in Reader
  BY DEF Ring!Return, ReaderInv
<1>2. w \in Reader /\ w.pc = "idle"
  <2>1. "idle" \in Ring!ReaderPcs /\ << >> \in Seq(Nat)
    BY DEF Ring!ReaderPcs
  <2>. QED
    BY <1>1, <2>1 DEF Reader
<1>. HIDE DEF w
<1>3. ReaderInv(w)
  BY <1>2 DEF ReaderInv, Reading
<1>. QED
  BY <1>1, <1>3, ReaderMoves

LEMMA RetryKeeps ==
  ASSUME WriterInv, ReaderInv(rd), Ring!Retry
  PROVE  ReaderInv(rd)'
<1>. DEFINE w == [rd EXCEPT !.pc = "load", !.samples = << >>, !.ts = << >>]
<1>1. rd' = w /\ rd \in Reader /\ head' = head /\ rd.calledAt <= head
  BY DEF Ring!Retry, ReaderInv
<1>2. w \in Reader /\ w.pc = "load" /\ w.calledAt = rd.calledAt
  <2>1. "load" \in Ring!ReaderPcs /\ << >> \in Seq(Nat)
    BY DEF Ring!ReaderPcs
  <2>. QED
    BY <1>1, <2>1 DEF Reader
<1>. HIDE DEF w
<1>3. ReaderInv(w)
  BY <1>1, <1>2 DEF ReaderInv, Reading
<1>. QED
  BY <1>1, <1>3, ReaderMoves

LEMMA ReadKeeps ==
  ASSUME RingContext, RingInv, Ring!Read
  PROVE  RingInv'
<1>1. UNCHANGED <<ts, vals, head, made, prod, log>>
  BY DEF Ring!Read, Ring!ReturnEmpty, Ring!Load, Ring!Search, Ring!Searched, Ring!ScanTs,
         Ring!ScanVal, Ring!Scanned, Ring!Validate, Ring!Retry
<1>2. WriterInv'
  BY <1>1 DEF RingInv, WriterInv, PushInv, Kept
<1>3. WriterInv /\ ReaderInv(rd) /\ answer \in [samples: Seq(Nat), ts: Seq(Nat)]
  BY DEF RingInv
<1>4. CASE Ring!ReturnEmpty
  <2>1. Ring!Return(Ring!None) /\ << >> \in Seq(Nat)
    BY <1>4 DEF Ring!ReturnEmpty
  <2>2. ReaderInv(rd)'
    BY <1>1, <1>3, <2>1, RestKeeps
  <2>3. answer' \in [samples: Seq(Nat), ts: Seq(Nat)]
    BY <2>1 DEF Ring!Return, Ring!None, Ring!Contract!None
  <2>. QED
    BY <1>2, <2>2, <2>3 DEF RingInv
<1>5. CASE Ring!Validate
  <2>1. Ring!Return([samples |-> rd.samples, ts |-> rd.ts]) /\ rd.pc = "check"
    BY <1>5 DEF Ring!Validate
  <2>2. ReaderInv(rd)'
    BY <1>1, <1>3, <2>1, RestKeeps
  <2>3. rd.samples \in Seq(Nat) /\ rd.ts \in Seq(Nat)
    BY <1>3 DEF ReaderInv, Reader
  <2>4. answer' \in [samples: Seq(Nat), ts: Seq(Nat)]
    BY <2>1, <2>3 DEF Ring!Return
  <2>. QED
    BY <1>2, <2>2, <2>4 DEF RingInv
<1>6. CASE Ring!Scanned
  <2>1. rd.pc = "scan" /\ rd.lo = rd.hi /\ rd' = [rd EXCEPT !.pc = "check"]
    BY <1>6 DEF Ring!Scanned
  <2>. QED
    BY <1>1, <1>2, <1>3, <1>6, <2>1, ScannedKeeps DEF RingInv, Ring!Scanned
<1>7. CASE Ring!Load \/ Ring!Search \/ Ring!Searched \/ Ring!ScanTs \/ Ring!ScanVal \/ Ring!Retry
  <2>1. ReaderInv(rd)'
    BY <1>3, <1>7, LoadKeeps, ProbeKeeps, SearchedKeeps, ScanTsKeeps, ScanValKeeps, RetryKeeps
    DEF RingContext
  <2>2. answer' = answer
    BY <1>7 DEF Ring!Load, Ring!Search, Ring!Searched, Ring!ScanTs, Ring!ScanVal, Ring!Retry
  <2>. QED
    BY <1>2, <1>3, <2>1, <2>2 DEF RingInv
<1>. QED
  BY <1>4, <1>5, <1>6, <1>7 DEF Ring!Read

LEMMA RingStep == ASSUME RingContext, RingInv, [Ring!Next]_(Ring!vars) PROVE RingInv'
<1>1. CASE \E p \in Producers : Ring!Push(p)
  BY <1>1, PushKeeps
<1>2. CASE Ring!Read
  BY <1>2, ReadKeeps
<1>3. ASSUME NEW o \in Ops, Ring!Call(o) PROVE RingInv'
  <2>1. UNCHANGED <<ts, vals, head, made, prod, log>> /\ << >> \in Seq(Nat)
    BY <1>3 DEF Ring!Call
  <2>2. WriterInv'
    BY <2>1 DEF RingInv, WriterInv, PushInv, Kept
  <2>3. ReaderInv(rd)' /\ answer' = Ring!None
    BY <1>3, CallKeeps DEF RingInv
  <2>. QED
    BY <2>1, <2>2, <2>3 DEF RingInv, Ring!None, Ring!Contract!None
<1>4. CASE UNCHANGED Ring!vars
  <2>1. WriterInv' /\ UNCHANGED <<rd, head, answer>>
    BY <1>4 DEF RingInv, WriterInv, PushInv, Kept, Ring!vars
  <2>. QED
    BY <2>1, ReaderMoves DEF RingInv
<1>. QED
  BY <1>1, <1>2, <1>3, <1>4 DEF Ring!Next

LEMMA RingInvariant == ASSUME RingContext PROVE Ring!Spec => []RingInv
<1>1. Ring!Init => RingInv
  BY RingInit
<1>2. RingInv /\ [Ring!Next]_(Ring!vars) => RingInv'
  BY RingStep
<1>. QED
  BY <1>1, <1>2, PTL DEF Ring!Spec
-----------------------------------------------------------------------------
(* What the log would have answered. The samples of the log, and all parts  *)
(* of it that an answer is made of, are runs of consecutive numbers.        *)

Run(s, a, b) == s \in Seq(Nat) /\ Len(s) = b - a /\ \A i \in 1..Len(s) : s[i] = a + i - 1

LEMMA RunPiece ==
  ASSUME NEW a \in Nat, NEW b \in Nat, NEW s, Run(s, a, b),
         NEW c \in Nat, NEW d \in Nat, a <= c, c <= d, d <= b
  PROVE  Run(SubSeq(s, c - a + 1, d - a), c, d)
<1>. DEFINE m == c - a + 1
            n == d - a
            p == SubSeq(s, m, n)
<1>1. m \in Nat \ {0} /\ n \in Nat /\ n <= Len(s) /\ m <= n + 1 /\ n - m + 1 = d - c
      /\ s \in Seq(Nat) /\ Len(s) \in Nat /\ d - c \in Nat
  BY DEF Run
<1>2. \A i \in 1..(d - c) : m + i - 1 \in 1..Len(s) /\ s[m + i - 1] = c + i - 1
  BY <1>1 DEF Run
<1>. HIDE DEF m, n
<1>3. p \in Seq(Nat) /\ Len(p) = d - c
  BY <1>1
<1>4. \A i \in 1..(d - c) : p[i] = s[m + i - 1]
  BY <1>1, <1>3
<1>. QED
  BY <1>2, <1>3, <1>4 DEF Run, m, n

LEMMA RunUnique ==
  ASSUME NEW a \in Nat, NEW b \in Nat, NEW s, Run(s, a, b), NEW t, Run(t, a, b)
  PROVE  s = t
<1>1. s \in Seq(Nat) /\ t \in Seq(Nat) /\ Len(s) = Len(t) /\ \A i \in 1..Len(s) : s[i] = t[i]
  BY DEF Run
<1>. QED
  BY <1>1, SeqEqual

LEMMA RunNewest ==
  ASSUME NEW a \in Nat, NEW b \in Nat, a <= b, NEW s, Run(s, a, b), NEW n \in Nat
  PROVE  Run(Ring!Contract!Newest(s, n), b - Ring!Contract!Limit(n, b - a), b)
<1>. DEFINE k == Ring!Contract!Limit(n, b - a)
<1>1. k \in Nat /\ k <= b - a /\ Len(s) = b - a
  BY DEF Ring!Contract!Limit, Run
<1>2. b - k \in Nat /\ a <= b - k /\ b - k <= b /\ b - a - k + 1 = b - k - a + 1
  BY <1>1
<1>3. Ring!Contract!Newest(s, n) = SubSeq(s, b - k - a + 1, b - a)
  BY <1>1, <1>2 DEF Ring!Contract!Newest
<1>. HIDE DEF k
<1>4. Run(SubSeq(s, b - k - a + 1, b - a), b - k, b)
  BY <1>2, RunPiece
<1>. QED
  BY <1>3, <1>4 DEF k

LEMMA RunStamps ==
  ASSUME NEW a \in Nat, NEW b \in Nat, NEW s, Run(s, a, b),
         NEW t \in Seq(Nat), Len(t) = b - a, \A i \in 1..Len(t) : t[i] = TsOf[a + i - 1]
  PROVE  Ring!Contract!Stamps(s) = t
<1>1. DOMAIN s = 1..Len(t) /\ DOMAIN t = 1..Len(t)
  BY DEF Run
<1>2. \A i \in 1..Len(t) : s[i] = a + i - 1
  BY DEF Run
<1>3. t = [i \in 1..Len(t) |-> t[i]]
  BY <1>1
<1>4. Ring!Contract!Stamps(s) = [i \in 1..Len(t) |-> TsOf[s[i]]]
  BY <1>1 DEF Ring!Contract!Stamps
<1>. QED
  BY <1>2, <1>3, <1>4

(* Of the samples c, .., b - 1, d is the first that is not before t. *)
FirstAt(c, d, b, t) ==
  /\ c <= d /\ d <= b /\ \A q \in c..(d - 1) : TsOf[q] < t
  /\ d < b => t <= TsOf[d]

Stamped(a, b) == \A q \in a..(b - 1) : TsOf[q] \in Nat

(* The first entry from place i on that is not before t is unique. *)
LEMMA FirstIs ==
  ASSUME NEW a \in Nat, NEW b \in Nat, NEW s, Run(s, a, b), Stamped(a, b),
         NEW c \in Nat, NEW d \in Nat, a <= c, NEW t \in Nat, FirstAt(c, d, b, t)
  PROVE  Ring!Contract!FirstFrom(s, c - a + 1, t) = d - a + 1
<1>. DEFINE i == c - a + 1
            N == i..(Len(s) + 1)
            P(n) == /\ \A m \in i..(n - 1) : TsOf[s[m]] < t
                    /\ n <= Len(s) => t <= TsOf[s[n]]
            e == d - a + 1
<1>0. /\ c <= d /\ d <= b /\ \A q \in c..(d - 1) : TsOf[q] < t
      /\ d < b => t <= TsOf[d]
  BY DEF FirstAt
<1>1. Len(s) = b - a /\ Len(s) \in Nat /\ i \in Nat \ {0} /\ e \in N /\ \A n \in N : n \in Nat
  BY <1>0 DEF Run
<1>2. \A n \in 1..Len(s) : s[n] = a + n - 1 /\ TsOf[s[n]] \in Nat
  BY DEF Run, Stamped
<1>3. P(e)
  <2>1. ASSUME NEW m \in i..(e - 1) PROVE TsOf[s[m]] < t
    <3>1. m \in 1..Len(s) /\ a + m - 1 \in c..(d - 1)
      BY <1>0, <1>1
    <3>. QED
      BY <1>0, <1>2, <3>1
  <2>2. ASSUME e <= Len(s) PROVE t <= TsOf[s[e]]
    <3>1. e \in 1..Len(s) /\ a + e - 1 = d /\ d < b
      BY <1>0, <1>1, <2>2
    <3>. QED
      BY <1>0, <1>2, <3>1
  <2>. QED
    BY <2>1, <2>2
<1>4. ASSUME NEW n \in N, P(n), NEW k \in N, P(k), n < k PROVE FALSE
  <2>1. n \in i..(k - 1) /\ n \in 1..Len(s)
    BY <1>1, <1>4
  <2>2. TsOf[s[n]] < t /\ t <= TsOf[s[n]] /\ TsOf[s[n]] \in Nat
    BY <1>2, <1>4, <2>1
  <2>. QED
    BY <2>2
<1>5. ASSUME NEW n \in N, P(n) PROVE n = e
  <2>1. n \in Nat /\ e \in Nat
    BY <1>1
  <2>2. n < e \/ e < n \/ n = e
    BY <2>1
  <2>3. e \in N
    BY <1>1
  <2>. HIDE DEF P, N, e
  <2>. QED
    BY <1>3, <1>4, <1>5, <2>2, <2>3
<1>6. Ring!Contract!FirstFrom(s, i, t) = CHOOSE n \in N : P(n)
  BY DEF Ring!Contract!FirstFrom
<1>. QED
  BY <1>1, <1>3, <1>5, <1>6

(* A copy that passed the check is the answer of the log as it was when the *)
(* copy began. *)
LEMMA CopyIsAnswer ==
  ASSUME WriterInv, NEW r, ReaderInv(r), r.pc = "check", Clean(r)
  PROVE  /\ r.head \in r.calledAt..Len(log)
         /\ Ring!Contract!Answer(SubSeq(log, 1, r.head), r.op) =
              [samples |-> r.samples, ts |-> r.ts]
<1>. DEFINE h == r.head
            s == SubSeq(log, 1, h)
            lo == Ring!ValidLo(h)
            seen == Ring!Contract!Newest(s, Ring!Visible)
<1>1. Reading(r) /\ log \in Seq(Nat) /\ Len(log) = head
  BY DEF Reading, WriterInv
<1>2. /\ h \in Nat \ {0} /\ h <= head /\ head \in Nat /\ head <= MaxPush /\ MaxPush \in Nat
      /\ r.calledAt \in Nat /\ r.calledAt <= h
  BY <1>1, ReadingFacts, RingAssumption DEF WriterInv
<1>3. h \in r.calledAt..Len(log)
  BY <1>1, <1>2
<1>4. Run(log, 0, head)
  BY <1>1, <1>2 DEF Run, WriterInv
<1>5. Run(s, 0, h)
  <2>1. SubSeq(log, 0 - 0 + 1, h - 0) = s
    BY <1>2
  <2>2. Run(SubSeq(log, 0 - 0 + 1, h - 0), 0, h)
    BY <1>2, <1>4, RunPiece
  <2>. QED
    BY <2>1, <2>2
<1>6. \A q \in 0..(h - 1) : TsOf[q] \in Nat
  BY <1>2, RingAssumption
<1>7. PICK a \in Floor(r)..r.lo : CopiedFrom(r, a)
  BY <1>1 DEF ReaderInv, Copied
<1>8. /\ a \in Nat /\ r.lo \in Nat /\ a <= r.lo /\ r.lo <= h /\ Floor(r) <= a /\ Floor(r) \in Nat
      /\ r.samples \in Seq(Nat) /\ r.ts \in Seq(Nat)
      /\ r.op.kind \in {"latest", "recent", "window"}
      /\ r.op.start \in Nat /\ r.op.end \in Nat /\ r.op.max \in Nat
  <2>1. /\ r.lo \in Nat /\ r.hi \in Nat /\ r.lo <= r.hi /\ r.hi <= h
        /\ Floor(r) \in Nat /\ Floor(r) <= a /\ a <= r.lo /\ a \in Nat
    BY <1>1, <1>7, ReadingFacts
  <2>2. r.lo <= h
    BY <1>2, <2>1
  <2>. QED
    BY <1>1, <2>1, <2>2, ReadingFacts
<1>9. /\ Len(r.ts) = r.lo - a /\ \A i \in 1..Len(r.ts) : r.ts[i] = TsOf[a + i - 1]
      /\ r.op.kind # "recent" => Run(r.samples, a, r.lo)
      /\ r.op.kind = "recent" => r.samples = << >>
  BY <1>7, <1>8 DEF CopiedFrom, Run
<1>10. lo \in Nat /\ lo < h /\ Ring!Contract!Limit(Ring!Visible, h) = h - lo
  BY <1>2, WindowBounds
<1>. HIDE DEF lo
<1>11. Ring!Visible \in Nat /\ h - 0 = h /\ h - (h - lo) = lo
  <2>1. Ring!Visible \in Nat
    BY RingAssumption DEF Ring!Visible
  <2>2. h \in Nat
    BY <1>2
  <2>. HIDE DEF h
  <2>3. h - 0 = h /\ h - (h - lo) = lo
    BY <1>10, <2>2
  <2>. QED
    BY <2>1, <2>3
<1>12. Run(seen, lo, h)
  <2>1. Run(seen, h - Ring!Contract!Limit(Ring!Visible, h - 0), h)
    BY <1>2, <1>5, <1>11, RunNewest
  <2>. QED
    BY <1>10, <1>11, <2>1
<1>13. ASSUME NEW x, Run(x, a, r.lo)
       PROVE  Ring!Contract!Stamps(x) = r.ts /\ (r.op.kind # "recent" => x = r.samples)
  <2>. DEFINE l == r.lo
  <2>1. l \in Nat /\ Run(x, a, l) /\ Len(r.ts) = l - a
    BY <1>8, <1>9, <1>13
  <2>2. r.op.kind # "recent" => Run(r.samples, a, l)
    BY <1>9
  <2>. HIDE DEF l
  <2>. QED
    BY <1>8, <1>9, <2>1, <2>2, RunStamps, RunUnique
<1>. HIDE DEF s, seen
<1>14. CASE r.op.kind = "latest"
  <2>. DEFINE last == Ring!Contract!Newest(s, 1)
  <2>1. a = h - 1 /\ r.lo = h
    BY <1>7, <1>14 DEF CopiedFrom, Begins
  <2>2. Ring!Contract!Limit(1, h - 0) = 1
    BY <1>2 DEF Ring!Contract!Limit
  <2>3. Run(last, h - 1, h)
    BY <1>2, <1>5, <2>2, RunNewest
  <2>4. Run(last, a, r.lo)
    BY <2>1, <2>3
  <2>5. last = r.samples /\ Ring!Contract!Stamps(last) = r.ts
    BY <1>14, <1>13, <2>4
  <2>6. Ring!Contract!Answer(s, r.op) = [samples |-> last, ts |-> Ring!Contract!Stamps(last)]
    BY <1>14 DEF Ring!Contract!Answer
  <2>. QED
    BY <1>3, <2>5, <2>6 DEF s
<1>15. CASE r.op.kind = "recent"
  <2>. DEFINE part == Ring!Contract!Newest(seen, r.op.max)
  <2>1. a = h - Ring!Contract!Limit(r.op.max, h - lo) /\ r.lo = h
    BY <1>7, <1>15 DEF CopiedFrom, Begins, lo
  <2>2. Run(part, a, h)
    BY <1>2, <1>8, <1>10, <1>12, <2>1, RunNewest
  <2>3. Ring!Contract!Stamps(part) = r.ts
    BY <1>13, <2>1, <2>2
  <2>4. Ring!Contract!Answer(s, r.op) = [samples |-> << >>, ts |-> Ring!Contract!Stamps(part)]
    BY <1>15 DEF Ring!Contract!Answer, seen
  <2>. QED
    BY <1>3, <1>9, <1>15, <2>3, <2>4 DEF s
<1>16. CASE r.op.kind = "window"
  <2>. DEFINE first == Ring!Contract!FirstFrom(seen, 1, r.op.start)
              last == Ring!Contract!FirstFrom(seen, first, r.op.end)
              hits == SubSeq(seen, first, last - 1)
  <2>1. /\ \A q \in lo..(a - 1) : TsOf[q] < r.op.start
        /\ a < h => r.op.start <= TsOf[a]
        /\ \A q \in a..(r.lo - 1) : TsOf[q] < r.op.end
        /\ r.lo < h => r.op.end <= TsOf[r.lo]
        /\ lo <= a
    BY <1>2, <1>7, <1>8, <1>16 DEF CopiedFrom, Begins, Floor, lo
  <2>2. a <= h /\ Stamped(lo, h)
    BY <1>2, <1>6, <1>8, <1>10 DEF Stamped
  <2>. DEFINE l == r.lo
              start == r.op.start
              end == r.op.end
  <2>3. /\ h \in Nat /\ l \in Nat /\ a \in Nat /\ lo \in Nat /\ start \in Nat /\ end \in Nat
        /\ lo <= lo /\ lo <= a /\ FirstAt(lo, a, h, start) /\ FirstAt(a, l, h, end)
    BY <1>2, <1>8, <1>10, <2>1, <2>2 DEF FirstAt
  <2>4. first = a - lo + 1
    <3>1. lo - lo + 1 = 1
      BY <1>10
    <3>2. Ring!Contract!FirstFrom(seen, lo - lo + 1, start) = a - lo + 1
      <4>. HIDE DEF h, l, start, end
      <4>. QED
        BY <1>12, <2>2, <2>3, FirstIs
    <3>. QED
      BY <3>1, <3>2
  <2>5. Ring!Contract!FirstFrom(seen, a - lo + 1, r.op.end) = r.lo - lo + 1
    <3>1. Ring!Contract!FirstFrom(seen, a - lo + 1, end) = l - lo + 1
      <4>. HIDE DEF h, l, start, end
      <4>. QED
        BY <1>12, <2>2, <2>3, FirstIs
    <3>. QED
      BY <3>1
  <2>6. last = r.lo - lo + 1 /\ last - 1 = r.lo - lo
    <3>1. last = r.lo - lo + 1
      BY <2>4, <2>5
    <3>. QED
      BY <1>8, <1>10, <3>1
  <2>7. Run(SubSeq(seen, a - lo + 1, r.lo - lo), a, r.lo)
    BY <1>2, <1>8, <1>10, <1>12, <2>1, RunPiece
  <2>. HIDE DEF first, last
  <2>8. Run(hits, a, r.lo)
    BY <2>4, <2>6, <2>7
  <2>9. hits = r.samples
    BY <1>16, <1>13, <2>8
  <2>10. Ring!Contract!Stamps(hits) = r.ts
    BY <1>13, <2>8
  <2>11. Ring!Contract!Answer(s, r.op) = [samples |-> hits, ts |-> Ring!Contract!Stamps(hits)]
    BY <1>16 DEF Ring!Contract!Answer, seen, first, last
  <2>. QED
    BY <1>3, <2>9, <2>10, <2>11 DEF s
<1>. QED
  BY <1>8, <1>14, <1>15, <1>16
-----------------------------------------------------------------------------
(* Every step of the ring is one of the log: a sample is pushed when head   *)
(* is stored, and a read returns at the check that lets its copy through.   *)

LEMMA ReturnMaps ==
  ASSUME NEW n \in rd.calledAt..Len(log), NEW result,
         Ring!Contract!Answer(SubSeq(log, 1, n), rd.op) = result,
         rd \in Reader, rd.pc # "idle", Ring!Return(result), log' = log
  PROVE  Ring!Contract!Return
<1>1. answer' = result /\ rd'.pc = "idle" /\ rd'.op = rd.op /\ rd'.calledAt = rd.calledAt
  BY DEF Ring!Return, Reader
<1>2. (rd.pc # "idle") /\ (rd'.pc # "idle") = FALSE
  BY <1>1
<1>3. \E k \in rd.calledAt..Len(log) : answer' = Ring!Contract!Answer(SubSeq(log, 1, k), rd.op)
  BY <1>1
<1>. QED
  BY <1>1, <1>2, <1>3 DEF Ring!Contract!Return

(* On an empty log, and when nothing is asked for, there is nothing to find. *)
LEMMA EmptyAnswer ==
  ASSUME WriterInv, rd \in Reader, Ring!ReturnEmpty
  PROVE  Ring!Contract!Answer(SubSeq(log, 1, Len(log)), rd.op) = Ring!None
<1>1. /\ log \in Seq(Nat) /\ Len(log) = head /\ head \in Nat /\ SubSeq(log, 1, Len(log)) = log
      /\ rd.op.kind \in {"latest", "recent", "window"} /\ Ring!Visible \in Nat
      /\ head = 0 \/ (rd.op.kind = "recent" /\ rd.op.max = 0)
  <2>1. SubSeq(log, 1, Len(log)) = log
    BY DEF WriterInv
  <2>2. Ring!Visible \in Nat
    BY RingAssumption DEF Ring!Visible
  <2>. QED
    BY <2>1, <2>2, RingAssumption DEF WriterInv, Reader, Ring!ReturnEmpty
<1>2. \A m, n \in Nat : n < m => SubSeq(log, m, n) = << >>
  BY <1>1
<1>3. Ring!Contract!Stamps(<< >>) = << >>
  BY DEF Ring!Contract!Stamps
<1>4. CASE head = 0
  <2>1. log = << >> /\ Len(<< >>) = 0
    BY <1>1, <1>4
  <2>2. \A n \in Nat : Ring!Contract!Limit(n, 0) = 0
    BY DEF Ring!Contract!Limit
  <2>3. \A n \in Nat : Ring!Contract!Newest(<< >>, n) = << >>
    BY <2>1, <2>2 DEF Ring!Contract!Newest
  <2>4. ASSUME NEW t \in Nat PROVE Ring!Contract!FirstFrom(<< >>, 1, t) = 1
    <3>. DEFINE none == << >>
    <3>1. Run(none, 0, 0) /\ Stamped(0, 0) /\ FirstAt(0, 0, 0, t) /\ 0 - 0 + 1 = 1 /\ 0 <= 0
      BY <2>1 DEF Run, Stamped, FirstAt
    <3>. HIDE DEF none
    <3>2. Ring!Contract!FirstFrom(none, 0 - 0 + 1, t) = 0 - 0 + 1
      BY <3>1, FirstIs
    <3>. QED
      BY <3>1, <3>2 DEF none
  <2>5. rd.op.start \in Nat /\ rd.op.end \in Nat
    BY RingAssumption DEF Reader
  <2>6. SubSeq(<< >>, 1, 1 - 1) = << >>
    BY <1>2, <2>1
  <2>7. SubSeq(log, 1, Len(log)) = << >>
    BY <1>1, <2>1
  <2>8. Ring!Visible \in Nat /\ 1 \in Nat
    BY <1>1
  <2>9. Ring!Contract!Newest(<< >>, Ring!Visible) = << >> /\ Ring!Contract!Newest(<< >>, 1) = << >>
    BY <2>3, <2>8
  <2>10. CASE rd.op.kind = "latest"
    BY <1>3, <2>7, <2>9, <2>10 DEF Ring!Contract!Answer, Ring!None, Ring!Contract!None
  <2>11. CASE rd.op.kind = "recent"
    <3>1. rd.op.max \in Nat
      BY RingAssumption DEF Reader
    <3>. QED
      BY <1>3, <2>3, <2>7, <2>9, <2>11, <3>1 DEF Ring!Contract!Answer, Ring!None, Ring!Contract!None
  <2>12. CASE rd.op.kind = "window"
    BY <1>3, <2>4, <2>5, <2>6, <2>7, <2>9, <2>12 DEF Ring!Contract!Answer, Ring!None, Ring!Contract!None
  <2>. QED
    BY <1>1, <2>10, <2>11, <2>12
<1>5. CASE rd.op.kind = "recent" /\ rd.op.max = 0
  <2>. DEFINE seen == Ring!Contract!Newest(log, Ring!Visible)
  <2>1. seen \in Seq(Nat)
    <3>. DEFINE k == Ring!Contract!Limit(Ring!Visible, head)
    <3>1. k \in Nat /\ k <= head
      BY <1>1 DEF Ring!Contract!Limit
    <3>2. seen = SubSeq(log, head - k + 1, head)
      BY <1>1 DEF Ring!Contract!Newest
    <3>. HIDE DEF k, seen
    <3>. QED
      BY <1>1, <3>1, <3>2
  <2>2. Len(seen) \in Nat /\ Ring!Contract!Limit(0, Len(seen)) = 0
    BY <2>1 DEF Ring!Contract!Limit
  <2>. HIDE DEF seen
  <2>3. SubSeq(seen, Len(seen) - 0 + 1, Len(seen)) = << >>
    BY <2>1, <2>2
  <2>4. Ring!Contract!Newest(seen, 0) = << >>
    BY <2>2, <2>3 DEF Ring!Contract!Newest
  <2>. QED
    BY <1>1, <1>3, <1>5, <2>4 DEF Ring!Contract!Answer, Ring!None, Ring!Contract!None, seen
<1>. QED
  BY <1>1, <1>4, <1>5

LEMMA StepMaps ==
  ASSUME RingContext, RingInv, [Ring!Next]_(Ring!vars)
  PROVE  [Ring!Contract!Next]_(Ring!Contract!absVars)
<1>1. WriterInv /\ ReaderInv(rd) /\ rd \in Reader
  BY DEF RingInv, ReaderInv
<1>2. Len(log) = head /\ head \in Nat
  BY <1>1 DEF WriterInv
<1>3. ASSUME UNCHANGED <<log, answer>>, rd'.op = rd.op, rd'.calledAt = rd.calledAt,
             rd.pc # "idle", rd'.pc # "idle"
      PROVE  UNCHANGED Ring!Contract!absVars
  BY <1>3 DEF Ring!Contract!absVars
<1>4. ASSUME NEW p \in Producers, Ring!Push(p) PROVE [Ring!Contract!Next]_(Ring!Contract!absVars)
  <2>1. UNCHANGED <<rd, answer>> /\ (log' = log \/ log' = Append(log, head))
    BY <1>4, PushKeeps
  <2>. QED
    BY <1>2, <2>1 DEF Ring!Contract!absVars, Ring!Contract!Next, Ring!Contract!Push
<1>5. ASSUME NEW o \in Ops, Ring!Call(o) PROVE Ring!Contract!Call
  <2>1. /\ rd.pc = "idle" /\ rd'.pc = "load" /\ rd'.op = o /\ rd'.calledAt = Len(log)
        /\ answer' = Ring!None /\ log' = log
    BY <1>1, <1>5 DEF Ring!Call, Reader
  <2>2. ~(rd.pc # "idle") /\ (rd'.pc # "idle") = TRUE
    BY <2>1
  <2>. QED
    BY <1>5, <2>1, <2>2 DEF Ring!Contract!Call, Ring!None
<1>6. CASE Ring!ReturnEmpty
  <2>1. rd.calledAt \in Nat /\ rd.calledAt <= head /\ rd.pc # "idle" /\ Ring!Return(Ring!None)
        /\ log' = log
    BY <1>1, <1>6 DEF Ring!ReturnEmpty, ReaderInv, Reader
  <2>2. Len(log) \in rd.calledAt..Len(log)
    BY <1>2, <2>1
  <2>. QED
    BY <1>1, <1>6, <2>1, <2>2, EmptyAnswer, ReturnMaps DEF Ring!Contract!Next
<1>7. CASE Ring!Validate
  <2>1. /\ rd.pc = "check" /\ head < Ring!Guarded /\ log' = log
        /\ Ring!Return([samples |-> rd.samples, ts |-> rd.ts])
    BY <1>7 DEF Ring!Validate
  <2>2. Clean(rd)
    BY <2>1 DEF Ring!Guarded, Clean, Floor
  <2>. QED
    BY <1>1, <2>1, <2>2, CopyIsAnswer, ReturnMaps DEF Ring!Contract!Next
<1>8. CASE \/ Ring!Load \/ Ring!Search \/ Ring!Searched \/ Ring!ScanTs
           \/ Ring!ScanVal \/ Ring!Scanned \/ Ring!Retry
  <2>1. UNCHANGED <<log, answer>> /\ rd.pc # "idle"
    BY <1>8 DEF Ring!Load, Ring!Search, Ring!Searched, Ring!ScanTs, Ring!ScanVal,
                Ring!Scanned, Ring!Retry
  <2>2. rd'.op = rd.op /\ rd'.calledAt = rd.calledAt /\ rd'.pc # "idle"
    <3>1. CASE Ring!Load
      BY <1>1, <3>1 DEF Ring!Load, Reader
    <3>2. CASE Ring!Search
      BY <1>1, <3>2 DEF Ring!Search, Reader
    <3>3. CASE Ring!Searched \/ Ring!Scanned \/ Ring!Retry
      BY <1>1, <3>3 DEF Ring!Searched, Ring!Scanned, Ring!Retry, Reader
    <3>4. CASE Ring!ScanTs
      BY <1>1, <3>4 DEF Ring!ScanTs, Reader
    <3>5. CASE Ring!ScanVal
      BY <1>1, <3>5 DEF Ring!ScanVal, Reader
    <3>. QED
      BY <1>8, <3>1, <3>2, <3>3, <3>4, <3>5
  <2>. QED
    BY <1>3, <2>1, <2>2
<1>9. CASE UNCHANGED Ring!vars
  BY <1>9 DEF Ring!vars, Ring!Contract!absVars
<1>. QED
  BY <1>4, <1>5, <1>6, <1>7, <1>8, <1>9 DEF Ring!Next, Ring!Read, Ring!Contract!Next

(* The ring is one of the stores that are modelled together. *)
LEMMA RingIsPart == StoresSpec => Ring!Spec
<1>1. StoresInit => Ring!Init
  BY DEF StoresInit
<1>2. [StoresNext]_all_vars => [Ring!Next]_(Ring!vars)
  BY DEF StoresNext, all_vars, ring_vars, Ring!vars
<1>. QED
  BY <1>1, <1>2, PTL DEF StoresSpec, Ring!Spec

(* For any capacity and margin, any reads, and as many samples as you like: *)
(* with one producer whose timestamps never go back, every read of the ring *)
(* returns what it would have returned at one instant of the call on an     *)
(* unbounded log, however its steps and the producer's interleave.          *)
THEOREM RingImplementsLog ==
  ASSUME RingContext
  PROVE  StoresSpec => ImplementsLog
<1>1. Ring!Init => Ring!Contract!Init
  <2>. SUFFICES ASSUME Ring!Init PROVE Ring!Contract!Init
    OBVIOUS
  <2>1. rd.pc = "idle" /\ rd.op \in Ops /\ rd.calledAt = 0 /\ log = << >> /\ answer = Ring!None
    BY RingAssumption DEF Ring!Init
  <2>2. (rd.pc # "idle") = FALSE
    BY <2>1
  <2>. QED
    BY <2>1, <2>2 DEF Ring!Contract!Init, Ring!None
<1>2. RingInv /\ [Ring!Next]_(Ring!vars) => [Ring!Contract!Next]_(Ring!Contract!absVars)
  BY StepMaps
<1>. QED
  BY <1>1, <1>2, RingInvariant, RingIsPart, PTL
  DEF Ring!Spec, ImplementsLog, Ring!ImplementsLog, Ring!Contract!Spec
=============================================================================
