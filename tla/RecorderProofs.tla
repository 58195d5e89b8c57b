--------------------------- MODULE RecorderProofs ---------------------------
(* Proofs about Recorder, for any sources, writers, topics and schemas, any *)
(* queue and any number of sessions and frames.                             *)
EXTENDS Recorder, SequenceTheorems, TLAPS

-----------------------------------------------------------------------------
(* One session: what its record is like, whoever works on it.               *)

Written == Schemas \cup {Shared}

(* What was taken and what is queued are what was accepted, in order. *)
Conserved(r) ==
  /\ Len(r.log) + Len(r.queue) = Len(r.accepted)
  /\ \A i \in 1..Len(r.log) : r.log[i].frame = r.accepted[i]
  /\ \A i \in 1..Len(r.queue) : r.queue[i] = r.accepted[Len(r.log) + i]

EarlierFinal(r) ==
  \A k \in 1..Len(r.parts) : k < Len(r.parts) \/ r.st = "finished" => r.parts[k].final

EntriesDeclared(r) ==
  \A i \in 1..Len(r.log) :
    r.log[i].part # 0 =>
      /\ r.log[i].part \in 1..Len(r.parts)
      /\ <<r.log[i].frame.topic, r.log[i].schema>> \in r.parts[r.log[i].part].channels

(* Of the part being written: it declares the seeded topics and every       *)
(* channel the recorder believes to have declared. *)
LastDeclares(r) ==
  LET channels == r.parts[Len(r.parts)].channels
  IN /\ \A t \in Seeded : <<t, Shared>> \in channels
     /\ \A t \in Topics : r.known[t] # NoSchema =>
          r.known[t] # Shared /\ <<t, r.known[t]>> \in channels

Writing(r) == r.st \in {"select", "drain"}

SessionInv(r) ==
  /\ r \in Session /\ Len(r.queue) <= QueueCap
  /\ r.st \in {"none", "opening"} => r.log = << >> /\ r.parts = << >> /\ r.known = Unknown
  /\ r.st \in {"select", "drain", "finish", "finished"} => r.parts # << >>
  /\ r.st \in {"none", "opening", "select", "drain", "finish"} => Conserved(r)
  /\ EarlierFinal(r) /\ EntriesDeclared(r)
  /\ Writing(r) => LastDeclares(r)

Fresh(r) == r.st = "none" /\ r.queue = << >> /\ r.accepted = << >> /\ ~r.stop

-----------------------------------------------------------------------------
(* The UI and the slots. A running source holds a sender of the session in  *)
(* work or none; while senders are put in, nothing is being recorded, and   *)
(* while they are taken out, the slots still to do are the only ones left.  *)

SlotsDone ==
  \A sl \in Managed :
    /\ slot[sl] \in {0, ui.session}
    /\ ui.pc = "idle" => slot[sl] \in {0, handle}
    /\ ui.pc = "clear" /\ sl \notin ui.todo => slot[sl] = 0

UiInv ==
  /\ source \in [Slots -> SourceStates]
  /\ slot \in [Slots -> {0} \cup Sessions]
  /\ lock \in [Slots -> Writers \cup {Nobody}]
  /\ ui \in [pc: UiPcs, session: {0} \cup Sessions, todo: SUBSET Slots]
  /\ handle \in {0, ui.session}
  /\ made \in Nat
  /\ ui.todo \subseteq Managed /\ (ui.pc = "idle" => ui.todo = {})
  /\ ui.pc = "install" =>
       ui.session # 0 /\ handle = 0 /\ ses[ui.session].st = "opening" /\ ~ses[ui.session].stop
  /\ \A s \in Sessions : s > ui.session => Fresh(ses[s])
  /\ \A sl \in Slots : slot[sl] <= ui.session /\ (source[sl] = "absent" => slot[sl] = 0)
  /\ SlotsDone

(* Unless a source was removed, a session that was told to stop, or whose   *)
(* thread left its loop, is fed by no slot and never will be again.         *)
NoneRemoved == \A sl \in Slots : source[sl] \notin {"stopped", "gone"}

Closed(s) ==
  /\ \A sl \in Slots : slot[sl] # s
  /\ ~(ui.pc = "install" /\ ui.session = s)

EndsClean ==
  NoneRemoved =>
    \A s \in Sessions :
      /\ ses[s].stop \/ ses[s].st \in {"drain", "finish"} => Closed(s)
      /\ ses[s].st = "finish" => ses[s].queue = << >>
      /\ ses[s].st = "finished" => Len(ses[s].log) = Len(ses[s].accepted)

SessionsInv == ses \in [Sessions -> Session] /\ \A s \in Sessions : SessionInv(ses[s])

RecorderInv == SessionsInv /\ UiInv /\ EndsClean
-----------------------------------------------------------------------------
(* What the recorder thread does to the record of its session.              *)

(* The schema a frame goes under is its own or the one of its topic; none   *)
(* when it counts on a channel that the session does not have. *)
LEMMA SchemaForType ==
  ASSUME NEW r \in Session, NEW f \in Frame
  PROVE  /\ SchemaFor(r, f) \in Written \cup {NoSchema}
         /\ f.schema # Shared => SchemaFor(r, f) \in Written
BY RecorderAssumption DEF SchemaFor, Session, Frame, Written

First(r) == Head(r.queue)
FirstSchema(r) == SchemaFor(r, First(r))
FirstEntry(r) ==
  [frame |-> First(r), schema |-> FirstSchema(r),
   part |-> IF FirstSchema(r) = NoSchema THEN 0 ELSE Len(r.parts)]

(* The first frame of the queue moves to the log, and its part gains at     *)
(* most the channel of its topic. *)
LEMMA WroteFields ==
  ASSUME NEW r \in Session, r.queue # << >>, r.parts # << >>
  PROVE  /\ Wrote(r) \in Session /\ FirstEntry(r) \in Entry
         /\ Wrote(r).st = r.st /\ Wrote(r).accepted = r.accepted
         /\ Wrote(r).lost = r.lost /\ Wrote(r).stop = r.stop
         /\ Wrote(r).queue = Tail(r.queue) /\ Wrote(r).log = Append(r.log, FirstEntry(r))
         /\ Wrote(r).known = IF First(r).schema = Shared THEN r.known
                             ELSE [r.known EXCEPT ![First(r).topic] = FirstSchema(r)]
         /\ Len(Wrote(r).parts) = Len(r.parts)
         /\ \A i \in 1..Len(r.parts) : Wrote(r).parts[i].final = r.parts[i].final
         /\ \A i \in 1..Len(r.parts) - 1 : Wrote(r).parts[i] = r.parts[i]
         /\ Wrote(r).parts[Len(r.parts)].channels =
               IF First(r).schema = Shared \/ r.known[First(r).topic] # NoSchema
               THEN r.parts[Len(r.parts)].channels
               ELSE r.parts[Len(r.parts)].channels \cup {<<First(r).topic, FirstSchema(r)>>}
<1>. DEFINE f == First(r)
            schema == FirstSchema(r)
            k == Len(r.parts)
            e == FirstEntry(r)
            channels == IF r.known[f.topic] # NoSchema THEN r.parts[k].channels
                        ELSE r.parts[k].channels \cup {<<f.topic, schema>>}
            last == [r.parts[k] EXCEPT !.channels = channels]
            parts == [r.parts EXCEPT ![k] = last]
            known == [r.known EXCEPT ![f.topic] = schema]
            log == Append(r.log, e)
            taken == [r EXCEPT !.queue = Tail(@), !.log = log]
            w == Wrote(r)
<1>1. f \in Frame /\ Tail(r.queue) \in Seq(Frame)
  BY DEF Session, First
<1>2. k \in Nat \ {0} /\ r.parts \in Seq(Part) /\ r.parts[k] \in Part
  BY DEF Session
<1>3. schema \in Written \cup {NoSchema} /\ (f.schema # Shared => schema \in Written)
  BY <1>1, SchemaForType DEF FirstSchema
<1>4. e \in Entry
  BY <1>1, <1>2, <1>3 DEF Entry, Written, FirstEntry
<1>5. log \in Seq(Entry)
  BY <1>4 DEF Session
<1>6. CASE f.schema = Shared
  <2>1. w = taken
    BY <1>6 DEF Wrote, First, FirstSchema, FirstEntry
  <2>. HIDE DEF f, schema, e, w, log
  <2>2. w \in Session
    BY <1>1, <1>5, <2>1 DEF Session
  <2>3. /\ w.st = r.st /\ w.accepted = r.accepted /\ w.lost = r.lost /\ w.stop = r.stop
        /\ w.queue = Tail(r.queue) /\ w.log = log /\ w.known = r.known /\ w.parts = r.parts
    BY <2>1 DEF Session
  <2>. QED
    BY <1>2, <1>4, <1>6, <2>2, <2>3 DEF w, f, schema, e, log
<1>7. CASE f.schema # Shared
  <2>1. w = [taken EXCEPT !.known = known, !.parts = parts]
    BY <1>7 DEF Wrote, Session, First, FirstSchema, FirstEntry
  <2>. HIDE DEF f, schema, e, log
  <2>2. channels \in SUBSET (Topics \X Written)
    BY <1>1, <1>2, <1>3, <1>7 DEF Part, Frame, Written
  <2>. HIDE DEF channels
  <2>3. last \in Part /\ last.channels = channels /\ last.final = r.parts[k].final
    BY <1>2, <2>2 DEF Part, Written
  <2>. HIDE DEF last
  <2>4. parts \in Seq(Part) /\ Len(parts) = k /\ parts[k] = last
        /\ \A i \in 1..k - 1 : parts[i] = r.parts[i]
    BY <1>2, <2>3
  <2>5. known \in [Topics -> Schemas \cup {Shared, NoSchema}]
    BY <1>1, <1>3 DEF Session, Written
  <2>6. \A i \in 1..k : parts[i].final = r.parts[i].final
    BY <1>2, <2>3, <2>4
  <2>. HIDE DEF parts, known, w
  <2>7. w \in Session
    BY <1>1, <1>5, <2>1, <2>4, <2>5 DEF Session
  <2>8. /\ w.st = r.st /\ w.accepted = r.accepted /\ w.lost = r.lost /\ w.stop = r.stop
        /\ w.queue = Tail(r.queue) /\ w.log = log /\ w.known = known /\ w.parts = parts
    BY <2>1 DEF Session
  <2>9. w.parts[k].channels = channels
    BY <2>3, <2>4, <2>8
  <2>. QED
    BY <1>2, <1>4, <1>7, <2>4, <2>6, <2>7, <2>8, <2>9 DEF w, known, channels, f, schema, e, log
<1>. QED
  BY <1>6, <1>7
(* One more taken and one less queued are as many as before. *)
LEMMA MovingOne ==
  ASSUME NEW taken \in Nat, NEW queued \in Nat, NEW i \in Nat
  PROVE  /\ (taken + 1) + (queued - 1) = taken + queued
         /\ taken + (i + 1) = (taken + 1) + i
OBVIOUS

(* Writing a frame keeps the session consistent. *)
LEMMA WroteKeeps ==
  ASSUME NEW r, SessionInv(r), Writing(r), r.queue # << >>
  PROVE  SessionInv(Wrote(r)) /\ Wrote(r).st = r.st /\ Wrote(r).stop = r.stop
<1>. DEFINE w == Wrote(r)
            f == First(r)
            schema == FirstSchema(r)
            e == FirstEntry(r)
            k == Len(r.parts)
<1>1. r \in Session /\ r.parts # << >> /\ Conserved(r) /\ LastDeclares(r)
  BY DEF SessionInv, Writing
<1>2. /\ w \in Session /\ e \in Entry
      /\ w.st = r.st /\ w.accepted = r.accepted /\ w.lost = r.lost /\ w.stop = r.stop
      /\ w.queue = Tail(r.queue) /\ w.log = Append(r.log, e)
      /\ w.known = IF f.schema = Shared THEN r.known ELSE [r.known EXCEPT ![f.topic] = schema]
      /\ Len(w.parts) = k
      /\ \A i \in 1..k : w.parts[i].final = r.parts[i].final
      /\ \A i \in 1..k - 1 : w.parts[i] = r.parts[i]
      /\ w.parts[k].channels =
           IF f.schema = Shared \/ r.known[f.topic] # NoSchema THEN r.parts[k].channels
           ELSE r.parts[k].channels \cup {<<f.topic, schema>>}
  BY <1>1, WroteFields
<1>3. /\ k \in Nat \ {0} /\ f \in Frame /\ r.queue \in Seq(Frame) /\ r.log \in Seq(Entry)
      /\ r.accepted \in Seq(Frame) /\ f = r.queue[1]
      /\ r.known \in [Topics -> Schemas \cup {Shared, NoSchema}]
  BY <1>1 DEF Session, First
<1>4. /\ e.frame = f /\ e.schema = schema
      /\ e.part = IF schema = NoSchema THEN 0 ELSE k
  BY DEF FirstEntry
<1>. HIDE DEF w, f, schema, e
<1>5. Conserved(w)
  <2>1. /\ Len(w.log) = Len(r.log) + 1 /\ Len(w.queue) = Len(r.queue) - 1
        /\ Len(r.log) \in Nat /\ Len(r.queue) \in Nat
        /\ w.log[Len(r.log) + 1] = e /\ \A i \in 1..Len(r.log) : w.log[i] = r.log[i]
        /\ \A i \in 1..Len(r.queue) - 1 : w.queue[i] = r.queue[i + 1]
    BY <1>2, <1>3
  <2>2. Len(w.log) + Len(w.queue) = Len(w.accepted)
    <3>1. (Len(r.log) + 1) + (Len(r.queue) - 1) = Len(r.log) + Len(r.queue)
      BY <2>1, MovingOne, Zenon
    <3>. QED
      BY <1>1, <1>2, <2>1, <3>1, Zenon DEF Conserved
  <2>3. ASSUME NEW i \in 1..Len(w.log) PROVE w.log[i].frame = w.accepted[i]
    <3>1. f = r.accepted[Len(r.log) + 1]
      BY <1>1, <1>3, <2>1 DEF Conserved
    <3>2. CASE i \in 1..Len(r.log)
      BY <1>1, <1>2, <2>1, <3>2 DEF Conserved
    <3>3. CASE i = Len(r.log) + 1
      BY <1>2, <1>4, <2>1, <3>1, <3>3
    <3>. QED
      BY <2>1, <3>2, <3>3
  <2>4. ASSUME NEW i \in 1..Len(w.queue) PROVE w.queue[i] = w.accepted[Len(w.log) + i]
    <3>1. w.queue[i] = r.queue[i + 1] /\ i + 1 \in 1..Len(r.queue)
      BY <2>1
    <3>2. r.queue[i + 1] = r.accepted[Len(r.log) + (i + 1)]
      BY <1>1, <3>1 DEF Conserved
    <3>3. Len(r.log) + (i + 1) = (Len(r.log) + 1) + i
      <4>1. i \in Nat
        OBVIOUS
      <4>. QED
        BY <2>1, <4>1, MovingOne, Zenon
    <3>. QED
      BY <1>2, <2>1, <3>1, <3>2, <3>3, Zenon
  <2>. QED
    BY <2>2, <2>3, <2>4 DEF Conserved
<1>6. EarlierFinal(w)
  BY <1>2 DEF SessionInv, Writing, EarlierFinal
<1>7. ASSUME NEW i \in 1..k PROVE r.parts[i].channels \subseteq w.parts[i].channels
  <2>1. CASE i = k
    BY <1>2, <2>1
  <2>2. CASE i \in 1..k - 1
    BY <1>2, <2>2
  <2>. QED
    BY <1>3, <2>1, <2>2
<1>8. schema # NoSchema => <<f.topic, schema>> \in w.parts[k].channels
  <2>1. CASE f.schema = Shared
    <3>1. schema = IF f.topic \in Seeded THEN Shared ELSE NoSchema
      BY <2>1 DEF schema, FirstSchema, SchemaFor, f
    <3>. QED
      BY <1>1, <1>3, <1>7, <3>1 DEF LastDeclares
  <2>2. CASE f.schema # Shared /\ r.known[f.topic] # NoSchema
    <3>1. schema = r.known[f.topic] /\ f.topic \in Topics
      BY <1>3, <2>2 DEF schema, FirstSchema, SchemaFor, f, Frame
    <3>. QED
      BY <1>1, <1>3, <1>7, <2>2, <3>1 DEF LastDeclares
  <2>3. CASE f.schema # Shared /\ r.known[f.topic] = NoSchema
    BY <1>2, <2>3
  <2>. QED
    BY <2>1, <2>2, <2>3
<1>9. EntriesDeclared(w)
  <2>1. ASSUME NEW i \in 1..Len(r.log), r.log[i].part # 0
        PROVE  /\ r.log[i].part \in 1..k
               /\ <<r.log[i].frame.topic, r.log[i].schema>> \in w.parts[r.log[i].part].channels
    BY <1>7, <2>1 DEF SessionInv, EntriesDeclared
  <2>2. e.part # 0 => e.part \in 1..k /\ <<e.frame.topic, e.schema>> \in w.parts[e.part].channels
    BY <1>3, <1>4, <1>8
  <2>3. \A i \in 1..Len(w.log) : (i \in 1..Len(r.log) /\ w.log[i] = r.log[i]) \/ w.log[i] = e
    BY <1>2, <1>3
  <2>. QED
    BY <1>2, <2>1, <2>2, <2>3 DEF EntriesDeclared
<1>10. LastDeclares(w)
  <2>1. \A t \in Seeded : <<t, Shared>> \in w.parts[k].channels
    BY <1>1, <1>3, <1>7 DEF LastDeclares
  <2>2. ASSUME NEW t \in Topics, w.known[t] # NoSchema
        PROVE  w.known[t] # Shared /\ <<t, w.known[t]>> \in w.parts[k].channels
    <3>1. CASE w.known[t] = r.known[t]
      BY <1>1, <1>3, <1>7, <2>2, <3>1 DEF LastDeclares
    <3>2. CASE w.known[t] # r.known[t]
      <4>1. f.schema # Shared /\ t = f.topic /\ w.known[t] = schema
        BY <1>2, <1>3, <3>2
      <4>2. r.known[f.topic] # Shared
        BY <1>1, <4>1, RecorderAssumption DEF LastDeclares
      <4>3. schema # Shared
        BY <4>1, <4>2 DEF schema, FirstSchema, SchemaFor, f
      <4>. QED
        BY <1>8, <2>2, <4>1, <4>3
    <3>. QED
      BY <3>1, <3>2
  <2>. QED
    BY <1>2, <2>1, <2>2 DEF LastDeclares
<1>11. Len(w.queue) <= QueueCap
  BY <1>2, <1>3, RecorderAssumption DEF SessionInv
<1>. QED
  BY <1>1, <1>2, <1>5, <1>6, <1>9, <1>10, <1>11 DEF SessionInv, Writing, w

(* A rotation opens a part that declares nothing but the seeded topics.     *)
LEMMA RotatedKeeps ==
  ASSUME NEW r, SessionInv(r), Writing(r)
  PROVE  SessionInv(Rotated(r)) /\ Rotated(r).st = r.st /\ Rotated(r).stop = r.stop
<1>. DEFINE w == Rotated(r)
            k == Len(r.parts)
            last == [r.parts[k] EXCEPT !.final = TRUE]
            done == [r.parts EXCEPT ![k] = last]
            parts == Append(done, OpenPart)
<1>1. r \in Session /\ r.parts # << >> /\ Conserved(r)
  BY DEF SessionInv, Writing
<1>2. k \in Nat \ {0} /\ r.parts \in Seq(Part) /\ r.parts[k] \in Part
  BY <1>1 DEF Session
<1>3. last \in Part /\ last.final /\ last.channels = r.parts[k].channels
  BY <1>2 DEF Part
<1>4. OpenPart \in Part /\ OpenPart.channels = {<<t, Shared>> : t \in Seeded}
  BY RecorderAssumption DEF OpenPart, Part
<1>. HIDE DEF last
<1>5. done \in Seq(Part) /\ Len(done) = k /\ done[k] = last
      /\ \A i \in 1..k - 1 : done[i] = r.parts[i]
  BY <1>2, <1>3
<1>6. w = [r EXCEPT !.parts = parts, !.known = Unknown]
  BY DEF Rotated, last
<1>. HIDE DEF done, w
<1>7. parts \in Seq(Part) /\ Len(parts) = k + 1 /\ parts[k + 1] = OpenPart
      /\ \A i \in 1..k : parts[i] = done[i]
  BY <1>4, <1>5
<1>. HIDE DEF parts
<1>8. Unknown \in [Topics -> Schemas \cup {Shared, NoSchema}]
      /\ \A t \in Topics : Unknown[t] = NoSchema
  BY DEF Unknown
<1>9. w \in Session
  BY <1>1, <1>6, <1>7, <1>8 DEF Session
<1>10. /\ w.st = r.st /\ w.accepted = r.accepted /\ w.stop = r.stop
       /\ w.queue = r.queue /\ w.log = r.log /\ w.known = Unknown /\ w.parts = parts
  BY <1>1, <1>6 DEF Session
<1>11. Conserved(w)
  BY <1>1, <1>10 DEF Conserved
<1>12. EarlierFinal(w)
  <2>1. \A i \in 1..k : parts[i].final
    BY <1>2, <1>3, <1>5, <1>7, SMTT(30) DEF SessionInv, EarlierFinal
  <2>. QED
    BY <1>2, <1>7, <1>10, <2>1 DEF EarlierFinal, Writing
<1>13. EntriesDeclared(w)
  <2>1. \A i \in 1..k : parts[i].channels = r.parts[i].channels
    BY <1>2, <1>3, <1>5, <1>7
  <2>2. ASSUME NEW i \in 1..Len(r.log), r.log[i].part # 0
        PROVE  /\ r.log[i].part \in 1..k /\ r.log[i].part \in 1..k + 1
               /\ <<r.log[i].frame.topic, r.log[i].schema>> \in r.parts[r.log[i].part].channels
    <3>1. EntriesDeclared(r) /\ k \in Nat
      BY <1>2 DEF SessionInv
    <3>2. r.log[i].part \in 1..k
      BY <2>2, <3>1 DEF EntriesDeclared
    <3>3. <<r.log[i].frame.topic, r.log[i].schema>> \in r.parts[r.log[i].part].channels
      BY <2>2, <3>1 DEF EntriesDeclared
    <3>. QED
      BY <3>1, <3>2, <3>3
  <2>. QED
    BY <1>7, <1>10, <2>1, <2>2, ZenonT(40) DEF EntriesDeclared
<1>14. LastDeclares(w)
  BY <1>4, <1>7, <1>8, <1>10 DEF LastDeclares
<1>. QED
  BY <1>7, <1>9, <1>10, <1>11, <1>12, <1>13, <1>14, <1>1, <1>2 DEF SessionInv, Writing, w
(* Completing the last part, or failing to, leaves its channels alone. *)
LEMMA LastPartEnds ==
  ASSUME NEW r \in Session, r.parts # << >>, NEW b \in BOOLEAN
  PROVE  LET parts == [r.parts EXCEPT ![Len(r.parts)].final = b]
         IN /\ parts \in Seq(Part) /\ Len(parts) = Len(r.parts) /\ Len(r.parts) \in Nat \ {0}
            /\ \A i \in 1..Len(r.parts) : parts[i].channels = r.parts[i].channels
            /\ \A i \in 1..Len(r.parts) - 1 : parts[i].final = r.parts[i].final
            /\ parts[Len(r.parts)].final = b
<1>. DEFINE k == Len(r.parts)
            last == [r.parts[k] EXCEPT !.final = b]
            parts == [r.parts EXCEPT ![k] = last]
<1>1. k \in Nat \ {0} /\ r.parts \in Seq(Part) /\ r.parts[k] \in Part
  BY DEF Session
<1>2. last \in Part /\ last.final = b /\ last.channels = r.parts[k].channels
  BY <1>1 DEF Part
<1>3. [r.parts EXCEPT ![Len(r.parts)].final = b] = parts
  OBVIOUS
<1>. HIDE DEF last
<1>4. parts \in Seq(Part) /\ Len(parts) = k /\ parts[k] = last
      /\ \A i \in 1..k - 1 : parts[i] = r.parts[i]
  BY <1>1, <1>2
<1>. HIDE DEF parts
<1>5. ASSUME NEW i \in 1..k PROVE parts[i].channels = r.parts[i].channels
  <2>1. i = k \/ i \in 1..k - 1
    BY <1>1
  <2>. QED
    BY <1>2, <1>4, <2>1
<1>. QED
  BY <1>1, <1>2, <1>3, <1>4, <1>5

Ended(r, st, b) ==
  [r EXCEPT !.st = st, !.queue = << >>,
            !.parts = [r.parts EXCEPT ![Len(r.parts)].final = b]]

(* The end of a session: its queue goes, its last part is complete, or      *)
(* maybe when it failed. *)
LEMMA EndKeeps ==
  ASSUME NEW r, SessionInv(r), r.st \in {"select", "drain", "finish"},
         NEW b \in BOOLEAN, NEW st \in {"finished", "failed"}, st = "finished" => b
  PROVE  /\ SessionInv(Ended(r, st, b)) /\ Ended(r, st, b).st = st
         /\ Ended(r, st, b).stop = r.stop /\ Ended(r, st, b).log = r.log
         /\ Ended(r, st, b).accepted = r.accepted
<1>. DEFINE w == Ended(r, st, b)
            parts == [r.parts EXCEPT ![Len(r.parts)].final = b]
            k == Len(r.parts)
<1>1. r \in Session /\ r.parts # << >>
  BY DEF SessionInv
<1>2. /\ parts \in Seq(Part) /\ Len(parts) = k /\ k \in Nat \ {0}
      /\ \A i \in 1..k : parts[i].channels = r.parts[i].channels
      /\ \A i \in 1..k - 1 : parts[i].final = r.parts[i].final
      /\ parts[k].final = b
  BY <1>1, LastPartEnds
<1>. HIDE DEF parts
<1>3. w = [r EXCEPT !.st = st, !.queue = << >>, !.parts = parts]
  BY DEF parts, Ended
<1>. HIDE DEF w
<1>4. w \in Session
  <2>1. << >> \in Seq(Frame) /\ st \in RecorderStates
    BY DEF RecorderStates
  <2>. QED
    BY <1>1, <1>2, <1>3, <2>1 DEF Session
<1>5. /\ w.st = st /\ w.accepted = r.accepted /\ w.stop = r.stop
      /\ w.queue = << >> /\ w.log = r.log /\ w.known = r.known /\ w.parts = parts
  BY <1>1, <1>3 DEF Session
<1>6. EarlierFinal(w)
  <2>1. \A i \in 1..k - 1 : r.parts[i].final
    BY <1>2 DEF SessionInv, EarlierFinal
  <2>. QED
    BY <1>2, <1>5, <2>1 DEF EarlierFinal
<1>7. EntriesDeclared(w)
  <2>1. ASSUME NEW i \in 1..Len(r.log), r.log[i].part # 0
        PROVE  /\ r.log[i].part \in 1..k
               /\ <<r.log[i].frame.topic, r.log[i].schema>> \in r.parts[r.log[i].part].channels
    BY <2>1 DEF SessionInv, EntriesDeclared
  <2>2. /\ w.log = r.log /\ Len(w.parts) = k
        /\ \A i \in 1..k : w.parts[i].channels = r.parts[i].channels
    BY <1>2, <1>5
  <2>. HIDE DEF k
  <2>. QED
    BY <2>1, <2>2 DEF EntriesDeclared
<1>8. w.parts # << >> /\ Len(w.queue) <= QueueCap
  BY <1>2, <1>5, RecorderAssumption
<1>. QED
  BY <1>4, <1>5, <1>6, <1>7, <1>8 DEF SessionInv, Writing, w

Moved(r, st, stop) == [r EXCEPT !.st = st, !.stop = stop]

(* The thread of a session leaves its loop, then the drain; nothing of what *)
(* it wrote or queued changes. *)
LEMMA StateKeeps ==
  ASSUME NEW r, SessionInv(r), NEW st, NEW stop \in BOOLEAN,
         \/ st = r.st
         \/ r.st = "none" /\ st = "opening"
         \/ r.st = "select" /\ st = "drain"
         \/ r.st = "drain" /\ st = "finish"
  PROVE  /\ SessionInv(Moved(r, st, stop))
         /\ Moved(r, st, stop).st = st /\ Moved(r, st, stop).stop = stop
         /\ Moved(r, st, stop).queue = r.queue /\ Moved(r, st, stop).log = r.log
         /\ Moved(r, st, stop).accepted = r.accepted
<1>. DEFINE w == Moved(r, st, stop)
<1>1. r \in Session /\ st \in RecorderStates
  BY DEF SessionInv, RecorderStates, Session
<1>2. /\ w \in Session /\ w.st = st /\ w.stop = stop
      /\ w.accepted = r.accepted /\ w.queue = r.queue /\ w.log = r.log
      /\ w.known = r.known /\ w.parts = r.parts
  BY <1>1 DEF Session, Moved
<1>. HIDE DEF w
<1>3. /\ Conserved(r) => Conserved(w)
      /\ EarlierFinal(r) => EarlierFinal(w)
      /\ EntriesDeclared(r) => EntriesDeclared(w)
      /\ LastDeclares(r) => LastDeclares(w)
  BY <1>2 DEF Conserved, EarlierFinal, EntriesDeclared, LastDeclares
<1>. QED
  BY <1>2, <1>3 DEF SessionInv, Writing, w

(* The queue takes a frame. *)
LEMMA EnqueueKeeps ==
  ASSUME NEW r, SessionInv(r), NEW f \in Frame, Len(r.queue) < QueueCap
  PROVE  LET w == Enqueue(r, f)
         IN SessionInv(w) /\ w.st = r.st /\ w.stop = r.stop /\ w.log = r.log
            /\ w.queue = Append(r.queue, f)
<1>. DEFINE queue == Append(r.queue, f)
            accepted == Append(r.accepted, f)
            w == [r EXCEPT !.queue = queue, !.accepted = accepted]
<1>1. r \in Session
  BY DEF SessionInv
<1>2. /\ r.queue \in Seq(Frame) /\ r.accepted \in Seq(Frame) /\ r.log \in Seq(Entry)
      /\ Len(r.queue) \in Nat /\ Len(r.log) \in Nat
  BY <1>1 DEF Session
<1>3. /\ queue \in Seq(Frame) /\ Len(queue) = Len(r.queue) + 1
      /\ accepted \in Seq(Frame) /\ Len(accepted) = Len(r.accepted) + 1
      /\ queue[Len(r.queue) + 1] = f /\ accepted[Len(r.accepted) + 1] = f
      /\ \A i \in 1..Len(r.queue) : queue[i] = r.queue[i]
      /\ \A i \in 1..Len(r.accepted) : accepted[i] = r.accepted[i]
  BY <1>2
<1>4. Enqueue(r, f) = w
  BY DEF Enqueue
<1>. HIDE DEF queue, accepted
<1>5. /\ w \in Session /\ w.st = r.st /\ w.stop = r.stop
      /\ w.accepted = accepted /\ w.queue = queue /\ w.log = r.log
      /\ w.known = r.known /\ w.parts = r.parts
  BY <1>1, <1>3 DEF Session
<1>. HIDE DEF w
<1>6. ASSUME Conserved(r) PROVE Conserved(w)
  <2>. DEFINE n == Len(r.log)
              m == Len(r.queue)
              a == Len(r.accepted)
  <2>1. n \in Nat /\ m \in Nat /\ a = n + m
    BY <1>2, <1>6 DEF Conserved
  <2>2. /\ Len(queue) = m + 1 /\ queue[m + 1] = f /\ \A i \in 1..m : queue[i] = r.queue[i]
        /\ Len(accepted) = a + 1 /\ accepted[a + 1] = f
        /\ \A i \in 1..a : accepted[i] = r.accepted[i]
    BY <1>3
  <2>3. /\ \A i \in 1..n : r.log[i].frame = r.accepted[i]
        /\ \A i \in 1..m : r.queue[i] = r.accepted[n + i]
    BY <1>6 DEF Conserved
  <2>4. /\ Len(w.log) = n /\ w.log = r.log /\ w.queue = queue /\ w.accepted = accepted
    BY <1>5
  <2>. HIDE DEF n, m, a
  <2>5. n + (m + 1) = a + 1
    BY <2>1
  <2>6. ASSUME NEW i \in 1..n PROVE r.log[i].frame = accepted[i]
    BY <2>1, <2>2, <2>3
  <2>7. ASSUME NEW i \in 1..m + 1 PROVE queue[i] = accepted[n + i]
    <3>1. CASE i = m + 1
      BY <2>2, <2>5, <3>1
    <3>2. CASE i \in 1..m
      <4>1. n + i \in 1..a
        BY <2>1, <3>2
      <4>. QED
        BY <2>2, <2>3, <3>2, <4>1
    <3>. QED
      BY <2>1, <3>1, <3>2
  <2>. QED
    BY <2>2, <2>4, <2>5, <2>6, <2>7 DEF Conserved
<1>7. /\ EarlierFinal(r) => EarlierFinal(w)
      /\ EntriesDeclared(r) => EntriesDeclared(w)
      /\ LastDeclares(r) => LastDeclares(w)
  BY <1>5 DEF EarlierFinal, EntriesDeclared, LastDeclares
<1>8. Len(w.queue) <= QueueCap
  BY <1>2, <1>3, <1>5, RecorderAssumption
<1>. QED
  BY <1>4, <1>5, <1>6, <1>7, <1>8 DEF SessionInv, Writing, queue

(* A frame the queue does not take is counted as lost, by the model only. *)
LEMMA LostKeeps ==
  ASSUME NEW r, SessionInv(r)
  PROVE  LET w == Lose(r)
         IN SessionInv(w) /\ w.st = r.st /\ w.stop = r.stop /\ w.queue = r.queue
            /\ w.log = r.log /\ w.accepted = r.accepted
<1>. DEFINE w == Lose(r)
<1>1. r \in Session
  BY DEF SessionInv
<1>2. /\ w.st = r.st /\ w.stop = r.stop
      /\ w.accepted = r.accepted /\ w.queue = r.queue /\ w.log = r.log
      /\ w.known = r.known /\ w.parts = r.parts
  BY <1>1 DEF Session, Lose
<1>a. w \in Session
  <2>1. r.lost + 1 \in Nat
    BY <1>1 DEF Session
  <2>. QED
    BY <1>1, <2>1 DEF Session, Lose
<1>. HIDE DEF w
<1>3. /\ Conserved(r) => Conserved(w)
      /\ EarlierFinal(r) => EarlierFinal(w)
      /\ EntriesDeclared(r) => EntriesDeclared(w)
      /\ LastDeclares(r) => LastDeclares(w)
  BY <1>2 DEF Conserved, EarlierFinal, EntriesDeclared, LastDeclares
<1>4. SessionInv(w)
  BY <1>2, <1>3, <1>a DEF SessionInv, Writing
<1>. QED
  BY <1>2, <1>4 DEF w

(* The first part is opened, or the recording cannot start. *)
LEMMA OpenKeeps ==
  ASSUME NEW r, SessionInv(r), r.st = "opening"
  PROVE  /\ LET w == [r EXCEPT !.st = "select", !.parts = << OpenPart >>]
            IN SessionInv(w) /\ w.st = "select" /\ w.stop = r.stop /\ w.queue = r.queue
         /\ LET w == [r EXCEPT !.st = "failed", !.queue = << >>]
            IN SessionInv(w) /\ w.st = "failed" /\ w.stop = r.stop
<1>1. r \in Session /\ r.log = << >> /\ r.parts = << >> /\ r.known = Unknown /\ Conserved(r)
  BY DEF SessionInv
<1>2. OpenPart \in Part /\ OpenPart.channels = {<<t, Shared>> : t \in Seeded}
  BY RecorderAssumption DEF OpenPart, Part
<1>3. << OpenPart >> \in Seq(Part) /\ Len(<< OpenPart >>) = 1 /\ << OpenPart >>[1] = OpenPart
  BY <1>2
<1>4. \A t \in Topics : Unknown[t] = NoSchema
  BY DEF Unknown
<1>. DEFINE first == << OpenPart >>
            v == [r EXCEPT !.st = "select", !.parts = first]
            w == [r EXCEPT !.st = "failed", !.queue = << >>]
<1>. HIDE DEF first
<1>5. /\ v \in Session /\ v.st = "select" /\ v.stop = r.stop /\ v.accepted = r.accepted
      /\ v.queue = r.queue /\ v.log = << >> /\ v.known = Unknown /\ v.parts = first
  BY <1>1, <1>3 DEF Session, RecorderStates, first
<1>6. /\ w \in Session /\ w.st = "failed" /\ w.stop = r.stop
      /\ w.queue = << >> /\ w.log = << >> /\ w.parts = << >>
  <2>1. << >> \in Seq(Frame) /\ "failed" \in RecorderStates
    BY DEF RecorderStates
  <2>. QED
    BY <1>1, <2>1 DEF Session
<1>. HIDE DEF v, w
<1>7. SessionInv(v)
  <2>1. Conserved(v) /\ EntriesDeclared(v)
    BY <1>1, <1>5 DEF Conserved, EntriesDeclared
  <2>2. EarlierFinal(v) /\ LastDeclares(v) /\ v.parts # << >>
    BY <1>2, <1>3, <1>4, <1>5 DEF EarlierFinal, LastDeclares, first
  <2>. QED
    BY <1>5, <2>1, <2>2 DEF SessionInv, Writing
<1>8. SessionInv(w)
  BY <1>6, RecorderAssumption DEF SessionInv, Writing, EarlierFinal, EntriesDeclared
<1>. QED
  BY <1>5, <1>6, <1>7, <1>8 DEF v, w, first
-----------------------------------------------------------------------------
(* What the threads do to one another. *)

(* One session changes, the others do not. *)
LEMMA OneSession ==
  ASSUME SessionsInv, NEW s \in Sessions, NEW r, SessionInv(r), ses' = [ses EXCEPT ![s] = r]
  PROVE  /\ SessionsInv' /\ ses'[s] = r
         /\ \A q \in Sessions : q # s => ses'[q] = ses[q]
<1>1. r \in Session /\ ses \in [Sessions -> Session]
  BY DEF SessionInv, SessionsInv
<1>2. /\ ses' \in [Sessions -> Session] /\ ses'[s] = r
      /\ \A q \in Sessions : q # s => ses'[q] = ses[q]
  BY <1>1
<1>3. \A q \in Sessions : SessionInv(ses'[q])
  BY <1>2 DEF SessionsInv
<1>. QED
  BY <1>2, <1>3 DEF SessionsInv

(* The recorder thread works on its own session alone: the UI and the slots *)
(* are as they were. *)
LEMMA ThreadStep ==
  ASSUME RecorderInv, NEW s \in Sessions, NEW r, Becomes(s, r), SessionInv(r),
         ses[s].st \notin {"none", "opening"},
         NoneRemoved => /\ r.stop \/ r.st \in {"drain", "finish"} => Closed(s)
                        /\ r.st = "finish" => r.queue = << >>
                        /\ r.st = "finished" => Len(r.log) = Len(r.accepted)
  PROVE  RecorderInv'
<1>1. ses' = [ses EXCEPT ![s] = r] /\ UNCHANGED <<source, slot, lock, ui, handle, made>>
  BY DEF Becomes
<1>2. SessionsInv' /\ ses'[s] = r /\ \A q \in Sessions : q # s => ses'[q] = ses[q]
  BY <1>1, OneSession DEF RecorderInv
<1>3. UiInv'
  <2>1. s <= ui.session
    BY DEF RecorderInv, UiInv, Fresh, Sessions
  <2>2. ui.pc = "install" => ui.session # s
    BY DEF RecorderInv, UiInv
  <2>3. ui.session \in {0} \cup Sessions
    BY DEF RecorderInv, UiInv
  <2>4. ui.pc = "install" => ses'[ui.session] = ses[ui.session]
    BY <1>2, <2>2, <2>3 DEF RecorderInv, UiInv
  <2>5. \A q \in Sessions : q > ui.session => ses'[q] = ses[q]
    BY <1>2, <2>1, <2>3, RecorderAssumption DEF Sessions
  <2>6. SlotsDone'
    BY <1>1 DEF RecorderInv, UiInv, SlotsDone, Managed
  <2>. QED
    BY <1>1, <2>4, <2>5, <2>6 DEF RecorderInv, UiInv, Fresh, Managed
<1>4. EndsClean'
  <2>1. NoneRemoved' => NoneRemoved
    BY <1>1 DEF NoneRemoved
  <2>2. \A q : Closed(q) => Closed(q)'
    BY <1>1 DEF Closed
  <2>. QED
    BY <1>2, <2>1, <2>2 DEF RecorderInv, EndsClean
<1>. QED
  BY <1>2, <1>3, <1>4 DEF RecorderInv

(* Every turn of the recorder thread. *)
LEMMA ThreadKeeps == ASSUME RecorderInv, NEW s \in Sessions, Thread(s) PROVE RecorderInv'
<1>. DEFINE r == ses[s]
            Ends(w) == NoneRemoved => /\ w.stop \/ w.st \in {"drain", "finish"} => Closed(s)
                                      /\ w.st = "finish" => w.queue = << >>
                                      /\ w.st = "finished" => Len(w.log) = Len(w.accepted)
<1>1. SessionInv(r) /\ r \in Session /\ Ends(r)
  BY DEF RecorderInv, SessionsInv, SessionInv, EndsClean
<1>2. ASSUME NEW w, Becomes(s, w), SessionInv(w), Ends(w), r.st \notin {"none", "opening"}
      PROVE  RecorderInv'
  BY <1>2, ThreadStep
<1>3. CASE WriteFrame(s)
  <2>1. r.st \in {"select", "drain"} /\ r.queue # << >> /\ Becomes(s, Wrote(r))
    BY <1>3 DEF WriteFrame, HasFrame
  <2>. HIDE DEF r
  <2>2. SessionInv(Wrote(r)) /\ Wrote(r).st = r.st /\ Wrote(r).stop = r.stop
    BY <1>1, <2>1, WroteKeeps DEF Writing
  <2>. QED
    BY <1>1, <1>2, <2>1, <2>2
<1>4. CASE WriteAndRotate(s)
  <2>1. r.st \in {"select", "drain"} /\ r.queue # << >> /\ Becomes(s, Rotated(Wrote(r)))
    BY <1>4 DEF WriteAndRotate, HasFrame
  <2>. HIDE DEF r
  <2>2. SessionInv(Wrote(r)) /\ Wrote(r).st = r.st /\ Wrote(r).stop = r.stop
    BY <1>1, <2>1, WroteKeeps DEF Writing
  <2>3. SessionInv(Rotated(Wrote(r))) /\ Rotated(Wrote(r)).st = r.st
        /\ Rotated(Wrote(r)).stop = r.stop
    BY <2>1, <2>2, RotatedKeeps DEF Writing
  <2>. QED
    BY <1>1, <1>2, <2>1, <2>3
<1>5. ASSUME NEW v, SessionInv(v), v.st = r.st, v.stop = r.stop, NEW final \in BOOLEAN,
             r.st \in {"select", "drain", "finish"}, Becomes(s, Failed(v, final))
      PROVE  RecorderInv'
  <2>. DEFINE k == Len(v.parts)
              b == v.parts[k].final \/ final
  <2>1. v.parts # << >> /\ v \in Session
    BY <1>5 DEF SessionInv
  <2>2. Failed(v, final) = Ended(v, "failed", b)
    BY <2>1 DEF Failed, Session, Ended
  <2>3. b \in BOOLEAN
    OBVIOUS
  <2>. HIDE DEF b, r
  <2>4. /\ SessionInv(Failed(v, final)) /\ Failed(v, final).st = "failed"
        /\ Failed(v, final).stop = v.stop
    BY <1>5, <2>2, <2>3, EndKeeps
  <2>. QED
    BY <1>1, <1>2, <1>5, <2>4
<1>6. CASE WriteFails(s)
  <2>1. r.st \in {"select", "drain"} /\ r.queue # << >>
        /\ \E final \in BOOLEAN, v \in {r, Wrote(r)} : Becomes(s, Failed(v, final))
    BY <1>6 DEF WriteFails, HasFrame
  <2>. HIDE DEF r
  <2>2. SessionInv(Wrote(r)) /\ Wrote(r).st = r.st /\ Wrote(r).stop = r.stop
    BY <1>1, <2>1, WroteKeeps DEF Writing
  <2>. QED
    BY <1>1, <1>5, <2>1, <2>2
<1>7. CASE LeaveSelect(s)
  <2>. DEFINE no == FALSE
              w == Moved(r, "drain", no)
  <2>0. no \in BOOLEAN
    OBVIOUS
  <2>1. r.st = "select" /\ Becomes(s, w) /\ (r.stop \/ ~HasSender(s))
    BY <1>7 DEF LeaveSelect, Moved
  <2>2. NoneRemoved => Closed(s)
    BY <1>1, <2>1 DEF HasSender, Closed
  <2>. HIDE DEF r, no
  <2>3. SessionInv(w) /\ w.st = "drain"
    BY <1>1, <2>0, <2>1, StateKeeps
  <2>. HIDE DEF w
  <2>. QED
    BY <1>2, <2>1, <2>2, <2>3
<1>8. CASE LeaveDrain(s)
  <2>. DEFINE w == Moved(r, "finish", r.stop)
  <2>1. r.st = "drain" /\ r.queue = << >> /\ Becomes(s, [r EXCEPT !.st = "finish"])
    BY <1>8 DEF LeaveDrain
  <2>. HIDE DEF r
  <2>2. w = [r EXCEPT !.st = "finish"] /\ r.stop \in BOOLEAN
    BY <1>1 DEF Session, Moved
  <2>3. SessionInv(w) /\ w.st = "finish" /\ w.queue = << >>
    BY <1>1, <2>1, <2>2, StateKeeps
  <2>. HIDE DEF w
  <2>. QED
    BY <1>1, <1>2, <2>1, <2>2, <2>3
<1>9. CASE Finish(s)
  <2>1. r.st = "finish" /\ r.parts # << >> /\ Conserved(r)
    BY <1>1, <1>9 DEF Finish, SessionInv
  <2>. DEFINE w == Ended(r, "finished", TRUE)
              x == [r EXCEPT !.st = "finished", !.queue = << >>,
                             !.parts[Len(r.parts)].final = TRUE]
  <2>2. Becomes(s, x) \/ \E final \in BOOLEAN : Becomes(s, Failed(r, final))
    BY <1>9 DEF Finish
  <2>. HIDE DEF r
  <2>3. x = w
    BY <1>1 DEF Session, Ended
  <2>4. /\ SessionInv(w) /\ w.st = "finished" /\ w.stop = r.stop /\ w.log = r.log
        /\ w.accepted = r.accepted
    BY <1>1, <2>1, EndKeeps
  <2>. HIDE DEF w, x
  <2>5. r.queue = << >> => Len(r.log) = Len(r.accepted)
    BY <1>1, <2>1 DEF Conserved, Session
  <2>6. Ends(w)
    BY <1>1, <2>1, <2>4, <2>5
  <2>. QED
    BY <1>1, <1>2, <1>5, <2>1, <2>2, <2>3, <2>4, <2>6
<1>. QED
  BY <1>3, <1>4, <1>6, <1>7, <1>8, <1>9 DEF Thread
(* A frame reaches the queue of the session whose sender is in the slot, or *)
(* is lost to it: either way the session goes on as it was. *)
LEMMA FrameStep ==
  ASSUME RecorderInv, NEW sl \in Slots, slot[sl] # 0, NEW r, SessionInv(r),
         ses' = [ses EXCEPT ![slot[sl]] = r],
         r.st = ses[slot[sl]].st, r.stop = ses[slot[sl]].stop,
         r.log = ses[slot[sl]].log,
         ~Receiving(slot[sl]) => r.accepted = ses[slot[sl]].accepted,
         lock' \in [Slots -> Writers \cup {Nobody}], made' \in Nat,
         UNCHANGED <<source, slot, ui, handle>>
  PROVE  RecorderInv'
<1>. DEFINE s == slot[sl]
<1>1. s \in Sessions /\ s <= ui.session /\ ui.session \in {0} \cup Sessions
  BY DEF RecorderInv, UiInv
<1>2. /\ SessionsInv' /\ ses'[s] = r /\ \A q \in Sessions : q # s => ses'[q] = ses[q]
  BY <1>1, OneSession DEF RecorderInv
<1>3. UiInv'
  <2>1. \A q \in Sessions : q > ui.session => ses'[q] = ses[q]
    BY <1>1, <1>2, RecorderAssumption DEF Sessions
  <2>2. ui.pc = "install" =>
          /\ ses'[ui.session].st = ses[ui.session].st
          /\ ses'[ui.session].stop = ses[ui.session].stop
    BY <1>1, <1>2 DEF RecorderInv, UiInv
  <2>3. SlotsDone' /\ Managed' = Managed
    BY DEF RecorderInv, UiInv, SlotsDone, Managed
  <2>. QED
    BY <2>1, <2>2, <2>3 DEF RecorderInv, UiInv, Fresh
<1>4. EndsClean'
  <2>. SUFFICES ASSUME NoneRemoved, NEW q \in Sessions
                PROVE  /\ ses'[q].stop \/ ses'[q].st \in {"drain", "finish"} => Closed(q)
                       /\ ses'[q].st = "finish" => ses'[q].queue = << >>
                       /\ ses'[q].st = "finished" => Len(ses'[q].log) = Len(ses'[q].accepted)
    BY DEF EndsClean, NoneRemoved, Closed
  <2>1. CASE q # s
    BY <1>2, <2>1 DEF RecorderInv, EndsClean
  <2>2. CASE q = s
    <3>1. ~Closed(s)
      BY DEF Closed
    <3>2. ~r.stop /\ r.st \notin {"drain", "finish"}
      BY <1>1, <3>1 DEF RecorderInv, EndsClean
    <3>3. r.st = "finished" => Len(r.log) = Len(r.accepted)
      BY <1>1 DEF RecorderInv, EndsClean, Receiving
    <3>. QED
      BY <1>2, <2>2, <3>2, <3>3
  <2>. QED
    BY <2>1, <2>2
<1>. QED
  BY <1>2, <1>3, <1>4 DEF RecorderInv

(* Who holds a slot, and how many frames were offered, is of no concern to  *)
(* the sessions. *)
LEMMA LockStep ==
  ASSUME RecorderInv, lock' \in [Slots -> Writers \cup {Nobody}],
         UNCHANGED <<source, slot, ui, handle, ses, made>>
  PROVE  RecorderInv'
<1>1. SessionsInv'
  BY DEF RecorderInv, SessionsInv
<1>2. UiInv'
  BY DEF RecorderInv, UiInv, SlotsDone, Managed, Fresh
<1>3. EndsClean'
  BY DEF RecorderInv, EndsClean, NoneRemoved, Closed
<1>. QED
  BY <1>1, <1>2, <1>3 DEF RecorderInv

(* Every step of a writer. *)
LEMMA WriterKeeps == ASSUME RecorderInv, NEW w \in Writers, Writer(w) PROVE RecorderInv'
<1>. DEFINE sl == SlotOf[w]
            s == slot[sl]
<1>1. sl \in Slots /\ s \in {0} \cup Sessions /\ made \in Nat
      /\ lock \in [Slots -> Writers \cup {Nobody}]
  BY RecorderAssumption DEF RecorderInv, UiInv
<1>2. ASSUME s # 0 PROVE s \in Sessions /\ SessionInv(ses[s])
  BY <1>1, <1>2 DEF RecorderInv, SessionsInv
<1>3. CASE Lock(w)
  BY <1>1, <1>3, LockStep DEF Lock
<1>4. CASE Unlock(w)
  BY <1>1, <1>4, LockStep DEF Unlock
<1>5. CASE Contended(w)
  <2>. DEFINE r == Lose(ses[s])
  <2>1. /\ s # 0 /\ made' = made + 1 /\ ses' = [ses EXCEPT ![s] = r]
        /\ UNCHANGED <<source, slot, lock, ui, handle>>
    BY <1>5 DEF Contended
  <2>2. /\ SessionInv(r) /\ r.st = ses[s].st /\ r.stop = ses[s].stop
        /\ r.log = ses[s].log /\ r.accepted = ses[s].accepted
    BY <1>2, <2>1, LostKeeps
  <2>. HIDE DEF r
  <2>3. made' \in Nat
    BY <1>1, <2>1
  <2>. QED
    BY <1>1, <2>1, <2>2, <2>3, FrameStep
<1>6. ASSUME NEW f \in FramesOf[w], Send(w, f) PROVE RecorderInv'
  <2>. DEFINE frame == [id |-> made, topic |-> f[1], schema |-> f[2]]
              lost == Lose(ses[s])
              fits == Receiving(s) /\ Len(ses[s].queue) < QueueCap
  <2>0. ses' = [ses EXCEPT ![s] = IF fits THEN Enqueue(ses[s], frame) ELSE lost]
    BY <1>6, Zenon DEF Send
  <2>1. /\ s # 0 /\ made' = made + 1
        /\ lock' = IF w \in Blocking THEN lock ELSE [lock EXCEPT ![sl] = Nobody]
        /\ UNCHANGED <<source, slot, ui, handle>>
    BY <1>6 DEF Send
  <2>2. frame \in Frame
    <3>1. f \in Topics \X (Schemas \cup {Shared})
      BY RecorderAssumption
    <3>. QED
      BY <1>1, <3>1 DEF Frame
  <2>3. lock' \in [Slots -> Writers \cup {Nobody}] /\ made' \in Nat
    BY <1>1, <2>1
  <2>. HIDE DEF frame
  <2>4. CASE fits
    <3>. DEFINE r == Enqueue(ses[s], frame)
    <3>1. /\ SessionInv(r) /\ r.st = ses[s].st /\ r.stop = ses[s].stop /\ r.log = ses[s].log
      BY <1>2, <2>1, <2>2, <2>4, EnqueueKeeps
    <3>2. ses' = [ses EXCEPT ![s] = r] /\ Receiving(s)
      BY <2>0, <2>4
    <3>. HIDE DEF r
    <3>. QED
      BY <1>1, <2>1, <2>3, <3>1, <3>2, FrameStep
  <2>5. CASE ~fits
    <3>1. /\ SessionInv(lost) /\ lost.st = ses[s].st /\ lost.stop = ses[s].stop
          /\ lost.log = ses[s].log /\ lost.accepted = ses[s].accepted
      BY <1>2, <2>1, LostKeeps
    <3>2. ses' = [ses EXCEPT ![s] = lost]
      BY <2>0, <2>5
    <3>. HIDE DEF lost, fits
    <3>. QED
      BY <1>1, <2>1, <2>3, <3>1, <3>2, FrameStep
  <2>. QED
    BY <2>4, <2>5
<1>. QED
  BY <1>3, <1>4, <1>5, <1>6 DEF Writer
-----------------------------------------------------------------------------
(* The UI. *)

(* A session is prepared: none is recorded, so no running source holds a    *)
(* sender. *)
LEMMA StartKeeps == ASSUME RecorderInv, StartRecording PROVE RecorderInv'
<1>. DEFINE n == ui.session + 1
            r == Moved(ses[n], "opening", ses[n].stop)
<1>1. /\ ui.pc = "idle" /\ handle = 0 /\ ui.session < MaxSessions
      /\ ui' = [pc |-> "install", session |-> n, todo |-> Managed]
      /\ ses' = [ses EXCEPT ![n].st = "opening"]
      /\ UNCHANGED <<source, slot, lock, handle, made>>
  BY DEF StartRecording
<1>2. ui.session \in {0} \cup Sessions /\ n \in Sessions /\ n > ui.session
  BY <1>1, RecorderAssumption DEF RecorderInv, UiInv, Sessions
<1>3. Fresh(ses[n]) /\ SessionInv(ses[n]) /\ ses[n] \in Session
  BY <1>2 DEF RecorderInv, UiInv, SessionsInv, SessionInv
<1>4. /\ SessionInv(r) /\ r.st = "opening" /\ r.stop = ses[n].stop
  BY <1>3, StateKeeps DEF Fresh, Session
<1>5. ses' = [ses EXCEPT ![n] = r]
  BY <1>1, <1>2, <1>3 DEF Moved, Session, RecorderInv, SessionsInv
<1>. HIDE DEF r
<1>6. SessionsInv' /\ ses'[n] = r /\ \A q \in Sessions : q # n => ses'[q] = ses[q]
  BY <1>2, <1>4, <1>5, OneSession DEF RecorderInv
<1>7. UiInv'
  <2>1. \A q \in Sessions : q > n => q > ui.session /\ q # n
    BY <1>2, RecorderAssumption DEF Sessions
  <2>2. (\A s \in Sessions : s > ui.session => Fresh(ses[s]))'
    BY <1>1, <1>6, <2>1 DEF RecorderInv, UiInv, Fresh
  <2>3. SlotsDone'
    BY <1>1 DEF RecorderInv, UiInv, SlotsDone, Managed
  <2>4. ui' \in [pc: UiPcs, session: {0} \cup Sessions, todo: SUBSET Slots]
        /\ ui'.pc = "install" /\ ui'.session = n /\ ui'.todo = Managed
    BY <1>1, <1>2 DEF UiPcs, Managed
  <2>5. n # 0 /\ ses'[n].st = "opening" /\ ~ses'[n].stop /\ handle' \in {0, n}
    BY <1>1, <1>2, <1>3, <1>4, <1>6, RecorderAssumption DEF Fresh, Sessions
  <2>6. \A sl \in Slots : slot[sl] <= n /\ (source[sl] = "absent" => slot[sl] = 0)
    BY <1>2, RecorderAssumption DEF RecorderInv, UiInv, Sessions
  <2>7. Managed' = Managed /\ UNCHANGED <<source, slot, lock, handle, made>>
    BY <1>1 DEF Managed
  <2>. HIDE DEF n
  <2>. QED
    BY <1>1, <2>2, <2>3, <2>4, <2>5, <2>6, <2>7 DEF RecorderInv, UiInv
<1>8. EndsClean'
  <2>. SUFFICES ASSUME NoneRemoved, NEW q \in Sessions
                PROVE  /\ ses'[q].stop \/ ses'[q].st \in {"drain", "finish"} => Closed(q)'
                       /\ ses'[q].st = "finish" => ses'[q].queue = << >>
                       /\ ses'[q].st = "finished" => Len(ses'[q].log) = Len(ses'[q].accepted)
    BY <1>1 DEF EndsClean, NoneRemoved
  <2>1. CASE q = n
    BY <1>3, <1>4, <1>6, <2>1 DEF Fresh
  <2>2. CASE q # n
    <3>1. Closed(q) => Closed(q)'
      BY <1>1, <2>2 DEF Closed
    <3>. QED
      BY <1>6, <2>2, <3>1 DEF RecorderInv, EndsClean
  <2>. QED
    BY <2>1, <2>2
<1>. QED
  BY <1>6, <1>7, <1>8 DEF RecorderInv

(* The UI goes on without a session being touched. *)
LEMMA UiStep ==
  ASSUME RecorderInv, UiInv', UNCHANGED ses, NoneRemoved' => NoneRemoved,
         \A s \in Sessions :
           ses[s].stop \/ ses[s].st \in {"drain", "finish"} => (Closed(s) => Closed(s)')
  PROVE  RecorderInv'
<1>1. SessionsInv'
  BY DEF RecorderInv, SessionsInv
<1>2. EndsClean'
  <2>. SUFFICES ASSUME NoneRemoved, NEW q \in Sessions
                PROVE  /\ ses[q].stop \/ ses[q].st \in {"drain", "finish"} => Closed(q)'
                       /\ ses[q].st = "finish" => ses[q].queue = << >>
                       /\ ses[q].st = "finished" => Len(ses[q].log) = Len(ses[q].accepted)
    BY DEF EndsClean
  <2>. QED
    BY DEF RecorderInv, EndsClean
<1>. QED
  BY <1>1, <1>2 DEF RecorderInv

(* One slot after the other takes the sender of the new session, or gives   *)
(* up the one it holds. *)
LEMMA SlotKeeps ==
  ASSUME RecorderInv, NEW sl \in Slots, InstallSlot(sl) \/ ClearSlot(sl)
  PROVE  RecorderInv'
<1>. DEFINE v == IF ui.pc = "install" THEN ui.session ELSE 0
<1>1. /\ ui.pc \in {"install", "clear"} /\ sl \in ui.todo
      /\ slot' = [slot EXCEPT ![sl] = v] /\ ui' = [ui EXCEPT !.todo = @ \ {sl}]
      /\ UNCHANGED <<source, lock, handle, ses, made>>
  BY DEF InstallSlot, ClearSlot
<1>2. /\ ui \in [pc: UiPcs, session: {0} \cup Sessions, todo: SUBSET Slots]
      /\ ui.session \in {0} \cup Sessions /\ slot \in [Slots -> {0} \cup Sessions]
      /\ ui.todo \subseteq Managed
  BY DEF RecorderInv, UiInv
<1>3. /\ ui' \in [pc: UiPcs, session: {0} \cup Sessions, todo: SUBSET Slots]
      /\ ui'.pc = ui.pc /\ ui'.session = ui.session /\ ui'.todo = ui.todo \ {sl}
  BY <1>1, <1>2
<1>4. /\ slot' \in [Slots -> {0} \cup Sessions]
      /\ slot'[sl] = v /\ \A o \in Slots : o # sl => slot'[o] = slot[o]
  BY <1>1, <1>2
<1>5. UiInv'
  <2>1. SlotsDone'
    BY <1>1, <1>3, <1>4 DEF RecorderInv, UiInv, SlotsDone, Managed
  <2>2. v <= ui.session
    BY <1>2, RecorderAssumption DEF Sessions
  <2>3. source[sl] # "absent"
    BY <1>1, <1>2 DEF Managed
  <2>4. \A o \in Slots : slot'[o] <= ui.session /\ (source[o] = "absent" => slot'[o] = 0)
    BY <1>4, <2>2, <2>3 DEF RecorderInv, UiInv
  <2>5. Managed' = Managed
    BY <1>1 DEF Managed
  <2>. HIDE DEF v
  <2>. QED
    BY <1>1, <1>3, <1>4, <2>1, <2>4, <2>5 DEF RecorderInv, UiInv, Fresh
<1>6. ASSUME NEW s \in Sessions, ses[s].stop \/ ses[s].st \in {"drain", "finish"}, Closed(s)
      PROVE  Closed(s)'
  <2>1. v # s
    BY <1>6, RecorderAssumption DEF RecorderInv, UiInv, Sessions
  <2>. QED
    BY <1>3, <1>4, <1>6, <2>1 DEF Closed
<1>7. NoneRemoved' => NoneRemoved
  BY <1>1 DEF NoneRemoved
<1>. QED
  BY <1>1, <1>5, <1>6, <1>7, UiStep

(* All senders are in place: the recorder starts, or they are taken out.    *)
LEMMA SpawnKeeps == ASSUME RecorderInv, Spawn \/ SpawnFails PROVE RecorderInv'
<1>. DEFINE s == ui.session
            v == [ses[s] EXCEPT !.st = "select", !.parts = << OpenPart >>]
            w == [ses[s] EXCEPT !.st = "failed", !.queue = << >>]
<1>1. /\ ui.pc = "install" /\ ui.todo = {} /\ UNCHANGED <<source, slot, lock, made>>
  BY DEF Spawn, SpawnFails
<1>2. /\ s \in Sessions /\ handle = 0 /\ ses[s].st = "opening" /\ ~ses[s].stop
      /\ SessionInv(ses[s]) /\ ses \in [Sessions -> Session]
      /\ ui \in [pc: UiPcs, session: {0} \cup Sessions, todo: SUBSET Slots]
      /\ ui.session \in {0} \cup Sessions
  BY <1>1 DEF RecorderInv, UiInv, SessionsInv
<1>3. /\ SessionInv(v) /\ v.st = "select" /\ v.stop = ses[s].stop
      /\ SessionInv(w) /\ w.st = "failed" /\ w.stop = ses[s].stop
  BY <1>2, OpenKeeps
<1>4. \/ /\ ses' = [ses EXCEPT ![s] = v] /\ handle' = s /\ ui' = [ui EXCEPT !.pc = "idle"]
      \/ /\ ses' = [ses EXCEPT ![s] = w] /\ handle' = handle
         /\ ui' = [ui EXCEPT !.pc = "clear", !.todo = Managed]
  BY <1>2 DEF Spawn, SpawnFails
<1>5. \E r \in {v, w} : ses' = [ses EXCEPT ![s] = r]
  BY <1>4
<1>6. PICK r \in {v, w} : ses' = [ses EXCEPT ![s] = r]
  BY <1>5
<1>7. SessionInv(r) /\ r.st \in {"select", "failed"} /\ ~r.stop
  BY <1>2, <1>3
<1>. HIDE DEF v, w
<1>8. SessionsInv' /\ ses'[s] = r /\ \A q \in Sessions : q # s => ses'[q] = ses[q]
  BY <1>2, <1>6, <1>7, OneSession DEF RecorderInv
<1>9. /\ ui' \in [pc: UiPcs, session: {0} \cup Sessions, todo: SUBSET Slots]
      /\ ui'.session = s /\ handle' \in {0, s}
      /\ \/ ui'.pc = "idle" /\ ui'.todo = {} /\ handle' = s
         \/ ui'.pc = "clear" /\ ui'.todo = Managed
  BY <1>1, <1>2, <1>4 DEF UiPcs, Managed
<1>10. UiInv'
  <2>1. Managed' = Managed
    BY <1>1 DEF Managed
  <2>2. SlotsDone'
    BY <1>1, <1>9, <2>1 DEF RecorderInv, UiInv, SlotsDone
  <2>3. \A q \in Sessions : q > s => ses'[q] = ses[q]
    BY <1>2, <1>8, RecorderAssumption DEF Sessions
  <2>. QED
    BY <1>1, <1>9, <2>1, <2>2, <2>3 DEF RecorderInv, UiInv, Fresh
<1>11. EndsClean'
  <2>. SUFFICES ASSUME NoneRemoved, NEW q \in Sessions
                PROVE  /\ ses'[q].stop \/ ses'[q].st \in {"drain", "finish"} => Closed(q)'
                       /\ ses'[q].st = "finish" => ses'[q].queue = << >>
                       /\ ses'[q].st = "finished" => Len(ses'[q].log) = Len(ses'[q].accepted)
    BY <1>1 DEF EndsClean, NoneRemoved
  <2>1. CASE q = s
    BY <1>7, <1>8, <2>1
  <2>2. CASE q # s
    <3>1. Closed(q) => Closed(q)'
      BY <1>1, <1>9 DEF Closed
    <3>. QED
      BY <1>8, <2>2, <3>1 DEF RecorderInv, EndsClean
  <2>. QED
    BY <2>1, <2>2
<1>. QED
  BY <1>8, <1>10, <1>11 DEF RecorderInv

(* The senders are taken out before the recorder is told. *)
LEMMA StopKeeps == ASSUME RecorderInv, StopRecording PROVE RecorderInv'
<1>1. /\ ui.pc = "idle" /\ ui' = [ui EXCEPT !.pc = "clear", !.todo = Managed]
      /\ UNCHANGED <<source, slot, lock, handle, ses, made>>
  BY DEF StopRecording
<1>2. ui \in [pc: UiPcs, session: {0} \cup Sessions, todo: SUBSET Slots]
  BY DEF RecorderInv, UiInv
<1>3. /\ ui' \in [pc: UiPcs, session: {0} \cup Sessions, todo: SUBSET Slots]
      /\ ui'.pc = "clear" /\ ui'.session = ui.session /\ ui'.todo = Managed
      /\ Managed' = Managed
  BY <1>1, <1>2 DEF UiPcs, Managed
<1>4. UiInv'
  BY <1>1, <1>3 DEF RecorderInv, UiInv, SlotsDone, Fresh
<1>5. (NoneRemoved' => NoneRemoved) /\ \A s : Closed(s) => Closed(s)'
  BY <1>1, <1>3 DEF NoneRemoved, Closed
<1>. QED
  BY <1>1, <1>4, <1>5, UiStep

(* Unless a source was removed, no slot holds a sender of the session when  *)
(* its recorder is told to stop. *)
LEMMA DropKeeps == ASSUME RecorderInv, DropHandle PROVE RecorderInv'
<1>1. /\ ui.pc = "clear" /\ ui.todo = {} /\ handle' = 0 /\ ui' = [ui EXCEPT !.pc = "idle"]
      /\ UNCHANGED <<source, slot, lock, made>>
  BY DEF DropHandle
<1>2. /\ ui \in [pc: UiPcs, session: {0} \cup Sessions, todo: SUBSET Slots]
      /\ handle \in {0, ui.session} /\ ui.session \in {0} \cup Sessions
  BY DEF RecorderInv, UiInv
<1>3. /\ ui' \in [pc: UiPcs, session: {0} \cup Sessions, todo: SUBSET Slots]
      /\ ui'.pc = "idle" /\ ui'.session = ui.session /\ ui'.todo = {}
      /\ Managed' = Managed
  BY <1>1, <1>2 DEF UiPcs, Managed
<1>4. \A sl \in Managed : slot[sl] = 0
  BY <1>1 DEF RecorderInv, UiInv, SlotsDone
<1>5. SlotsDone'
  BY <1>1, <1>3, <1>4 DEF SlotsDone
<1>6. \A s : Closed(s) => Closed(s)'
  BY <1>1, <1>3 DEF Closed
<1>7. CASE handle = 0
  <2>1. ses' = ses
    BY <1>7 DEF DropHandle
  <2>2. UiInv'
    BY <1>1, <1>3, <1>5, <2>1 DEF RecorderInv, UiInv, Fresh
  <2>3. NoneRemoved' => NoneRemoved
    BY <1>1 DEF NoneRemoved
  <2>. QED
    BY <1>6, <2>1, <2>2, <2>3, UiStep
<1>8. CASE handle # 0
  <2>0. PICK s \in Sessions : s = handle
    BY <1>2, <1>8
  <2>. DEFINE yes == TRUE
              r == Moved(ses[s], ses[s].st, yes)
  <2>1. s \in Sessions /\ s = ui.session /\ SessionInv(ses[s]) /\ ses[s] \in Session
    BY <1>2, <1>8, <2>0 DEF RecorderInv, SessionsInv, SessionInv
  <2>2. ses' = [ses EXCEPT ![s] = r]
    BY <1>8, <2>0, <2>1 DEF DropHandle, Moved, Session, RecorderInv, SessionsInv
  <2>3. yes \in BOOLEAN
    OBVIOUS
  <2>. HIDE DEF yes
  <2>4. /\ SessionInv(r) /\ r.st = ses[s].st /\ r.queue = ses[s].queue
        /\ r.log = ses[s].log /\ r.accepted = ses[s].accepted
    BY <2>1, <2>3, StateKeeps
  <2>. HIDE DEF r
  <2>5. SessionsInv' /\ ses'[s] = r /\ \A q \in Sessions : q # s => ses'[q] = ses[q]
    BY <2>1, <2>2, <2>4, OneSession DEF RecorderInv
  <2>6. UiInv'
    <3>1. \A q \in Sessions : q > ui.session => ses'[q] = ses[q]
      BY <2>1, <2>5, RecorderAssumption DEF Sessions
    <3>. QED
      BY <1>1, <1>3, <1>5, <3>1 DEF RecorderInv, UiInv, Fresh
  <2>7. NoneRemoved => Closed(s)'
    <3>1. ASSUME NoneRemoved, NEW sl \in Slots PROVE slot[sl] = 0
      <4>1. source[sl] = "running" \/ source[sl] = "absent"
        BY <3>1 DEF NoneRemoved, RecorderInv, UiInv, SourceStates
      <4>. QED
        BY <1>4, <4>1 DEF RecorderInv, UiInv, Managed
    <3>2. s # 0 /\ slot' = slot /\ ui'.pc = "idle"
      BY <1>1, <1>3, <1>8, <2>0
    <3>3. ASSUME NoneRemoved PROVE \A sl \in Slots : slot'[sl] # s
      BY <3>1, <3>2, <3>3
    <3>4. ~(ui'.pc = "install" /\ ui'.session = s)
      BY <3>2
    <3>. QED
      BY <3>3, <3>4 DEF Closed
  <2>8. EndsClean'
    <3>. SUFFICES ASSUME NoneRemoved, NEW q \in Sessions
                  PROVE  /\ ses'[q].stop \/ ses'[q].st \in {"drain", "finish"} => Closed(q)'
                         /\ ses'[q].st = "finish" => ses'[q].queue = << >>
                         /\ ses'[q].st = "finished" => Len(ses'[q].log) = Len(ses'[q].accepted)
      BY <1>1 DEF EndsClean, NoneRemoved
    <3>1. CASE q = s
      <4>1. ses'[q] = r /\ Closed(q)'
        BY <2>5, <2>7, <3>1
      <4>2. /\ ses[s].st = "finish" => ses[s].queue = << >>
            /\ ses[s].st = "finished" => Len(ses[s].log) = Len(ses[s].accepted)
        BY <2>1 DEF RecorderInv, EndsClean
      <4>. QED
        BY <2>4, <4>1, <4>2
    <3>2. CASE q # s
      BY <1>6, <2>5, <3>2 DEF RecorderInv, EndsClean
    <3>. QED
      BY <3>1, <3>2
  <2>. QED
    BY <2>5, <2>6, <2>8 DEF RecorderInv
<1>. QED
  BY <1>7, <1>8

(* A new source starts with an empty slot; one that goes leaves its slot    *)
(* behind until its thread has seen the stop flag. *)
LEMMA SourceKeeps ==
  ASSUME RecorderInv, NEW sl \in Slots,
         AddSource(sl) \/ RemoveSource(sl) \/ ThreadExits(sl)
  PROVE  RecorderInv'
<1>1. UNCHANGED <<lock, ui, handle, ses, made>>
  BY DEF AddSource, RemoveSource, ThreadExits
<1>2. PICK st \in SourceStates :
         /\ source' = [source EXCEPT ![sl] = st]
         /\ st = "running" => source[sl] = "absent"
         /\ st # "running" => st \in {"stopped", "gone"}
         /\ source[sl] = "running" => ui.pc = "idle"
  BY DEF AddSource, RemoveSource, ThreadExits, SourceStates
<1>3. slot' = slot \/ slot' = [slot EXCEPT ![sl] = 0]
  BY DEF AddSource, RemoveSource, ThreadExits
<1>4. source \in [Slots -> SourceStates] /\ slot \in [Slots -> {0} \cup Sessions]
  BY DEF RecorderInv, UiInv
<1>5. /\ source' \in [Slots -> SourceStates] /\ source'[sl] = st
      /\ \A o \in Slots : o # sl => source'[o] = source[o]
  BY <1>2, <1>4
<1>6. /\ slot' \in [Slots -> {0} \cup Sessions] /\ slot'[sl] \in {0, slot[sl]}
      /\ \A o \in Slots : o # sl => slot'[o] = slot[o]
  BY <1>3, <1>4
<1>7. UiInv'
  <2>1. /\ Managed' \subseteq Managed \cup {sl} /\ Managed \ {sl} \subseteq Managed'
        /\ sl \in Managed' => slot'[sl] = 0
    BY <1>2, <1>5, <1>6 DEF Managed, RecorderInv, UiInv
  <2>2. SlotsDone'
    <3>. SUFFICES ASSUME NEW o \in Managed'
                  PROVE  /\ slot'[o] \in {0, ui.session}
                         /\ ui.pc = "idle" => slot'[o] \in {0, handle}
                         /\ ui.pc = "clear" /\ o \notin ui.todo => slot'[o] = 0
      BY <1>1 DEF SlotsDone
    <3>1. CASE o = sl
      BY <2>1, <3>1
    <3>2. CASE o # sl
      <4>1. o \in Managed /\ o \in Slots
        BY <2>1, <3>2 DEF Managed
      <4>. QED
        BY <1>6, <3>2, <4>1 DEF RecorderInv, UiInv, SlotsDone
    <3>. QED
      BY <3>1, <3>2
  <2>3. ui.todo \subseteq Managed'
    <3>1. sl \in ui.todo => ui.pc = "idle"
      BY <1>2 DEF RecorderInv, UiInv, Managed
    <3>. QED
      BY <2>1, <3>1 DEF RecorderInv, UiInv
  <2>4. \A o \in Slots : slot'[o] <= ui.session /\ (source'[o] = "absent" => slot'[o] = 0)
    <3>1. 0 <= ui.session
      BY DEF RecorderInv, UiInv, Sessions
    <3>2. st # "absent"
      BY <1>2
    <3>. QED
      BY <1>5, <1>6, <3>1, <3>2 DEF RecorderInv, UiInv
  <2>. QED
    BY <1>1, <1>5, <1>6, <2>2, <2>3, <2>4 DEF RecorderInv, UiInv, Fresh
<1>8. NoneRemoved' => NoneRemoved
  BY <1>2, <1>4, <1>5 DEF NoneRemoved, SourceStates
<1>9. \A s \in Sessions : Closed(s) => Closed(s)'
  <2>1. \A s \in Sessions : s # 0
    BY DEF Sessions
  <2>. QED
    BY <1>1, <1>6, <2>1 DEF Closed
<1>. QED
  BY <1>1, <1>7, <1>8, <1>9, UiStep
-----------------------------------------------------------------------------
LEMMA RecorderInit == ASSUME Init PROVE RecorderInv
<1>1. /\ 0 \in Nat /\ << >> \in Seq(Frame) /\ << >> \in Seq(Entry) /\ << >> \in Seq(Part)
      /\ Len(<< >>) = 0
  OBVIOUS
<1>2. Unknown \in [Topics -> Schemas \cup {Shared, NoSchema}]
  BY DEF Unknown
<1>3. ASSUME NEW s \in Sessions
      PROVE  /\ ses[s] \in Session /\ SessionInv(ses[s]) /\ Fresh(ses[s])
  <2>1. /\ ses[s].st = "none" /\ ses[s].queue = << >> /\ ses[s].accepted = << >>
        /\ ses[s].lost = 0 /\ ses[s].log = << >> /\ ses[s].parts = << >>
        /\ ses[s].known = Unknown /\ ~ses[s].stop
    BY <1>3 DEF Init
  <2>2. ses[s] \in Session
    BY <1>1, <1>2, <1>3 DEF Init, Session, RecorderStates
  <2>3. 0 <= QueueCap
    BY RecorderAssumption
  <2>4. Conserved(ses[s]) /\ EarlierFinal(ses[s]) /\ EntriesDeclared(ses[s])
    BY <1>1, <2>1 DEF Conserved, EarlierFinal, EntriesDeclared
  <2>. QED
    BY <1>1, <2>1, <2>2, <2>3, <2>4 DEF SessionInv, Writing, Fresh
<1>4. SessionsInv
  <2>1. ses \in [Sessions -> Session]
    BY <1>3 DEF Init
  <2>. QED
    BY <1>3, <2>1 DEF SessionsInv
<1>5. UiInv
  <2>1. /\ source \in [Slots -> SourceStates] /\ slot \in [Slots -> {0} \cup Sessions]
        /\ lock \in [Slots -> Writers \cup {Nobody}] /\ made \in Nat
    BY DEF Init, SourceStates
  <2>2. /\ ui \in [pc: UiPcs, session: {0} \cup Sessions, todo: SUBSET Slots]
        /\ ui.pc = "idle" /\ ui.session = 0 /\ ui.todo = {} /\ handle = 0
    BY DEF Init, UiPcs
  <2>3. \A sl \in Slots : slot[sl] = 0
    BY DEF Init
  <2>4. SlotsDone
    BY <2>2, <2>3 DEF SlotsDone, Managed
  <2>. QED
    BY <1>3, <2>1, <2>2, <2>3, <2>4 DEF UiInv
<1>6. EndsClean
  BY <1>3 DEF EndsClean, Fresh
<1>. QED
  BY <1>4, <1>5, <1>6 DEF RecorderInv

LEMMA RecorderStep == ASSUME RecorderInv, [Next]_vars PROVE RecorderInv'
<1>1. CASE Ui
  BY <1>1, StartKeeps, SpawnKeeps, StopKeeps, DropKeeps, SlotKeeps, SourceKeeps DEF Ui
<1>2. CASE \E w \in Writers : Writer(w)
  BY <1>2, WriterKeeps
<1>3. CASE \E s \in Sessions : Thread(s)
  BY <1>3, ThreadKeeps
<1>4. CASE \E sl \in Slots : ThreadExits(sl)
  BY <1>4, SourceKeeps
<1>5. CASE UNCHANGED vars
  BY <1>5, LockStep DEF vars, RecorderInv, UiInv
<1>. QED
  BY <1>1, <1>2, <1>3, <1>4, <1>5 DEF Next

(* The inductive invariant holds of every behaviour. *)
LEMMA RecorderInvariant == Spec => []RecorderInv
<1>1. Init => RecorderInv
  BY RecorderInit
<1>2. RecorderInv /\ [Next]_vars => RecorderInv'
  BY RecorderStep
<1>. QED
  BY <1>1, <1>2, PTL DEF Spec
-----------------------------------------------------------------------------
(* The UI, the slots and the sessions keep their types, and no queue ever   *)
(* holds more than QUEUE_CAP frames. *)
THEOREM RecorderTypeCorrect == Spec => []TypeOK
<1>1. RecorderInv => TypeOK
  <2>. SUFFICES ASSUME RecorderInv PROVE TypeOK
    OBVIOUS
  <2>1. {0} \cup Sessions \subseteq Nat
    BY DEF Sessions
  <2>2. ui \in [pc: UiPcs, session: Nat, todo: SUBSET Slots] /\ handle \in {0} \cup Sessions
    BY <2>1 DEF RecorderInv, UiInv
  <2>. QED
    BY <2>2 DEF RecorderInv, UiInv, SessionsInv, SessionInv, TypeOK
<1>. QED
  BY <1>1, RecorderInvariant, PTL

(* For any number of sources and writers, any queue and any schedule of     *)
(* stops, failures and part rotations: what a recorder took and what is     *)
(* still queued are, in order, exactly what its queue accepted.             *)
THEOREM NothingLostOrRepeated == Spec => []Conservation
<1>1. RecorderInv => Conservation
  BY DEF RecorderInv, SessionsInv, SessionInv, Conserved, Conservation, Receiving
<1>. QED
  BY <1>1, RecorderInvariant, PTL

(* Every part of a recording, but the one being written, is a complete file *)
(* that declares every channel its messages refer to.                       *)
THEOREM PartsStandAlone == Spec => []PartsReadable
<1>1. RecorderInv => PartsReadable
  <2>. SUFFICES ASSUME RecorderInv PROVE PartsFinal /\ PartsSelfContained
    BY DEF PartsReadable
  <2>1. PartsFinal
    BY DEF RecorderInv, SessionsInv, SessionInv, EarlierFinal, PartsFinal
  <2>2. PartsSelfContained
    BY DEF RecorderInv, SessionsInv, SessionInv, EntriesDeclared, PartsSelfContained
  <2>. QED
    BY <2>1, <2>2
<1>. QED
  BY <1>1, RecorderInvariant, PTL

(* The senders follow the record handle through every start and stop, and   *)
(* unless a source was removed, a session that ends well holds every frame  *)
(* its queue accepted.                                                      *)
THEOREM StoppingIsClean == Spec => []StopIsClean
<1>1. RecorderInv => StopIsClean
  BY DEF RecorderInv, UiInv, SlotsDone, EndsClean, NoneRemoved, StopIsClean,
         SlotsFollowHandle, FinishedIsComplete, DrainsAll
<1>. QED
  BY <1>1, RecorderInvariant, PTL
-----------------------------------------------------------------------------
(* What the recorder relies on and does not check: the frames of a topic    *)
(* that bring a schema of their own all bring the same one.                 *)
OneSchemaPerTopic ==
  \A w, v \in Writers : \A f \in FramesOf[w], g \in FramesOf[v] :
    f[1] = g[1] /\ f[2] # Shared /\ g[2] # Shared => f[2] = g[2]

Offered(topic, schema) == \E w \in Writers : <<topic, schema>> \in FramesOf[w]

(* Queued frames and known channels are ones that a writer offers, and what *)
(* was written is under its own schema. *)
OwnSchemas(r) ==
  /\ \A i \in 1..Len(r.queue) : Offered(r.queue[i].topic, r.queue[i].schema)
  /\ \A t \in Topics : r.known[t] # NoSchema =>
       r.known[t] # Shared /\ Offered(t, r.known[t])
  /\ \A i \in 1..Len(r.log) : r.log[i].part # 0 => r.log[i].schema = r.log[i].frame.schema

SchemasInv == \A s \in Sessions : OwnSchemas(ses[s])

SameFrames(r, w) ==
  w.log = r.log /\ w.known \in {r.known, Unknown} /\ w.queue \in {r.queue, << >>}

LEMMA SameKeepsSchemas ==
  ASSUME NEW r, NEW w, SameFrames(r, w), OwnSchemas(r)
  PROVE  OwnSchemas(w)
BY DEF SameFrames, OwnSchemas, Unknown

(* A channel the recorder knows is one that a writer of the same topic      *)
(* declared, hence with the schema of this frame. *)
LEMMA WroteKeepsSchemas ==
  ASSUME OneSchemaPerTopic, NEW r \in Session, r.queue # << >>, r.parts # << >>,
         OwnSchemas(r)
  PROVE  OwnSchemas(Wrote(r))
<1>. DEFINE w == Wrote(r)
            f == First(r)
            schema == FirstSchema(r)
            e == FirstEntry(r)
<1>1. /\ f \in Frame /\ f = r.queue[1] /\ Len(r.queue) \in Nat \ {0}
      /\ Len(Tail(r.queue)) = Len(r.queue) - 1
      /\ \A i \in 1..Len(Tail(r.queue)) : Tail(r.queue)[i] = r.queue[i + 1]
  BY DEF Session, First
<1>2. f.topic \in Topics /\ Offered(f.topic, f.schema)
  BY <1>1 DEF Frame, OwnSchemas
<1>3. schema \in {NoSchema, f.schema}
  <2>1. CASE f.schema = Shared
    BY <2>1 DEF FirstSchema, SchemaFor
  <2>2. CASE f.schema # Shared /\ r.known[f.topic] = NoSchema
    BY <2>2 DEF FirstSchema, SchemaFor
  <2>3. CASE f.schema # Shared /\ r.known[f.topic] # NoSchema
    <3>. DEFINE k == r.known[f.topic]
    <3>1. schema = k
      BY <2>3 DEF FirstSchema, SchemaFor
    <3>2. k # Shared /\ Offered(f.topic, k)
      BY <1>2, <2>3 DEF OwnSchemas
    <3>. HIDE DEF k
    <3>. QED
      BY <1>2, <2>3, <3>1, <3>2 DEF Offered, OneSchemaPerTopic
  <2>. QED
    BY <2>1, <2>2, <2>3
<1>4. /\ w.queue = Tail(r.queue) /\ w.log = Append(r.log, e) /\ e \in Entry
      /\ w.known = IF f.schema = Shared THEN r.known ELSE [r.known EXCEPT ![f.topic] = schema]
  BY WroteFields
<1>5. e.part # 0 => e.schema = e.frame.schema
  BY <1>3 DEF FirstEntry
<1>. HIDE DEF w, f, schema, e
<1>6. \A i \in 1..Len(w.queue) : Offered(w.queue[i].topic, w.queue[i].schema)
  BY <1>1, <1>4 DEF OwnSchemas
<1>7. \A t \in Topics : w.known[t] # NoSchema => w.known[t] # Shared /\ Offered(t, w.known[t])
  BY <1>2, <1>3, <1>4 DEF OwnSchemas, Session
<1>8. \A i \in 1..Len(w.log) : w.log[i].part # 0 => w.log[i].schema = w.log[i].frame.schema
  BY <1>4, <1>5 DEF OwnSchemas, Session
<1>. QED
  BY <1>6, <1>7, <1>8 DEF OwnSchemas, w

LEMMA EnqueueKeepsSchemas ==
  ASSUME NEW r \in Session, NEW f \in Frame, Offered(f.topic, f.schema), OwnSchemas(r)
  PROVE  OwnSchemas(Enqueue(r, f))
<1>. DEFINE w == Enqueue(r, f)
<1>1. w.queue = Append(r.queue, f) /\ w.log = r.log /\ w.known = r.known
  BY DEF Enqueue, Session
<1>2. \A i \in 1..Len(w.queue) : Offered(w.queue[i].topic, w.queue[i].schema)
  BY <1>1 DEF OwnSchemas, Session
<1>. QED
  BY <1>1, <1>2 DEF OwnSchemas

LEMMA ThreadKeepsSchemas ==
  ASSUME OneSchemaPerTopic, RecorderInv, SchemasInv, NEW s \in Sessions, Thread(s)
  PROVE  SchemasInv'
<1>. DEFINE r == ses[s]
<1>1. /\ SessionInv(r) /\ r \in Session /\ OwnSchemas(r) /\ ses \in [Sessions -> Session]
  BY DEF RecorderInv, SessionsInv, SessionInv, SchemasInv
<1>2. ASSUME HasFrame(s, {"select", "drain"})
      PROVE  OwnSchemas(Wrote(r)) /\ Wrote(r) \in Session
  <2>1. r.queue # << >> /\ r.parts # << >>
    BY <1>1, <1>2 DEF HasFrame, SessionInv
  <2>. QED
    BY <1>1, <2>1, WroteKeepsSchemas, WroteFields
<1>3. ASSUME NEW v, OwnSchemas(v), NEW w, SameFrames(v, w), Becomes(s, w)
      PROVE  SchemasInv'
  <2>1. OwnSchemas(w)
    BY <1>3, SameKeepsSchemas
  <2>2. ses' = [ses EXCEPT ![s] = w]
    BY <1>3 DEF Becomes
  <2>. QED
    BY <1>1, <2>1, <2>2 DEF SchemasInv
<1>. HIDE DEF r
<1>4. \A w : SameFrames(w, w)
  BY DEF SameFrames
<1>5. ASSUME NEW w \in Session, NEW final \in BOOLEAN PROVE SameFrames(w, Failed(w, final))
  BY DEF SameFrames, Failed, Session
<1>6. CASE WriteFrame(s)
  BY <1>2, <1>3, <1>4, <1>6 DEF WriteFrame, r
<1>7. CASE WriteAndRotate(s)
  <2>1. OwnSchemas(Wrote(r)) /\ Wrote(r) \in Session /\ Becomes(s, Rotated(Wrote(r)))
    BY <1>2, <1>7 DEF WriteAndRotate, r
  <2>2. SameFrames(Wrote(r), Rotated(Wrote(r)))
    BY <2>1 DEF SameFrames, Rotated, Session
  <2>. QED
    BY <1>3, <2>1, <2>2
<1>8. CASE WriteFails(s)
  <2>1. PICK final \in BOOLEAN, v \in {r, Wrote(r)} : Becomes(s, Failed(v, final))
    BY <1>8 DEF WriteFails, r
  <2>2. OwnSchemas(v) /\ v \in Session
    BY <1>1, <1>2, <1>8 DEF WriteFails
  <2>3. SameFrames(v, Failed(v, final))
    BY <1>5, <2>2
  <2>. QED
    BY <1>3, <2>1, <2>2, <2>3
<1>9. CASE LeaveSelect(s) \/ LeaveDrain(s)
  <2>1. PICK w \in {[r EXCEPT !.st = "drain", !.stop = FALSE], [r EXCEPT !.st = "finish"]} :
          Becomes(s, w)
    BY <1>9 DEF LeaveSelect, LeaveDrain, r
  <2>2. SameFrames(r, w)
    BY <1>1, <2>1 DEF SameFrames, Session
  <2>. QED
    BY <1>1, <1>3, <2>1, <2>2
<1>10. CASE Finish(s)
  <2>. DEFINE x == [r EXCEPT !.st = "finished", !.queue = << >>,
                             !.parts[Len(r.parts)].final = TRUE]
  <2>1. Becomes(s, x) \/ \E final \in BOOLEAN : Becomes(s, Failed(r, final))
    BY <1>10 DEF Finish, r
  <2>2. SameFrames(r, x)
    BY <1>1 DEF SameFrames, Session
  <2>. HIDE DEF x
  <2>. QED
    BY <1>1, <1>3, <1>5, <2>1, <2>2
<1>. QED
  BY <1>6, <1>7, <1>8, <1>9, <1>10 DEF Thread

LEMMA WriterKeepsSchemas ==
  ASSUME RecorderInv, SchemasInv, NEW w \in Writers, Writer(w)
  PROVE  SchemasInv'
<1>. DEFINE s == slot[SlotOf[w]]
<1>1. /\ SlotOf[w] \in Slots /\ s \in {0} \cup Sessions /\ made \in Nat
      /\ ses \in [Sessions -> Session] /\ \A q \in Sessions : OwnSchemas(ses[q])
  BY RecorderAssumption DEF RecorderInv, SessionsInv, UiInv, SchemasInv
<1>2. CASE ses' = ses
  BY <1>2 DEF SchemasInv
<1>3. ASSUME NEW r, s # 0, ses' = [ses EXCEPT ![s] = r], OwnSchemas(r)
      PROVE  SchemasInv'
  BY <1>1, <1>3 DEF SchemasInv
<1>4. ASSUME s # 0 PROVE OwnSchemas(Lose(ses[s]))
  <2>1. OwnSchemas(ses[s]) /\ ses[s] \in Session
    BY <1>1, <1>4
  <2>2. SameFrames(ses[s], Lose(ses[s]))
    BY <2>1 DEF SameFrames, Lose, Session
  <2>. QED
    BY <2>1, <2>2, SameKeepsSchemas
<1>5. ASSUME NEW f \in FramesOf[w], Send(w, f) PROVE SchemasInv'
  <2>. DEFINE frame == [id |-> made, topic |-> f[1], schema |-> f[2]]
  <2>1. frame \in Frame /\ Offered(frame.topic, frame.schema)
    <3>1. f \in Topics \X (Schemas \cup {Shared})
      BY RecorderAssumption
    <3>2. f = <<f[1], f[2]>>
      BY <3>1
    <3>. QED
      BY <1>1, <3>1, <3>2 DEF Frame, Offered
  <2>. HIDE DEF frame
  <2>2. s # 0 /\ (\/ ses' = [ses EXCEPT ![s] = Enqueue(ses[s], frame)]
                  \/ ses' = [ses EXCEPT ![s] = Lose(ses[s])])
    BY <1>5, Zenon DEF Send, frame
  <2>3. OwnSchemas(Enqueue(ses[s], frame))
    BY <1>1, <2>1, <2>2, EnqueueKeepsSchemas
  <2>. QED
    BY <1>3, <1>4, <2>2, <2>3
<1>6. CASE Contended(w)
  BY <1>3, <1>4, <1>6 DEF Contended
<1>. QED
  BY <1>2, <1>5, <1>6 DEF Writer, Lock, Unlock

LEMMA UiKeepsSchemas == ASSUME RecorderInv, SchemasInv, Ui PROVE SchemasInv'
<1>1. /\ ses \in [Sessions -> Session] /\ \A q \in Sessions : OwnSchemas(ses[q])
  BY DEF RecorderInv, SessionsInv, SchemasInv
<1>2. \A q \in Sessions : SameFrames(ses[q], ses'[q])
  <2>. SUFFICES ASSUME NEW q \in Sessions, ses[q] \in Session
                PROVE  SameFrames(ses[q], ses'[q])
    BY <1>1
  <2>1. CASE StartRecording
    BY <1>1, <2>1 DEF StartRecording, SameFrames, Session
  <2>2. CASE Spawn
    BY <1>1, <2>2 DEF Spawn, SameFrames, Session
  <2>3. CASE SpawnFails
    BY <1>1, <2>3 DEF SpawnFails, SameFrames, Session
  <2>4. CASE DropHandle
    BY <1>1, <2>4 DEF DropHandle, SameFrames, Session
  <2>5. CASE ses' = ses
    BY <2>5 DEF SameFrames
  <2>. QED
    BY <2>1, <2>2, <2>3, <2>4, <2>5
    DEF Ui, StopRecording, InstallSlot, ClearSlot, AddSource, RemoveSource
<1>. QED
  BY <1>1, <1>2, SameKeepsSchemas DEF SchemasInv

LEMMA SchemasStep ==
  ASSUME OneSchemaPerTopic, RecorderInv, SchemasInv, [Next]_vars
  PROVE  SchemasInv'
<1>1. CASE Ui
  BY <1>1, UiKeepsSchemas
<1>2. CASE \E w \in Writers : Writer(w)
  BY <1>2, WriterKeepsSchemas
<1>3. CASE \E s \in Sessions : Thread(s)
  BY <1>3, ThreadKeepsSchemas
<1>4. CASE ses' = ses
  BY <1>4 DEF SchemasInv
<1>. QED
  BY <1>1, <1>2, <1>3, <1>4 DEF Next, ThreadExits, vars

(* Where all frames of a topic that bring a schema bring the same one,      *)
(* every part of a recording can be decoded by itself, each message under   *)
(* the schema it was sent with, through every rotation and failure.         *)
THEOREM PartsCanBeDecoded ==
  ASSUME OneSchemaPerTopic
  PROVE  Spec => []PartsDecodable
<1>1. Init => SchemasInv
  <2>. SUFFICES ASSUME Init, NEW s \in Sessions PROVE OwnSchemas(ses[s])
    BY DEF SchemasInv
  <2>1. /\ ses[s].queue = << >> /\ ses[s].log = << >> /\ ses[s].known = Unknown
    BY DEF Init
  <2>. QED
    BY <2>1 DEF OwnSchemas, Unknown
<1>2. RecorderInv /\ SchemasInv /\ [Next]_vars => SchemasInv'
  BY SchemasStep
<1>3. SchemasInv => OwnSchema
  BY DEF SchemasInv, OwnSchemas, OwnSchema
<1>. QED
  BY <1>1, <1>2, <1>3, RecorderInvariant, PartsStandAlone, PTL DEF Spec, PartsDecodable
=============================================================================
