------------------------------ MODULE TextStore ------------------------------
(***************************************************************************)
(* Text channels of the live store (src/store/live.rs, text.rs). A channel *)
(* found at run time keeps codes in a sample ring and the strings in a     *)
(* codec; a declared one keeps its last lines in a locked buffer. One      *)
(* source writes, and two panels read: a badge that shows the newest text  *)
(* and a state graph that shows a window.                                  *)
(*                                                                         *)
(* Reads of the ring are those of SoaRing: each returns what an append-only*)
(* log would at one instant.                                               *)
(***************************************************************************)
EXTENDS Integers, Sequences, SequencesExt, FiniteSetsExt

CONSTANTS
  Texts,
  MaxLines,  \* max_lines of the declared channel
  MaxPushed, \* bound: samples followed
  None,
  NoText     \* the label of a code that has none

VARIABLES
  pushed,  \* history: the texts written, with the one being written
  labels,  \* TextCodec.labels; to_code is its inverse
  ring,    \* codes
  lines,   \* TextBuf
  writing, \* the text the source is writing, with its code once it has one
  badge,   \* latest_at: the sample it read, then the text it shows
  graph    \* rendering: the labels read, then the codes

vars == <<pushed, labels, ring, lines, writing, badge, graph>>

TypeOK ==
  /\ pushed \in Seq(Texts) /\ lines \in Seq(Texts) /\ Len(lines) <= MaxLines
  /\ ring \in Seq(0..Len(labels)) /\ labels \in Seq(Texts)

Init ==
  /\ pushed = <<>> /\ labels = <<>> /\ ring = <<>> /\ lines = <<>>
  /\ writing = None /\ badge = None /\ graph = None

(* slot_from_meta: max_lines is at least 1. *)
Appended(s, t) ==
  IF Len(s) = MaxLines THEN Append(Tail(s), t) ELSE Append(s, t)

-----------------------------------------------------------------------------
(* write_text. Codes count from 0. *)

intern(t) ==
  IF Contains(labels, t)
  THEN [code |-> (CHOOSE i \in 1..Len(labels) : labels[i] = t) - 1, labels |-> labels]
  ELSE [code |-> Len(labels), labels |-> Append(labels, t)]

(* The buffer's push is one locked step.                                    *)
StartWrite ==
  /\ writing = None /\ Len(pushed) < MaxPushed
  /\ \E t \in Texts :
       /\ pushed' = Append(pushed, t)
       /\ writing' = [text |-> t, code |-> None]
       /\ lines' = Appended(lines, t)
  /\ UNCHANGED <<labels, ring, badge, graph>>

(* A code taken and stored before its text is in the table. *)
WriteStepPushFirst ==
  /\ writing # None
  /\ IF writing.code = None
     THEN LET c == intern(writing.text) IN
            ring' = Append(ring, c.code) /\ writing' = [writing EXCEPT !.code = c.code]
            /\ UNCHANGED labels
     ELSE labels' = intern(writing.text).labels /\ writing' = None /\ UNCHANGED ring
  /\ UNCHANGED <<pushed, lines, badge, graph>>

(* The codec's lock is held for intern and released before the push.        *)
WriteStep ==
  /\ writing # None
  /\ IF writing.code = None
     THEN LET c == intern(writing.text) IN
            /\ labels' = c.labels /\ writing' = [writing EXCEPT !.code = c.code]
            /\ UNCHANGED ring
     ELSE ring' = Append(ring, writing.code) /\ writing' = None /\ UNCHANGED labels
  /\ UNCHANGED <<pushed, lines, badge, graph>>

-----------------------------------------------------------------------------
(* latest and latest_at: the code, then its label under the codec's lock.   *)

LabelOf(ls, code) == IF code + 1 \in DOMAIN ls THEN ls[code + 1] ELSE NoText

(* A badge whose view is scrubbed back reads an earlier code.               *)
BadgeReads ==
  /\ badge = None
  /\ \E i \in DOMAIN ring : badge' = [at |-> i, shows |-> None]
  /\ UNCHANGED <<pushed, labels, ring, lines, writing, graph>>

BadgeShows ==
  /\ badge # None /\ badge.shows = None
  /\ badge' = [badge EXCEPT !.shows = LabelOf(labels, ring[badge.at])]
  /\ UNCHANGED <<pushed, labels, ring, lines, writing, graph>>

BadgeDone ==
  /\ badge # None /\ badge.shows # None
  /\ badge' = None
  /\ UNCHANGED <<pushed, labels, ring, lines, writing, graph>>

-----------------------------------------------------------------------------
(* The state graph asks for the labels before it takes the snapshot, and    *)
(* draws a code that has none as a number. *)

GraphLabels ==
  /\ graph = None
  /\ graph' = [labels |-> labels, codes |-> None]
  /\ UNCHANGED <<pushed, labels, ring, lines, writing, badge>>

GraphCodes ==
  /\ graph # None /\ graph.codes = None
  /\ graph' = [graph EXCEPT !.codes = ring]
  /\ UNCHANGED <<pushed, labels, ring, lines, writing, badge>>

GraphDone ==
  /\ graph # None /\ graph.codes # None
  /\ graph' = None
  /\ UNCHANGED <<pushed, labels, ring, lines, writing, badge>>

Next ==
  \/ StartWrite \/ WriteStep
  \/ BadgeReads \/ BadgeShows \/ BadgeDone
  \/ GraphLabels \/ GraphCodes \/ GraphDone

Spec == Init /\ [][Next]_vars

-----------------------------------------------------------------------------
(* Properties. *)

(* A badge shows the text that was written, never a code without a text,    *)
(* although it looks the text up after it read the code, and the declared   *)
(* channel holds the newest lines, no more. *)
TextShownAsWritten ==
  /\ badge # None /\ badge.shows # None => badge.shows = pushed[badge.at]
  /\ \A i \in DOMAIN lines : lines[i] = pushed[Len(pushed) - Len(lines) + i]
  /\ Len(lines) = Min({Len(pushed), MaxLines})

(* A state graph has the label of every code it draws. *)
GraphKnowsLabels ==
  graph # None /\ graph.codes # None =>
    \A i \in DOMAIN graph.codes : LabelOf(graph.labels, graph.codes[i]) # NoText
=============================================================================
