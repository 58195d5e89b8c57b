----------------------------- MODULE SampleLog -----------------------------
(***************************************************************************)
(* What a numeric channel promises its readers, with no ring in sight: the *)
(* samples pushed so far form a log, and a read returns what it would have *)
(* returned had it run at one instant between its call and its return, on  *)
(* the newest Visible samples of the log at that instant.                  *)
(*                                                                         *)
(* A sample is a number, its place in the order of pushes; TsOf gives its  *)
(* timestamp.                                                              *)
(***************************************************************************)
EXTENDS Naturals, Sequences

CONSTANTS TsOf,     \* timestamp of each sample
          Visible,  \* samples a read is guaranteed to see
          Ops       \* the reads: [kind, start, end, max] records

None == [samples |-> << >>, ts |-> << >>]

Limit(a, b) == IF a < b THEN a ELSE b

(* The newest n entries of a sequence, or all of them. *)
Newest(s, n) == SubSeq(s, Len(s) - Limit(n, Len(s)) + 1, Len(s))

Stamps(s) == [i \in DOMAIN s |-> TsOf[s[i]]]

(* The first entry of s, from place i on, that is not before t; one past    *)
(* the end when there is none. *)
FirstFrom(s, i, t) ==
  CHOOSE n \in i..(Len(s) + 1) :
    /\ \A m \in i..(n - 1) : TsOf[s[m]] < t
    /\ n <= Len(s) => t <= TsOf[s[n]]

(* The answer of a read over the log s. *)
Answer(s, op) ==
  LET seen == Newest(s, Visible)
      first == FirstFrom(seen, 1, op.start)
      hits == SubSeq(seen, first, FirstFrom(seen, first, op.end) - 1)
  IN CASE op.kind = "latest" -> [samples |-> Newest(s, 1), ts |-> Stamps(Newest(s, 1))]
       [] op.kind = "recent" -> [samples |-> << >>, ts |-> Stamps(Newest(seen, op.max))]
       [] op.kind = "window" -> [samples |-> hits, ts |-> Stamps(hits)]

VARIABLES
  log,      \* samples in the order they were pushed
  calling,  \* a read is in progress
  op,       \* the read in progress, or the last one
  calledAt, \* length of the log when it was called
  answer    \* what the last read returned

absVars == <<log, calling, op, calledAt, answer>>

Init ==
  /\ log = << >> /\ calling = FALSE
  /\ op \in Ops /\ calledAt = 0 /\ answer = None

Push ==
  /\ log' = Append(log, Len(log))
  /\ UNCHANGED <<calling, op, calledAt, answer>>

Call ==
  /\ ~calling /\ calling' = TRUE
  /\ op' \in Ops
  /\ calledAt' = Len(log)
  /\ answer' = None
  /\ UNCHANGED log

(* The instant the answer speaks of lies within the call. *)
Return ==
  /\ calling /\ calling' = FALSE
  /\ \E n \in calledAt..Len(log) : answer' = Answer(SubSeq(log, 1, n), op)
  /\ UNCHANGED <<log, op, calledAt>>

Next == Push \/ Call \/ Return

Spec == Init /\ [][Next]_absVars
=============================================================================
