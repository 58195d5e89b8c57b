----------------------------- MODULE RingBounds -----------------------------
(* The ring that is modelled (SoaRing), and the pushes and reads tried.      *)
EXTENDS Naturals

CONSTANTS
  Producers,  \* threads that call push; the ring is made for one
  Cap,        \* capacity
  Margin,     \* cap / 8: slots kept clear of the write position
  Reordered,  \* samples whose slot store may overtake the store of head
  TsOf,       \* timestamp of each sample; samples are 0, 1, 2, ... as made
  MaxPush,    \* bound: samples made
  Ops         \* the reads tried: [kind, start, end, max] records

ASSUME RingAssumption ==
  /\ Cap \in Nat \ {0}
  /\ Margin \in 1..(Cap - 1)
  /\ MaxPush \in Nat /\ Reordered \in 0..MaxPush
  /\ TsOf \in [0..MaxPush -> Nat]
  /\ Ops \subseteq [kind: {"latest", "recent", "window"}, start: Nat, end: Nat, max: Nat]
  /\ Ops # {}
=============================================================================
