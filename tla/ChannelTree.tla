----------------------------- MODULE ChannelTree ----------------------------
(***************************************************************************)
(* The tree of channels in the side panel: which names it lists and in     *)
(* what order, which of them are selected, and what a drag carries.        *)
(*                                                                         *)
(* The tree has a copy of the registry's names, refreshed when a frame     *)
(* finds the registry longer; topics that are not registered come after    *)
(* them, by name. A name is a group and a label: deeper groups nest alike. *)
(* A click is handled at the end of the frame it is made in.               *)
(***************************************************************************)
EXTENDS Integers, Sequences, SequencesExt, FiniteSetsExt, Sublists

CONSTANTS
  Initial,  \* names of the configuration file, as registered
  Sorted,   \* every other name, in alphabetical order
  Alone,    \* the group of a name without one
  None

VARIABLES
  registry, \* names in the order they were registered
  topics,   \* names of mqtt_snapshot
  listed,   \* ChannelTree.names
  selected, anchor,
  saved     \* the tree of the live view, while a recording is shown

tree == <<listed, selected, anchor>>
vars == <<registry, topics, tree, saved>>

(* With a slip: the tree is filled once. *)
ListedOnce == listed

(* sync *)
Listed == IF Len(registry) = Len(listed) THEN listed ELSE registry

(* With a slip: every topic is listed. *)
AssembledAll == Listed \o Picked(Sorted, {i \in DOMAIN Sorted : Sorted[i] \in topics})

(* assemble: the registered names, then the topics that are none of them.   *)
Assembled ==
  Listed \o Picked(Sorted, {i \in DOMAIN Sorted : Sorted[i] \in topics \ ToSet(Listed)})

(* A name is drawn with its group, which stands where its first name does.  *)
First(names, k) ==
  IF names[k].group = Alone THEN k ELSE Min({j \in 1..k : names[j].group = names[k].group})

flat_leaf_order ==
  LET names == Assembled
  IN Arranged(names, [k \in DOMAIN names |-> First(names, k) * Len(names) + k])

Kept == selected \intersect ToSet(flat_leaf_order)

At(order, n) == CHOOSE k \in DOMAIN order : order[k] = n

range_between(order, a, b) ==
  IF {a, b} \subseteq ToSet(order)
  THEN LET i == At(order, a)
           j == At(order, b)
       IN {order[k] : k \in (i .. j) \union (j .. i)}
  ELSE {}

(* With a slip: what is dragged is in the order of registration. *)
drag_payload_listed(n, order) ==
  LET names == Assembled
  IN IF n \in Kept THEN Picked(names, {k \in DOMAIN names : names[k] \in Kept}) ELSE <<n>>

drag_payload(n, order) ==
  IF n \in Kept THEN Picked(order, {k \in DOMAIN order : order[k] \in Kept}) ELSE <<n>>

-----------------------------------------------------------------------------
Init ==
  /\ registry = Initial /\ listed = Initial
  /\ topics = {} /\ selected = {} /\ anchor = None /\ saved = None

Known(n) == n \in ToSet(registry)

Discover(n) ==
  /\ ~Known(n)
  /\ topics' = topics \union {n}
  /\ UNCHANGED <<registry, tree, saved>>

(* A script output, a topic that was dropped, a channel of a recording.     *)
Register(n) ==
  /\ ~Known(n)
  /\ registry' = Append(registry, n)
  /\ UNCHANGED <<topics, tree, saved>>

(* apply_click *)
ClickRange(n, toggle, range) ==
  /\ range # {}
  /\ selected' = range \union IF toggle THEN Kept ELSE {}
  /\ UNCHANGED anchor

ClickOne(n, toggle) ==
  /\ selected' = IF toggle THEN SymDiff(Kept, {n}) ELSE {n}
  /\ anchor' = n

Click(n, toggle, shift) ==
  LET order == flat_leaf_order
      range == IF shift /\ anchor # None THEN range_between(order, anchor, n) ELSE {}
  IN /\ n \in ToSet(order)
     /\ \/ ClickRange(n, toggle, range)
        \/ range = {} /\ ClickOne(n, toggle)
     /\ listed' = Listed
     /\ UNCHANGED <<registry, topics, saved>>

(* A recording replaces the tree, and closing it brings the old one back.   *)
OpenReplay ==
  /\ saved = None
  /\ saved' = [listed |-> listed, selected |-> selected, anchor |-> anchor]
  /\ listed' = registry /\ selected' = {} /\ anchor' = None
  /\ UNCHANGED <<registry, topics>>

CloseReplay ==
  /\ saved # None
  /\ listed' = saved.listed /\ selected' = saved.selected /\ anchor' = saved.anchor
  /\ saved' = None
  /\ UNCHANGED <<registry, topics>>

Next ==
  \/ \E n \in ToSet(Sorted) : Discover(n) \/ Register(n)
  \/ \E n \in ToSet(Sorted \o Initial), toggle, shift \in BOOLEAN : Click(n, toggle, shift)
  \/ OpenReplay \/ CloseReplay

-----------------------------------------------------------------------------
(* Properties. *)

(* A frame lists every registered name and every topic, each once, with the *)
(* names of a group together. *)
TreeListsChannels ==
  LET order == flat_leaf_order
  IN /\ ToSet(order) = ToSet(registry) \union topics
     /\ IsInjective(order)
     /\ \A i, j \in DOMAIN order :
          order[i].group = order[j].group /\ order[i].group # Alone =>
            \A k \in i .. j : order[k].group = order[i].group

(* A drag carries what is highlighted if it starts there, in the order of   *)
(* the tree, or else the one name it starts from. *)
PayloadIsShown ==
  LET order == flat_leaf_order
  IN \A n \in ToSet(order) :
       LET p == drag_payload(n, order)
       IN /\ ToSet(p) = IF n \in selected THEN selected ELSE {n}
          /\ \A i, j \in DOMAIN p : i < j => At(order, p[i]) < At(order, p[j])
=============================================================================
