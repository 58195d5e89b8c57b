------------------------------- MODULE Sublists ------------------------------
(***************************************************************************)
(* Sequences made of the elements of another, in an order given by keys.   *)
(* What SelectSeq and SortSeq say, in a form that can be reasoned about.   *)
(***************************************************************************)
EXTENDS Naturals, FiniteSets

(* How many of the places have no greater key than k has. *)
Rank(key, k) == Cardinality({j \in DOMAIN key : key[j] <= key[k]})

(* The elements of s at the places that have a key, by their keys. *)
Arranged(s, key) ==
  [r \in 1..Cardinality(DOMAIN key) |-> s[CHOOSE k \in DOMAIN key : Rank(key, k) = r]]

(* The elements of s at the places `at`, in the order of s. *)
Picked(s, at) == Arranged(s, [k \in at |-> k])
=============================================================================
