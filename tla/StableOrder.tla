---------------------------- MODULE StableOrder -----------------------------
(***************************************************************************)
(* std::stable_sort by the keys of the elements: the place of an element   *)
(* is behind those it must follow.  std::sort of numbers is the case in    *)
(* which the elements are their own keys.                                  *)
(***************************************************************************)
EXTENDS Naturals, FiniteSets

ComesBefore(keys, a, b) == keys[a] < keys[b] \/ (keys[a] = keys[b] /\ a < b)

SortedPlace(keys, b) == 1 + Cardinality({a \in DOMAIN keys : ComesBefore(keys, a, b)})

StableSort(s, keys) ==
  LET place == [b \in DOMAIN s |-> SortedPlace(keys, b)]
  IN [n \in DOMAIN s |-> s[CHOOSE b \in DOMAIN s : place[b] = n]]

=============================================================================
