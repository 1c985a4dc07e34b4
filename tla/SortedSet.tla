------------------------------- MODULE SortedSet -------------------------------
(***************************************************************************)
(* What a btree_set promises: a set whose elements are in order.           *)
(***************************************************************************)
EXTENDS Integers, FiniteSetsExt

CONSTANTS Keys, NoKey   \* NoKey: what an iterator at the end has

VARIABLES items,   \* the elements
          result   \* what the last operation returned

Init == items = {} /\ result = [key |-> NoKey, done |-> 0]

(* The element at or behind a key, or the end.                             *)
From(key, S) == IF \E x \in S : x >= key THEN Min({x \in S : x >= key}) ELSE NoKey

Insert(key) ==
  /\ items' = items \cup {key}
  /\ result' = [key |-> key, done |-> IF key \in items THEN 0 ELSE 1]

(* The elements from low on that are less than high go; what follows them  *)
(* is returned.                                                            *)
EraseRange(low, high) ==
  LET gone == {x \in items : low <= x /\ x < high}
  IN  /\ items' = items \ gone
      /\ result' = [key |-> From(low, items'), done |-> Cardinality(gone)]

Erase(key) == key \in items /\ EraseRange(key, key + 1)

EraseAbsent(key) ==
  /\ key \notin items
  /\ result' = [key |-> NoKey, done |-> 0]
  /\ UNCHANGED items

(* A copy has what the original has.                                       *)
Copy == UNCHANGED <<items, result>>

Clear == items' = {} /\ UNCHANGED result

Next ==
  \/ \E key \in Keys : Insert(key) \/ Erase(key) \/ EraseAbsent(key)
  \/ \E low, high \in Keys : EraseRange(low, high)
  \/ Copy \/ Clear

Spec == Init /\ [][Next]_<<items, result>>
===============================================================================
