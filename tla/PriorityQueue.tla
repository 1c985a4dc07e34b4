----------------------------- MODULE PriorityQueue -----------------------------
(***************************************************************************)
(* What the search asks of its fringe: an element goes in once, and        *)
(* deleteMin takes one of those with the least key out.  Which one of them *)
(* is left open.  Elements are told apart by their values.                 *)
(***************************************************************************)
EXTENDS Integers, FiniteSetsExt

CONSTANT Keys

VARIABLES items,     \* the elements [key, value] in the queue
          inserted,  \* how many there have been: the value of the next is one more
          result     \* the element deleteMin returned last

Init == items = {} /\ inserted = 0 /\ result = [key |-> 0, value |-> 0]

Insert ==
  /\ inserted' = inserted + 1
  /\ \E key \in Keys : items' = items \cup {[key |-> key, value |-> inserted']}
  /\ UNCHANGED result

LeastKey == Min({e.key : e \in items})

DeleteMin ==
  /\ items # {}
  /\ result' \in {e \in items : e.key = LeastKey}
  /\ items' = items \ {result'}
  /\ UNCHANGED inserted

Next == Insert \/ DeleteMin

Spec == Init /\ [][Next]_<<items, inserted, result>>
===============================================================================
