------------------------------ MODULE BinaryHeap ------------------------------
(***************************************************************************)
(* The fixed size binary heap of knheap.h.  Its array is data[0 ..         *)
(* capacity + 1]: data[0] holds the infimum, and every place that holds no *)
(* element the supremum, which the loops run into instead of a bound.      *)
(*                                                                         *)
(* An element is a record [key, value].  A loop that carries a hole along  *)
(* a path is modelled by the path and by what is on it afterwards.         *)
(***************************************************************************)
EXTENDS Integers, SequencesExt

CONSTANTS Infimum, Supremum   \* no key of an element is beyond them

(* The value of a sentinel is never read.                                  *)
Sentinel(key) == [key |-> key, value |-> 0]

NewHeap(capacity) ==
  [data |-> [i \in 0 .. capacity + 1 |-> Sentinel(IF i = 0 THEN Infimum ELSE Supremum)],
   size |-> 0]

Smaller(data, i, j) == IF data[i].key > data[j].key THEN j ELSE i

(* The min-path from the root, as long as its next place is below limit.   *)
MinPath(data, limit) ==
  LET path[hole \in DOMAIN data] ==
        IF 2 * hole < limit THEN <<hole>> \o path[Smaller(data, 2 * hole, 2 * hole + 1)]
                            ELSE <<hole>>
  IN  path[1]

(* Mutant: the last element stays in the hole at the end of the path.      *)
NoBubbling(data, path, e) == Len(path)

(* Where element e ends when it bubbles up from the end of a path whose    *)
(* elements have moved up by one.                                          *)
Bubble(data, path, e) ==
  Max({j \in 1 .. Len(path) : j = 1 \/ data[path[j]].key <= e.key})

DeleteMin(h) ==
  LET data == h.data
      path == MinPath(data, h.size)
      last == data[h.size]
      stop == Bubble(data, path, last)
      at(i) == CHOOSE j \in DOMAIN path : path[j] = i
  IN  [data |-> [i \in DOMAIN data |->
                   IF i = h.size THEN Sentinel(Supremum)
                   ELSE IF i \notin ToSet(path) \/ at(i) > stop THEN data[i]
                   ELSE IF at(i) = stop THEN last
                   ELSE data[path[at(i) + 1]]],
       size |-> h.size - 1]

(* sortTo: takes the root size times and leaves a supremum in the hole,    *)
(* which goes all the way down.  Its places beyond size are suprema.       *)
SortTo(h) ==
  LET root[n \in 0 .. h.size] ==
        IF n = 0 THEN [to |-> <<>>, data |-> h.data]
        ELSE LET s    == root[n - 1]
                 path == MinPath(s.data, h.size + 1)
                 at(i) == CHOOSE j \in DOMAIN path : path[j] = i
             IN  [to |-> Append(s.to, s.data[1]),
                  data |-> [i \in DOMAIN s.data |->
                              IF i \notin ToSet(path) THEN s.data[i]
                              ELSE IF i = Last(path) THEN Sentinel(Supremum)
                              ELSE s.data[path[at(i) + 1]]]]
  IN  [to |-> root[h.size].to, heap |-> [data |-> root[h.size].data, size |-> 0]]

(* The ancestors of place i that hold larger keys move down, up to the     *)
(* sentinel at 0.                                                          *)
HoleFor(data, i, key) ==
  LET climb[hole \in DOMAIN data] ==
        IF data[hole \div 2].key > key THEN climb[hole \div 2] ELSE hole
  IN  climb[i]

Ancestors(i) ==
  LET up[j \in 0 .. i] == IF j = 0 THEN {} ELSE {j} \cup up[j \div 2] IN up[i]

InsertHeap(h, e) ==
  LET last == h.size + 1
      hole == HoleFor(h.data, last, e.key)
  IN  [data |-> [i \in DOMAIN h.data |->
                   IF i = hole THEN e
                   ELSE IF i \in Ancestors(last) /\ i > hole THEN h.data[i \div 2]
                   ELSE h.data[i]],
       size |-> last]

(* What the loops rely on.                                                 *)
HeapOrdered(h) ==
  /\ h.data[0].key = Infimum
  /\ \A i \in 2 .. h.size : h.data[i \div 2].key <= h.data[i].key
  /\ \A i \in DOMAIN h.data : i > h.size => h.data[i].key = Supremum

Elements(h) == [i \in 1 .. h.size |-> h.data[i]]
===============================================================================
