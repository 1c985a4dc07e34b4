-------------------------------- MODULE MCBTree --------------------------------
(***************************************************************************)
(* Small instances of BTree: every sequence of operations on a few keys,   *)
(* and trees of three levels that grow and shrink in one of a few orders.  *)
(***************************************************************************)
EXTENDS BTree

CONSTANTS Few,       \* with keys up to this one any operation may come next
          MaxTurns,  \* how often insertion and erasure take turns otherwise
          TurnStep   \* the sizes where they may: the multiples of it

VARIABLES order,     \* the orders keys go in and out, or "any"
          turn,      \* whether they go in or out, and how many turns there were
          in, out    \* how many went in and out

Largest == 24

MCKeys == 1 .. Largest

(* The n-th key of an order: each is a permutation of the keys.            *)
KeyOf(o, n) ==
  CASE o = "up"     -> n
    [] o = "down"   -> Largest + 1 - n
    [] o = "spread" -> (n * 7) % (Largest + 1)
    [] o = "inward" -> IF n % 2 = 1 THEN (n + 1) \div 2 ELSE Largest + 1 - (n \div 2)

Orders == {"up", "down", "spread", "inward"}

MCInit ==
  /\ Init
  /\ order \in (Orders \X Orders) \cup {<<"any">>}
  /\ turn = [out |-> FALSE, taken |-> 0] /\ in = 0 /\ out = 0

AnyNext ==
  /\ order = <<"any">>
  /\ \/ \E key \in 1 .. Few :
          \/ Insert(key) \/ EraseUnique(key) \/ EraseAbsent(key)
          \/ \E near \in 1 .. Few : InsertNear(LowerBound(tree, near), key) \/ EraseRange(near, key)
     \/ Copy
     \/ Clear
  /\ UNCHANGED <<order, turn, in, out>>

Turn(goesOut) ==
  /\ order # <<"any">>
  /\ turn.out # goesOut => Cardinality(Elements) % TurnStep = 0
  /\ turn' = [out |-> goesOut, taken |-> IF turn.out = goesOut THEN turn.taken ELSE turn.taken + 1]
  /\ turn'.taken <= MaxTurns
  /\ UNCHANGED order

GrowNext == in < Largest /\ in' = in + 1 /\ Turn(FALSE) /\ Insert(KeyOf(order[1], in')) /\ UNCHANGED out

ShrinkNext == out < Largest /\ out' = out + 1 /\ Turn(TRUE) /\ UNCHANGED in

MCNext ==
  \/ AnyNext
  \/ GrowNext
  \/ ShrinkNext /\ EraseUnique(KeyOf(order[2], out'))
  \/ ShrinkNext /\ EraseAbsent(KeyOf(order[2], out'))

MCSpec == MCInit /\ [][MCNext]_<<vars, order, turn, in, out>>
===============================================================================
