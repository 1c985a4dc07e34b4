----------------------------- MODULE MCContainers -----------------------------
(***************************************************************************)
(* The two vendored containers on their small instances: a behaviour is    *)
(* one of the heap (MCKNHeap) or one of the B-tree (MCBTree), and leaves   *)
(* the other as it was made.                                               *)
(***************************************************************************)
EXTENDS MCKNHeap

CONSTANTS NoKey, NodeValues, Few,  \* of the B-tree
          SetTurns, SetStep         \* its MaxTurns and TurnStep

VARIABLES container,                \* "heap" or "tree"
          tree, found, order, turn, in, out

TreeKeys == 1 .. 24

BTree == INSTANCE MCBTree WITH Keys <- TreeKeys, MaxTurns <- SetTurns, TurnStep <- SetStep, result <- found

heapVars == <<vars, stream, op, turns>>
treeVars == <<tree, found, order, turn, in, out>>

ContainersInit ==
  /\ MCInit /\ BTree!MCInit
  /\ \/ container = "heap" /\ order = <<"any">> /\ \A n \in NodeValues : tree.full <= n
     \/ container = "tree" /\ stream = "up" /\ shape = Deep

ContainersNext ==
  \/ container = "heap" /\ MCNext /\ UNCHANGED <<container, treeVars>>
  \/ container = "tree" /\ BTree!MCNext /\ UNCHANGED <<container, heapVars>>

ContainersSpec == ContainersInit /\ [][ContainersNext]_<<container, heapVars, treeVars>>

(* The tree passes verify(), after every operation (btree.h 1953-1972).    *)
Verified == BTree!Verified

(* Iterators and searches of the tree read what was written.               *)
ReadsRight == BTree!ReadsRight

(* The tree answers as a set in order would (SortedSet).                   *)
ImplementsSet == BTree!Implements
===============================================================================
