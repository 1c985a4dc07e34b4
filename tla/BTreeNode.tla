------------------------------- MODULE BTreeNode -------------------------------
(***************************************************************************)
(* The nodes of btree.h and the iterators over them.  A tree t is a record *)
(*   t.full       kNodeValues: how many values a node of full size holds    *)
(*   t.node       the allocated nodes, by their addresses                  *)
(*   t.root       the address of the root, or Null for an empty tree       *)
(*   t.rightmost  the last leaf, and                                       *)
(*   t.size       the number of values: both kept in an internal root only *)
(*   t.broken     an assertion of btree.h has failed                       *)
(* and an iterator is a record [node, pos].  Positions count from 0, as in *)
(* the code; the sequences that hold values and children count from 1.     *)
(***************************************************************************)
EXTENDS Integers, FiniteSets, SequencesExt

MinNodeValues(t) == t.full \div 2

Null == 0

EmptyTree(full) ==
  [full |-> full, node |-> <<>>, root |-> Null, rightmost |-> Null, size |-> 0, broken |-> FALSE]

Checked(t, assertion) == [t EXCEPT !.broken = @ \/ ~assertion]

-------------------------------------------------------------------------------
(* Nodes                                                                   *)
Node(leaf, maxCount, parent) ==
  [leaf |-> leaf, max |-> maxCount, parent |-> parent, position |-> 0,
   values |-> <<>>, children |-> <<>>]

Leaf(t, n) == t.node[n].leaf
Count(t, n) == Len(t.node[n].values)
Room(t, n) == t.node[n].max - Count(t, n)
Parent(t, n) == t.node[n].parent
Position(t, n) == t.node[n].position
Child(t, n, i) == t.node[n].children[i + 1]
Sibling(t, n, d) == Child(t, Parent(t, n), Position(t, n) + d)

(* The parent of the root is the leftmost leaf.                            *)
IsRoot(t, n) == Leaf(t, Parent(t, n))

(* An allocator gives addresses again after they are freed.                *)
Fresh(t) == CHOOSE n \in 1 .. Cardinality(DOMAIN t.node) + 1 : n \notin DOMAIN t.node

Allocate(t, n, node) == [t EXCEPT !.node = @ @@ (n :> node)]

Free(t, n) == [t EXCEPT !.node = Restrict(@, DOMAIN @ \ {n})]

Index(s, x) == SelectInSeq(s, LAMBDA y : y = x)

(* set_child for all the children of n.                                    *)
SetChildren(t, n, children) ==
  [t EXCEPT !.node = [m \in DOMAIN t.node |->
     IF m = n THEN [t.node[m] EXCEPT !.children = children]
     ELSE IF Contains(children, m)
     THEN [t.node[m] EXCEPT !.parent = n, !.position = Index(children, m) - 1]
     ELSE t.node[m]]]

InsertValue(t, n, i, x) == [t EXCEPT !.node[n].values = InsertAt(@, i + 1, x)]

RemoveValue(t, n, i) ==
  IF Leaf(t, n)
  THEN [t EXCEPT !.node[n].values = RemoveAt(@, i + 1)]
  ELSE SetChildren([t EXCEPT !.node[n].values = RemoveAt(@, i + 1)], n,
                   RemoveAt(t.node[n].children, i + 2))

(* The values of two siblings with the one that delimits them between.     *)
Joined(t, left, right) ==
  t.node[left].values \o <<t.node[Parent(t, left)].values[Position(t, left) + 1]>>
                      \o t.node[right].values

JoinedChildren(t, left, right) == t.node[left].children \o t.node[right].children

Part(children, from, to) == IF children = <<>> THEN <<>> ELSE SubSeq(children, from, to)

(* Of values, left keeps n, the next delimits, right has the others.       *)
Divide(t, left, right, n, values, children) ==
  SetChildren(
    SetChildren(
      [t EXCEPT !.node[left].values = SubSeq(values, 1, n),
                !.node[Parent(t, left)].values[Position(t, left) + 1] = values[n + 1],
                !.node[right].values = SubSeq(values, n + 2, Len(values))],
      left, Part(children, 1, n + 1)),
    right, Part(children, n + 2, Len(children)))

Rebalance(t, left, right, n) ==
  Divide(t, left, right, n, Joined(t, left, right), JoinedChildren(t, left, right))

AreSiblings(t, left, right) ==
  Parent(t, left) = Parent(t, right) /\ Position(t, left) + 1 = Position(t, right)

RebalanceRightToLeft(t, left, src, toMove) ==
  Rebalance(Checked(t, /\ AreSiblings(t, left, src) /\ Count(t, src) >= Count(t, left)
                       /\ toMove \in 1 .. Count(t, src)),
            left, src, Count(t, left) + toMove)

RebalanceLeftToRight(t, left, dest, toMove) ==
  Rebalance(Checked(t, /\ AreSiblings(t, left, dest) /\ Count(t, left) >= Count(t, dest)
                       /\ toMove \in 1 .. Count(t, left)),
            left, dest, Count(t, left) - toMove)

(* How many values split leaves in the left node, the one that will        *)
(* delimit the halves not counted: the split is biased to where the next   *)
(* insertion is.                                                           *)
SplitCount(t, n, i) ==
  CASE i = 0             -> 0
    [] i = t.node[n].max -> Count(t, n) - 1
    [] OTHER             -> Count(t, n) - (Count(t, n) \div 2) - 1

(* Mutant: the new node keeps the parent it was allocated with.            *)
MakeSiblingUnlinked(t, dest, p, i) ==
  [InsertValue(t, p, i, 0) EXCEPT !.node[p].children = InsertAt(@, i + 2, dest),
                                  !.node[dest].position = i + 1]

(* Room for the delimiting value, and dest behind it.                      *)
MakeSibling(t, dest, p, i) ==
  SetChildren(InsertValue(t, p, i, 0), p, InsertAt(t.node[p].children, i + 2, dest))

Split(t, n, dest, keep) ==
  Divide(MakeSibling(t, dest, Parent(t, n), Position(t, n)), n, dest, keep,
         t.node[n].values, t.node[n].children)

(* What left has after a merge.                                            *)
Merge(t, left, right) ==
  SetChildren([Checked(t, AreSiblings(t, left, right))
                 EXCEPT !.node[left].values = Joined(t, left, right)],
              left, JoinedChildren(t, left, right))

(* The values and children of one node go to another, and its children     *)
(* with them: the half of node::swap that matters, as each use of it       *)
(* empties or frees the other node.                                        *)
MoveContents(t, from, to) ==
  SetChildren([t EXCEPT !.node[to].values = t.node[from].values, !.node[from].values = <<>>],
              to, t.node[from].children)

-------------------------------------------------------------------------------
(* Iterators                                                               *)
Iter(n, i) == [node |-> n, pos |-> i]

KeyAt(t, iter) == t.node[iter.node].values[iter.pos + 1]

Rightmost(t) == IF t.root = Null \/ Leaf(t, t.root) THEN t.root ELSE t.rightmost

Leftmost(t) == IF t.root = Null THEN Null ELSE Parent(t, t.root)

Begin(t) == Iter(Leftmost(t), 0)

End(t) == IF t.root = Null THEN Iter(Null, 0) ELSE Iter(Rightmost(t), Count(t, Rightmost(t)))

RECURSIVE UpAtEnd(_, _), UpAtBegin(_, _), DownFirst(_, _), DownLast(_, _)

UpAtEnd(t, iter) ==
  IF iter.pos = Count(t, iter.node) /\ ~IsRoot(t, iter.node)
  THEN UpAtEnd(t, Iter(Parent(t, iter.node), Position(t, iter.node)))
  ELSE iter

UpAtBegin(t, iter) ==
  IF iter.pos < 0 /\ ~IsRoot(t, iter.node)
  THEN UpAtBegin(t, Iter(Parent(t, iter.node), Position(t, iter.node) - 1))
  ELSE iter

DownFirst(t, n) == IF Leaf(t, n) THEN Iter(n, 0) ELSE DownFirst(t, Child(t, n, 0))

DownLast(t, n) ==
  IF Leaf(t, n) THEN Iter(n, Count(t, n) - 1) ELSE DownLast(t, Child(t, n, Count(t, n)))

(* Past the last value of the tree an iterator stays in its leaf.          *)
UnlessAtEnd(t, up, iter) == IF up.pos = Count(t, up.node) THEN iter ELSE up

UnlessAtBegin(up, iter) == IF up.pos < 0 THEN iter ELSE up

NextInLeaf(t, iter) ==
  IF iter.pos < Count(t, iter.node) THEN iter ELSE UnlessAtEnd(t, UpAtEnd(t, iter), iter)

PreviousInLeaf(t, iter) ==
  IF iter.pos >= 0 THEN iter ELSE UnlessAtBegin(UpAtBegin(t, iter), iter)

Increment(t, iter) ==
  IF Leaf(t, iter.node) THEN NextInLeaf(t, Iter(iter.node, iter.pos + 1))
  ELSE DownFirst(t, Child(t, iter.node, iter.pos + 1))

Decrement(t, iter) ==
  IF Leaf(t, iter.node) THEN PreviousInLeaf(t, Iter(iter.node, iter.pos - 1))
  ELSE DownLast(t, Child(t, iter.node, iter.pos))

RECURSIVE InternalLast(_, _)

(* From behind the last value of a node to the value that comes next; Null *)
(* behind the last of the tree.                                            *)
InternalLast(t, iter) ==
  IF iter.node = Null \/ iter.pos < Count(t, iter.node) THEN iter
  ELSE IF IsRoot(t, iter.node) THEN Iter(Null, Position(t, iter.node))
  ELSE InternalLast(t, Iter(Parent(t, iter.node), Position(t, iter.node)))

-------------------------------------------------------------------------------
(* Lookup                                                                  *)
OrCount(i, values) == IF i = 0 THEN Len(values) ELSE i - 1

(* The linear search for the first value that is not less than the key, or *)
(* for the first that is greater.                                          *)
LowerBoundIn(t, n, key) ==
  OrCount(SelectInSeq(t.node[n].values, LAMBDA v : ~(v < key)), t.node[n].values)

UpperBoundIn(t, n, key) ==
  OrCount(SelectInSeq(t.node[n].values, LAMBDA v : key < v), t.node[n].values)

RECURSIVE DownLower(_, _, _), DownUpper(_, _, _)

(* internal_locate_plain_compare, and the loop of internal_lower_bound.    *)
DownLower(t, n, key) ==
  IF Leaf(t, n) THEN Iter(n, LowerBoundIn(t, n, key))
  ELSE DownLower(t, Child(t, n, LowerBoundIn(t, n, key)), key)

DownUpper(t, n, key) ==
  IF Leaf(t, n) THEN Iter(n, UpperBoundIn(t, n, key))
  ELSE DownUpper(t, Child(t, n, UpperBoundIn(t, n, key)), key)

InternalEnd(t, iter) == IF iter.node = Null THEN End(t) ELSE iter

LowerBound(t, key) ==
  IF t.root = Null THEN End(t) ELSE InternalEnd(t, InternalLast(t, DownLower(t, t.root, key)))

UpperBound(t, key) ==
  IF t.root = Null THEN End(t) ELSE InternalEnd(t, InternalLast(t, DownUpper(t, t.root, key)))

(* A value is found if no key is less than the other.                      *)
IfEqual(t, iter, key) ==
  IF iter.node # Null /\ ~(key < KeyAt(t, iter)) THEN iter ELSE Iter(Null, 0)

FindUnique(t, key) ==
  IF t.root = Null THEN Iter(Null, 0)
  ELSE IfEqual(t, InternalLast(t, DownLower(t, t.root, key)), key)
===============================================================================
