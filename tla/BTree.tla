--------------------------------- MODULE BTree ---------------------------------
(***************************************************************************)
(* btree.h: the sets of fact hashes the search looks its nodes up in, and  *)
(* the sets of words that may not be deleted.  Insertion rebalances a full *)
(* node with a sibling before it splits it, and erasure merges a node that *)
(* has become small or rebalances it.                                      *)
(***************************************************************************)
EXTENDS BTreeNode, FiniteSetsExt

CONSTANTS Keys,        \* integers
          NoKey,       \* what an iterator at the end has
          NodeValues   \* the sizes of nodes, 3 or more

VARIABLES tree,    \* the set
          result   \* what the last operation returned: a key and a number
vars == <<tree, result>>

-------------------------------------------------------------------------------
(* Insertion: r is a tree with the iterator [node, pos] where a value goes *)
At(t, n, i) == [t |-> t, node |-> n, pos |-> i]

LeftOf(r) == Sibling(r.t, r.node, -1)
RightOf(r) == Sibling(r.t, r.node, 1)
HasLeft(r) == Position(r.t, r.node) > 0
HasRight(r) == Position(r.t, r.node) < Count(r.t, Parent(r.t, r.node))

AtLeast1(n) == IF n > 1 THEN n ELSE 1

(* How much to move to a sibling: half of what fits, or all at the far end.*)
MoveLeft(r) ==
  AtLeast1(Room(r.t, LeftOf(r)) \div (IF r.pos < r.t.node[LeftOf(r)].max THEN 2 ELSE 1))

MoveRight(r) == AtLeast1(Room(r.t, RightOf(r)) \div (IF r.pos > 0 THEN 2 ELSE 1))

LeftHasRoom(r) ==
  /\ HasLeft(r) /\ Room(r.t, LeftOf(r)) > 0
  /\ r.pos - MoveLeft(r) >= 0 \/ MoveLeft(r) < Room(r.t, LeftOf(r))

RightHasRoom(r) ==
  /\ HasRight(r) /\ Room(r.t, RightOf(r)) > 0
  /\ r.pos <= Count(r.t, r.node) - MoveRight(r) \/ MoveRight(r) < Room(r.t, RightOf(r))

(* The position is now in this node, or that far from its end in the left. *)
InLeftIf(t, n, left, i) == IF i < 0 THEN At(t, left, i + Count(t, left) + 1) ELSE At(t, n, i)

InRightIf(t, n, right, i) ==
  IF i > Count(t, n) THEN At(t, right, i - Count(t, n) - 1) ELSE At(t, n, i)

WithRoom(r) == [r EXCEPT !.t = Checked(@, Room(@, r.node) > 0)]

ShiftLeft(r, left, toMove) ==
  WithRoom(InLeftIf(RebalanceRightToLeft(r.t, left, r.node, toMove), r.node, left, r.pos - toMove))

ShiftRight(r, right, toMove) ==
  WithRoom(InRightIf(RebalanceLeftToRight(r.t, r.node, right, toMove), r.node, right, r.pos))

(* A leaf at the root gets a root above it: it is the leftmost leaf, and   *)
(* the rightmost.                                                          *)
NewRootAbove(r, root) ==
  [r EXCEPT !.t = SetChildren(
     [Allocate(@, root, Node(FALSE, @.full, Parent(@, @.root)))
        EXCEPT !.root = root, !.rightmost = Parent(r.t, r.t.root),
               !.size = Count(r.t, Parent(r.t, r.t.root)),
               !.broken = @ \/ Parent(r.t, r.t.root) # r.t.root],
     root, <<r.t.root>>)]

(* An internal root stays, and its contents go to a new node below it.     *)
PushDown(r, n) ==
  At(SetChildren(
       MoveContents(Allocate(r.t, n, Node(FALSE, r.t.full, n)), r.t.root, n),
       r.t.root, <<n>>), n, r.pos)

RightmostAfterSplit(r, n) ==
  IF Leaf(r.t, r.node) /\ Rightmost(r.t) = r.node THEN [r.t EXCEPT !.rightmost = n] ELSE r.t

SplitInto(r, n) ==
  InRightIf(Split(RightmostAfterSplit(r, n), r.node, n, SplitCount(r.t, r.node, r.pos)),
            r.node, n, r.pos)

(* The parent the new node is allocated with is the one r.node had before  *)
(* the parents were split: linking the new node corrects it.               *)
SplitNode(r, parent, n) ==
  SplitInto([r EXCEPT !.t = Allocate(@, n, Node(Leaf(@, r.node), @.full, parent))], n)

RECURSIVE RebalanceOrSplit(_)

MakeRoomAbove(r, parent) ==
  IF Room(r.t, parent) = 0
  THEN [r EXCEPT !.t = RebalanceOrSplit(At(@, parent, Position(@, r.node))).t]
  ELSE r

SplitBelow(r, parent) == SplitNode(r, parent, Fresh(r.t))

RebalanceOrSplit(r) ==
  IF r.node = r.t.root
  THEN IF Leaf(r.t, r.node) THEN SplitBelow(NewRootAbove(r, Fresh(r.t)), Fresh(r.t))
       ELSE SplitBelow(PushDown(r, Fresh(r.t)), Fresh(r.t))
  ELSE IF LeftHasRoom(r) THEN ShiftLeft(r, LeftOf(r), MoveLeft(r))
  ELSE IF RightHasRoom(r) THEN ShiftRight(r, RightOf(r), MoveRight(r))
  ELSE SplitBelow(MakeRoomAbove(r, Parent(r.t, r.node)), Parent(r.t, r.node))

(* A small root leaf is replaced by one of twice the size.                 *)
Grown(m, full) == IF 2 * m < full THEN 2 * m ELSE full

GrowRoot(r, n) ==
  At(Free([MoveContents(
             Allocate(r.t, n, Node(TRUE, Grown(r.t.node[r.node].max, r.t.full), n)), r.t.root, n)
             EXCEPT !.root = n, !.broken = @ \/ r.node # r.t.root], r.t.root),
     n, r.pos)

MakeRoom(r) ==
  IF r.t.node[r.node].max < r.t.full THEN GrowRoot(r, Fresh(r.t)) ELSE RebalanceOrSplit(r)

(* What the leaf root of a small tree counts itself.                       *)
CountOne(t, d) == IF Leaf(t, t.root) THEN t ELSE [t EXCEPT !.size = @ + d]

RoomFor(r) ==
  IF Room(r.t, r.node) > 0 THEN [r EXCEPT !.t = CountOne(@, 1)]
  ELSE LET made == MakeRoom(r) IN [made EXCEPT !.t = CountOne(@, 1)]

Place(r, key) == [r EXCEPT !.t = InsertValue(@, r.node, r.pos, key)]

(* Never on an internal node: behind the previous value, in a leaf.        *)
LeafFor(t, iter) ==
  IF Leaf(t, iter.node) THEN At(t, iter.node, iter.pos)
  ELSE LET before == Decrement(t, iter) IN At(t, before.node, before.pos + 1)

InternalInsert(t, iter, key) == Place(RoomFor(LeafFor(t, iter)), key)

Inserted(r, key) == [tree |-> r.t, key |-> KeyAt(r.t, r), done |-> 1]

Kept(t, iter) == [tree |-> t, key |-> KeyAt(t, iter), done |-> 0]

NewRoot(t, n) == Allocate([t EXCEPT !.root = n], n, Node(TRUE, 1, n))

IfAbsent(t, at, iter, key) ==
  IF iter.node # Null /\ ~(key < KeyAt(t, iter)) THEN Kept(t, iter)
  ELSE Inserted(InternalInsert(t, at, key), key)

InsertAtLeaf(t, at, key) == IfAbsent(t, at, InternalLast(t, at), key)

InsertInto(t, key) == InsertAtLeaf(t, DownLower(t, t.root, key), key)

InsertUnique(t, key) == IF t.root = Null THEN InsertInto(NewRoot(t, 1), key) ELSE InsertInto(t, key)

(* With a hint where the value may belong.                                 *)
BeforeHint(t, hint, key) ==
  IF hint = Begin(t) \/ KeyAt(t, Decrement(t, hint)) < key
  THEN Inserted(InternalInsert(t, hint, key), key)
  ELSE InsertUnique(t, key)

AfterHint(t, next, key) ==
  IF next = End(t) \/ key < KeyAt(t, next)
  THEN Inserted(InternalInsert(t, next, key), key)
  ELSE InsertUnique(t, key)

InsertHinted(t, hint, key) ==
  IF hint = End(t) \/ key < KeyAt(t, hint) THEN BeforeHint(t, hint, key)
  ELSE IF KeyAt(t, hint) < key THEN AfterHint(t, Increment(t, hint), key)
  ELSE Kept(t, hint)

-------------------------------------------------------------------------------
(* Erasure: r is a tree with the iterator [node, pos] that walks up, and   *)
(* res, the iterator that will be returned                                 *)
MergeNodes(t, left, right) ==
  Free(RemoveValue([Merge(t, left, right)
                      EXCEPT !.rightmost = IF Leaf(t, right) /\ @ = right THEN left ELSE @],
                   Parent(t, left), Position(t, left)), right)

CanMerge(r, left, right) == 1 + Count(r.t, left) + Count(r.t, right) <= r.t.node[left].max

MergeLeft(r, left) == At(MergeNodes(r.t, left, r.node), left, r.pos + 1 + Count(r.t, left))

MergeRight(r, right) == [r EXCEPT !.t = MergeNodes(@, r.node, right)]

(* How many values come from the sibling n.                                *)
Borrow(r, n) ==
  LET half == (Count(r.t, n) - Count(r.t, r.node)) \div 2
  IN  IF half < Count(r.t, n) THEN half ELSE Count(r.t, n) - 1

(* Not after an erasure at the end that is away from the sibling.          *)
BorrowsRight(r) ==
  /\ HasRight(r) /\ Count(r.t, RightOf(r)) > MinNodeValues(r.t)
  /\ Count(r.t, r.node) = 0 \/ r.pos > 0

BorrowsLeft(r) ==
  /\ HasLeft(r) /\ Count(r.t, LeftOf(r)) > MinNodeValues(r.t)
  /\ Count(r.t, r.node) = 0 \/ r.pos < Count(r.t, r.node)

BorrowRight(r, right, n) == [r EXCEPT !.t = RebalanceRightToLeft(@, r.node, right, n)]

BorrowLeft(r, left, n) ==
  [r EXCEPT !.t = RebalanceLeftToRight(@, left, r.node, n), !.pos = @ + n]

(* try_merge_or_rebalance: the new r, and whether nodes were merged.       *)
TryMergeOrRebalance(r) ==
  IF HasLeft(r) /\ CanMerge(r, LeftOf(r), r.node)
  THEN [r |-> MergeLeft(r, LeftOf(r)), merged |-> TRUE]
  ELSE IF HasRight(r) /\ CanMerge(r, r.node, RightOf(r))
  THEN [r |-> MergeRight(r, RightOf(r)), merged |-> TRUE]
  ELSE [r |-> IF BorrowsRight(r) THEN BorrowRight(r, RightOf(r), Borrow(r, RightOf(r)))
              ELSE IF BorrowsLeft(r) THEN BorrowLeft(r, LeftOf(r), Borrow(r, LeftOf(r)))
              ELSE r,
        merged |-> FALSE]

(* An empty root leaf goes, and so does an empty root above a leaf; the    *)
(* contents of an only internal child move to the root.                    *)
MakeRoot(t, child) ==
  Free([t EXCEPT !.root = child, !.node[child].parent = Parent(t, Parent(t, child)),
                 !.rightmost = Null, !.size = 0,
                 !.broken = @ \/ ~IsRoot(t, Parent(t, child))], t.root)

ShrinkTo(t, child) ==
  IF Leaf(t, child) THEN MakeRoot(t, child) ELSE Free(MoveContents(t, child, t.root), child)

TryShrink(t) ==
  IF Count(t, t.root) > 0 THEN t
  ELSE IF Leaf(t, t.root)
  THEN [Free(t, t.root) EXCEPT !.root = Null, !.rightmost = Null, !.size = 0]
  ELSE ShrinkTo(t, Child(t, t.root, 0))

RECURSIVE WalkUp(_, _)

Walked(tried, res) ==
  IF ~tried.merged THEN [t |-> tried.r.t, res |-> res]
  ELSE WalkUp([tried.r EXCEPT !.node = Parent(tried.r.t, @)], res)

ResultAfter(tried, res) ==
  IF Leaf(tried.r.t, tried.r.node) THEN Iter(tried.r.node, tried.r.pos) ELSE res

TriedAt(tried, res) == Walked(tried, ResultAfter(tried, res))

WalkUp(r, res) ==
  IF r.node = r.t.root THEN [t |-> TryShrink(r.t), res |-> res]
  ELSE IF Count(r.t, r.node) >= MinNodeValues(r.t) THEN [t |-> r.t, res |-> res]
  ELSE TriedAt(TryMergeOrRebalance(r), res)

RemoveFromLeaf(t, iter) ==
  WalkUp(At(RemoveValue(CountOne(t, -1), iter.node, iter.pos), iter.node, iter.pos), iter)

(* Behind the end of a leaf the next value is above it.                    *)
Settled(t, res) ==
  IF res.pos = Count(t, res.node) THEN Increment(t, Iter(res.node, res.pos - 1)) ELSE res

(* Mutant: the value that took the place of the erased one is returned.    *)
ResultOnce(w, again) ==
  [tree |-> w.t, next |-> IF w.t.root = Null THEN End(w.t) ELSE Settled(w.t, w.res)]

ResultOf(w, again) ==
  [tree |-> w.t,
   next |-> IF w.t.root = Null THEN End(w.t)
            ELSE IF again THEN Increment(w.t, Settled(w.t, w.res))
            ELSE Settled(w.t, w.res)]

(* A value of an internal node changes places with the one before it.      *)
SwapDown(t, iter, before) ==
  [Checked(t, Leaf(t, before.node) /\ ~(KeyAt(t, iter) < KeyAt(t, before)))
     EXCEPT !.node[iter.node].values[iter.pos + 1] = KeyAt(t, before),
            !.node[before.node].values[before.pos + 1] = KeyAt(t, iter)]

EraseInternal(t, iter, before) ==
  ResultOf(RemoveFromLeaf(SwapDown(t, iter, before), before), TRUE)

(* A value is erased; next is the one that follows it.                     *)
Erased(t, iter) ==
  IF Leaf(t, iter.node) THEN ResultOf(RemoveFromLeaf(t, iter), FALSE)
  ELSE EraseInternal(t, iter, Decrement(t, iter))

RECURSIVE Distance(_, _, _), EraseTimes(_, _, _)

Distance(t, from, to) == IF from = to THEN 0 ELSE 1 + Distance(t, Increment(t, from), to)

EraseTimes(t, iter, n) ==
  IF n = 0 THEN [tree |-> t, next |-> iter]
  ELSE LET one == Erased(t, iter) IN EraseTimes(one.tree, one.next, n - 1)

-------------------------------------------------------------------------------
(* assign: a copy is built from the values in order, each behind the last. *)
RECURSIVE CopyFrom(_, _, _)

Append1(to, key) ==
  IF to.root = Null THEN InternalInsert(NewRoot(to, 1), Iter(1, 0), key)
  ELSE InternalInsert(to, End(to), key)

CopyFrom(t, iter, to) ==
  IF iter = End(t) THEN to ELSE CopyFrom(t, Increment(t, iter), Append1(to, KeyAt(t, iter)).t)

Assign(t) == CopyFrom(t, Begin(t), EmptyTree(t.full))

-------------------------------------------------------------------------------
(* Operations                                                              *)
KeyOrEnd(t, iter) == IF iter = End(t) THEN NoKey ELSE KeyAt(t, iter)

Init == tree \in {EmptyTree(n) : n \in NodeValues} /\ result = [key |-> NoKey, done |-> 0]

Did(r) == tree' = r.tree /\ result' = [key |-> r.key, done |-> r.done]

Insert(key) == Did(InsertUnique(tree, key))

InsertNear(hint, key) ==
  Did(IF tree.root = Null THEN InsertUnique(tree, key) ELSE InsertHinted(tree, hint, key))

DidErase(r, n) == tree' = r.tree /\ result' = [key |-> KeyOrEnd(r.tree, r.next), done |-> n]

EraseUnique(key) ==
  /\ FindUnique(tree, key).node # Null
  /\ DidErase(Erased(tree, FindUnique(tree, key)), 1)

EraseAbsent(key) ==
  /\ FindUnique(tree, key).node = Null
  /\ result' = [key |-> NoKey, done |-> 0]
  /\ UNCHANGED tree

EraseRange(low, high) ==
  /\ low <= high
  /\ LET n == Distance(tree, LowerBound(tree, low), LowerBound(tree, high))
     IN  DidErase(EraseTimes(tree, LowerBound(tree, low), n), n)

(* The set is passed by value, and the copy goes on.                       *)
Copy == tree.root # Null /\ tree' = Assign(tree) /\ UNCHANGED result

RECURSIVE Reachable(_, _)

Reachable(t, n) == {n} \cup UNION {Reachable(t, m) : m \in Range(t.node[n].children)}

(* internal_clear frees every node it gets to from the root.               *)
Clear ==
  /\ tree.root # Null
  /\ tree' = [EmptyTree(tree.full) EXCEPT
               !.node = Restrict(tree.node, DOMAIN tree.node \ Reachable(tree, tree.root))]
  /\ UNCHANGED result

Next ==
  \/ \E key \in Keys :
       \/ Insert(key) \/ EraseUnique(key) \/ EraseAbsent(key)
       \/ \E near \in Keys : InsertNear(LowerBound(tree, near), key) \/ EraseRange(near, key)
  \/ Copy
  \/ Clear

Spec == Init /\ [][Next]_vars

-------------------------------------------------------------------------------
(* Properties                                                              *)
Elements == UNION {Range(tree.node[n].values) : n \in DOMAIN tree.node}

Set == INSTANCE SortedSet WITH items <- Elements

RECURSIVE Depth(_, _), InOrder(_, _, _, _)

Depth(t, n) == IF IsRoot(t, n) THEN 1 ELSE 1 + Depth(t, Parent(t, n))

Leaves(t) == {n \in DOMAIN t.node : Leaf(t, n)}

(* The node n and all below it, whose values lie between low and high.     *)
InOrder(t, n, low, high) ==
  /\ Count(t, n) \in 1 .. t.node[n].max
  /\ \A i \in 1 .. Count(t, n) :
       /\ low < t.node[n].values[i] /\ t.node[n].values[i] < high
       /\ i > 1 => t.node[n].values[i - 1] < t.node[n].values[i]
  /\ ~Leaf(t, n) =>
       /\ Len(t.node[n].children) = Count(t, n) + 1
       /\ \A i \in 0 .. Count(t, n) :
            /\ Parent(t, Child(t, n, i)) = n /\ Position(t, Child(t, n, i)) = i
            /\ InOrder(t, Child(t, n, i), IF i = 0 THEN low ELSE t.node[n].values[i],
                       IF i = Count(t, n) THEN high ELSE t.node[n].values[i + 1])

(* The tree is one that verify() accepts: values in order within and       *)
(* across nodes, no node empty or overfull, links and positions right in   *)
(* both directions, the leaves equally deep, the size, the leftmost and    *)
(* the rightmost leaf those kept in the root.  No node is leaked or freed  *)
(* twice, and no assertion of an insertion or erasure has failed.          *)
Verified ==
  /\ ~tree.broken
  /\ DOMAIN tree.node = IF tree.root = Null THEN {} ELSE Reachable(tree, tree.root)
  /\ tree.root # Null =>
       /\ InOrder(tree, tree.root, Min(Keys) - 1, Max(Keys) + 1)
       /\ Leftmost(tree) = DownFirst(tree, tree.root).node
       /\ Rightmost(tree) = DownLast(tree, tree.root).node
       /\ \A m, n \in Leaves(tree) : Depth(tree, m) = Depth(tree, n)
       /\ ~Leaf(tree, tree.root) => tree.size = Cardinality(Elements)

RECURSIVE Forward(_, _), Backward(_, _)

Forward(t, iter) ==
  IF iter = End(t) THEN <<>> ELSE <<KeyAt(t, iter)>> \o Forward(t, Increment(t, iter))

Backward(t, iter) ==
  IF iter = Begin(t) THEN <<>>
  ELSE LET before == Decrement(t, iter) IN Append(Backward(t, before), KeyAt(t, before))

SortedKeys(S) == SelectSeq([i \in 1 .. Max(Keys) |-> i], LAMBDA k : k \in S)

(* What is read is what was written: the iterators visit the elements in   *)
(* order from either end, and find, lower_bound and upper_bound of every   *)
(* key stop at the element the order gives, or at the end.                 *)
ReadsRight ==
  /\ Forward(tree, Begin(tree)) = SortedKeys(Elements)
  /\ Backward(tree, End(tree)) = SortedKeys(Elements)
  /\ \A key \in Keys :
       /\ FindUnique(tree, key).node # Null <=> key \in Elements
       /\ FindUnique(tree, key).node # Null => KeyAt(tree, FindUnique(tree, key)) = key
       /\ KeyOrEnd(tree, LowerBound(tree, key)) = Set!From(key, Elements)
       /\ KeyOrEnd(tree, UpperBound(tree, key)) = Set!From(key + 1, Elements)

(* The tree is a set: every operation changes the elements, and answers,   *)
(* as it would on a set in order.  An erasure returns the element that     *)
(* follows, wherever merging and rebalancing have put it.                  *)
Implements == Set!Spec
===============================================================================
