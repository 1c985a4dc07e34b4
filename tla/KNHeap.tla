-------------------------------- MODULE KNHeap --------------------------------
(***************************************************************************)
(* The fringe of the search, knheap.h: elements go into a binary heap;     *)
(* when it is full its contents become a sorted segment, the segments of a *)
(* level are merged by a tree of losers into the next level when they get  *)
(* too many, and the least elements wait in a buffer per level and in one  *)
(* buffer for all.                                                         *)
(*                                                                         *)
(* A buffer is the sequence of the elements from its min pointer on.       *)
(***************************************************************************)
EXTENDS LoserTree, FiniteSets

CONSTANTS Shapes,   \* records [KNN, KNBufferSize1, KNKMAX, KNLevels]: the sizes
          Keys      \* the keys that may be inserted

ASSUME ShapesAssumption ==
  \A s \in Shapes : /\ s.KNN >= s.KNBufferSize1 /\ s.KNBufferSize1 > 0
                    /\ \E n \in 1 .. 5 : s.KNKMAX = 2 ^ n
                    /\ s.KNLevels \in 1 .. 4 /\ s.KNLevels < s.KNKMAX

ASSUME KeysAssumption == \A key \in Keys : Infimum < key /\ key < Supremum

VARIABLES shape,      \* the sizes of this heap
          heap,       \* the KNHeap object: its members, below
          inserted,   \* how many elements there have been
          result      \* what deleteMin has returned last
vars == <<shape, heap, inserted, result>>

(***************************************************************************)
(* heap.tree, heap.buffer2     a loser tree and a buffer for each level    *)
(* heap.buffer1                the delete buffer                           *)
(* heap.insertHeap             the binary heap                             *)
(* heap.activeLevels           the levels in use                           *)
(* heap.size                   elements in trees and level buffers         *)
(* heap.broken                 an assertion of knheap.h has failed         *)
(***************************************************************************)
Levels == 0 .. shape.KNLevels - 1

NewKNHeap(s) ==
  [tree |-> [i \in 0 .. s.KNLevels - 1 |-> NewTree], buffer2 |-> [i \in 0 .. s.KNLevels - 1 |-> <<>>],
   buffer1 |-> <<>>, insertHeap |-> NewHeap(s.KNN), activeLevels |-> 0, size |-> 0,
   broken |-> FALSE]

GetSize == heap.size + heap.insertHeap.size + Len(heap.buffer1)

-------------------------------------------------------------------------------
(* Buffer refilling                                                        *)
(* refillBuffer2: what is left, and as much from the tree as fits.         *)
AppendMerged(q, j, merged) ==
  [q EXCEPT !.tree[j] = merged.tree, !.buffer2[j] = @ \o merged.to]

RefillBuffer2(q, j) ==
  AppendMerged(q, j, MultiMerge(q.tree[j], Min({shape.KNN - Len(q.buffer2[j]), q.tree[j].size})))

(* The last active level is given up when it is dry.                       *)
CountRefilled(r, q, i) ==
  IF q.buffer2[i] = <<>> /\ i = q.activeLevels - 1
  THEN [r EXCEPT !.q = [q EXCEPT !.activeLevels = @ - 1]]
  ELSE [q |-> q, total |-> r.total + Len(q.buffer2[i])]

(* Every active level is asked for KNBufferSize1 elements.                 *)
RefillLevels(q) ==
  LET from[i \in 0 .. q.activeLevels] ==
        IF i = q.activeLevels THEN [q |-> q, total |-> 0]
        ELSE LET r == from[i + 1] IN
             IF Len(r.q.buffer2[i]) >= shape.KNBufferSize1
             THEN [r EXCEPT !.total = @ + shape.KNBufferSize1]
             ELSE CountRefilled(r, RefillBuffer2(r.q, i), i)
  IN  from[0]

(* The sz least elements of the buffers of the active levels.              *)
MergeBuffers(active, sz) ==
  CASE Len(active) = 0 -> Sources(<<>>)
    [] Len(active) = 1 -> [from |-> << SubSeq(active[1], sz + 1, Len(active[1])) >>,
                           to   |-> SubSeq(active[1], 1, sz)]
    [] Len(active) = 2 -> Merge(active, sz)
    [] Len(active) = 3 -> Merge3(active, sz)
    [] Len(active) = 4 -> Merge4(active, sz)

ActiveBuffers(q) == [i \in 1 .. q.activeLevels |-> q.buffer2[i - 1]]

(* Mutant: what goes to the delete buffer is still counted.                *)
MoveCounting(q, merged, sz) ==
  [q EXCEPT !.buffer1 = merged.to,
            !.buffer2 = [i \in Levels |-> IF i < q.activeLevels THEN merged.from[i + 1] ELSE @[i]]]

MoveToBuffer1(q, merged, sz) ==
  [q EXCEPT !.buffer1 = merged.to,
            !.buffer2 = [i \in Levels |-> IF i < q.activeLevels THEN merged.from[i + 1] ELSE @[i]],
            !.size = @ - sz,
            !.broken = @ \/ (sz < shape.KNBufferSize1 /\ q.size # sz)]

FillBuffer1(q, sz) == MoveToBuffer1(q, MergeBuffers(ActiveBuffers(q), sz), sz)

FillFrom(r) == FillBuffer1(r.q, Min({shape.KNBufferSize1, r.total}))

RefillBuffer1(q) == FillFrom(RefillLevels(q))

-------------------------------------------------------------------------------
(* Emptying the insert heap                                                *)
(* The level where makeSpaceAvailable(0) finds space.                      *)
FreeLevel(q) == Min({l \in Levels : SpaceIsAvailable(q.tree[l], shape.KNKMAX)})

MoveUp(q, level, merged) ==
  [q EXCEPT !.tree[level] = merged.tree,
            !.tree[level + 1] = InsertSegment(@, merged.to, shape.KNKMAX)]

EmptyLevel(q, level) == MoveUp(q, level, MultiMerge(q.tree[level], q.tree[level].size))

(* The full levels below it are emptied, the highest first.                *)
MakeSpaceAvailable(q, free) ==
  LET from[l \in 0 .. free] == IF l = free THEN q ELSE EmptyLevel(from[l + 1], l)
  IN  [from[0] EXCEPT !.activeLevels = Max({@, free + 1})]

(* Mutant: the buffers of the levels that were emptied stay as they are.   *)
BuffersKept(q, free) == q

(* If levels were emptied, so are the buffers up to the level above them,  *)
(* into tree 0.                                                            *)
BuffersToTree(q, free) ==
  LET from[i \in 0 .. free + 1] ==
        IF i = free + 1 THEN q.tree[0]
        ELSE InsertSegment(from[i + 1], q.buffer2[i], shape.KNKMAX)
  IN  IF free = 0 THEN q
      ELSE [q EXCEPT !.tree[0] = from[0],
                     !.buffer2 = [i \in Levels |-> IF i <= free THEN <<>> ELSE @[i]]]

AddSegment(q, free, segment) ==
  [q EXCEPT !.tree[0] = InsertSegment(@, segment, shape.KNKMAX),
            !.size = @ + shape.KNN,
            !.broken = @ \/ ~(free = 0 \/ q.tree[0].size = 0)]

(* The new elements pass buffer1 and buffer2[0], which keep their lengths; *)
(* what they give way to is the new segment.  The three merges go on where *)
(* the one before ended: they are one.                                     *)
Split(q, heap0, all, sz1, sz2) ==
  [q |-> [q EXCEPT !.insertHeap = heap0, !.buffer1 = SubSeq(all, 1, sz1),
                   !.buffer2[0] = SubSeq(all, sz1 + 1, sz1 + sz2)],
   segment |-> SubSeq(all, sz1 + sz2 + 1, sz1 + sz2 + shape.KNN)]

PassBuffers(q, sorted) ==
  LET old == q.buffer1 \o q.buffer2[0]
  IN  Split(q, sorted.heap, Merge(<<old, sorted.to>>, Len(old) + shape.KNN).to,
            Len(q.buffer1), Len(q.buffer2[0]))

InsertNew(s, free) ==
  BuffersToTree(AddSegment(MakeSpaceAvailable(s.q, free), free, s.segment), free)

RefillIfDry(q) == IF q.buffer1 = <<>> THEN RefillBuffer1(q) ELSE q

EmptyInsertHeap(q) ==
  RefillIfDry(InsertNew(PassBuffers(q, SortTo(q.insertHeap)), FreeLevel(q)))

-------------------------------------------------------------------------------
(* Operations                                                              *)
Init ==
  /\ shape \in Shapes
  /\ heap = NewKNHeap(shape)
  /\ inserted = 0
  /\ result = [key |-> 0, value |-> 0]

InsertHeapFull == heap.insertHeap.size = shape.KNN

(* There is room for another segment.  The code has no such check: it has  *)
(* room for KNN * KNKMAX^KNLevels elements, and the search ends long       *)
(* before.                                                                 *)
HasRoom == \E l \in Levels : SpaceIsAvailable(heap.tree[l], shape.KNKMAX)

Insert(key) ==
  /\ HasRoom
  /\ LET q == IF InsertHeapFull THEN EmptyInsertHeap(heap) ELSE heap
     IN  heap' = [q EXCEPT !.insertHeap = InsertHeap(@, [key |-> key, value |-> inserted + 1])]
  /\ inserted' = inserted + 1
  /\ UNCHANGED <<shape, result>>

HeapMin == heap.insertHeap.data[1]

FromBuffer == HeapMin.key >= HeadKey(heap.buffer1)

DeleteFromBuffer ==
  /\ GetSize > 0 /\ FromBuffer
  /\ result' = heap.buffer1[1]
  /\ LET q == [heap EXCEPT !.buffer1 = Tail(@)]
     IN  heap' = RefillIfDry(q)
  /\ UNCHANGED <<shape, inserted>>

DeleteFromHeap ==
  /\ GetSize > 0 /\ ~FromBuffer
  /\ result' = HeapMin
  /\ heap' = [heap EXCEPT !.insertHeap = DeleteMin(@)]
  /\ UNCHANGED <<shape, inserted>>

Next == DeleteFromBuffer \/ DeleteFromHeap \/ \E key \in Keys : Insert(key)

Spec == Init /\ [][Next]_vars

-------------------------------------------------------------------------------
(* Properties                                                              *)
InTree(i) == UNION {Range(heap.tree[i].current[leaf]) : leaf \in 0 .. heap.tree[i].k - 1}

InLevels == UNION {Range(heap.buffer2[i]) \cup InTree(i) : i \in Levels}

Everything == Range(heap.buffer1) \cup Range(Elements(heap.insertHeap)) \cup InLevels

(* Every element that went in and was not taken out is still there, and    *)
(* what deleteMin returns has the least key of all: the fringe is a        *)
(* priority queue, whatever its sizes.                                     *)
Queue == INSTANCE PriorityQueue WITH items <- Everything
Implements == Queue!Spec

NoneBelow(elements, bound) == \A e \in elements : bound <= e.key

(* The binary heap and the loser trees are in order between calls: the     *)
(* entries of a tree are those of the tournament of its segments' heads,   *)
(* and no segment is lost, freed twice or kept when it is empty.           *)
TreesRight ==
  /\ HeapOrdered(heap.insertHeap)
  /\ \A i \in Levels : TreeRight(heap.tree[i])

(* What waits in a buffer precedes what is behind it, and the delete       *)
(* buffer runs empty only if there is nothing behind it: getMin looks at   *)
(* nothing but this buffer and the binary heap.                            *)
BuffersOrdered ==
  LET sorted(s) == IsSorted(s, LAMBDA e, f : e.key <= f.key) IN
  /\ sorted(heap.buffer1) /\ Len(heap.buffer1) <= shape.KNBufferSize1
  /\ heap.buffer1 = <<>> => InLevels = {}
  /\ heap.buffer1 # <<>> => NoneBelow(InLevels, Last(heap.buffer1).key)
  /\ \A i \in Levels :
       /\ sorted(heap.buffer2[i]) /\ Len(heap.buffer2[i]) <= shape.KNN
       /\ heap.buffer2[i] # <<>> =>
            NoneBelow(InTree(i), Last(heap.buffer2[i]).key)

(* Each store of the fringe is in order within itself, and all of them are *)
(* in order among each other: what a transfer between two of them relies   *)
(* on, and what the next one finds.                                        *)
OrderRight == TreesRight /\ BuffersOrdered

(* getSize(), which the search compares with its limit and isEmpty() with  *)
(* 0, counts the elements, none of which is in two places, and the levels  *)
(* beyond activeLevels, which nothing looks at, are empty.  The assertions *)
(* of knheap.h, most of which are about sizes, hold.                       *)
SizesRight ==
  /\ GetSize = Cardinality(Everything)
  /\ heap.size = Cardinality(InLevels)
  /\ heap.activeLevels <= shape.KNLevels
  /\ \A i \in Levels :
       /\ heap.tree[i].size = Cardinality(InTree(i))
       /\ i >= heap.activeLevels => heap.buffer2[i] = <<>> /\ InTree(i) = {}
  /\ ~heap.broken /\ \A i \in Levels : ~heap.tree[i].broken
===============================================================================
