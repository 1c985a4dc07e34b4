------------------------------- MODULE LoserTree -------------------------------
(***************************************************************************)
(* KNLooserTree of knheap.h: up to KNKMAX sorted segments and a tree of    *)
(* losers that merges them.                                                *)
(*                                                                         *)
(* A segment is the sequence of its elements from current[i] on; the       *)
(* sentinel behind it is its end.  A tree t is a record                    *)
(*   k, logK   number of leaves                                            *)
(*   size      total number of elements stored                             *)
(*   empty     the stack of free leaves, its top last                      *)
(*   linked    the leaves whose pointer is into a segment, not to dummy    *)
(*   current   the segments of the leaves 0 .. k-1                         *)
(*   entry     entry[0] is the winner, entry[1 .. k-1] are the losers      *)
(*   broken    an assertion of knheap.h has failed                         *)
(***************************************************************************)
EXTENDS BinaryHeap, TLC

HeadKey(segment) == IF segment = <<>> THEN Supremum ELSE segment[1].key

Assume(t, asserted) == [t EXCEPT !.broken = @ \/ ~asserted]

-------------------------------------------------------------------------------
(* Merging sentinel terminated sequences                                   *)
Sources(from) == [from |-> from, to |-> <<>>]

(* Copies the head of source i.  At its sentinel this has no value.        *)
Copy(s, i) == [s EXCEPT !.to = Append(@, Head(s.from[i])), !.from[i] = Tail(@)]

(* merge: the source to copy from, and both after sz copies.               *)
Merge(from, sz) ==
  LET loop[n \in 0 .. sz] ==
        IF n = 0 THEN Sources(from)
        ELSE LET s == loop[n - 1]
             IN  Copy(s, IF HeadKey(s.from[2]) <= HeadKey(s.from[1]) THEN 2 ELSE 1)
  IN  loop[sz]

(* merge3 and merge4 keep the sources in the order of their heads.         *)
Reorder3(key, o) ==
  LET a == o[1] IN
  CASE key[a] < key[o[2]] -> o
    [] key[a] >= key[o[2]] /\ key[a] < key[o[3]] -> <<o[2], a, o[3]>>
    [] OTHER -> <<o[2], o[3], a>>

Reorder4(key, o) ==
  LET a == o[1] IN
  CASE key[a] < key[o[3]] /\ key[a] < key[o[2]]  -> o
    [] key[a] < key[o[3]] /\ key[a] >= key[o[2]] -> <<o[2], a, o[3], o[4]>>
    [] key[a] >= key[o[3]] /\ key[a] < key[o[4]] -> <<o[2], o[3], a, o[4]>>
    [] OTHER                                     -> <<o[2], o[3], o[4], a>>

Heads(from) == [i \in DOMAIN from |-> HeadKey(from[i])]

Start3(key) ==
  IF key[1] < key[2]
  THEN IF key[2] < key[3] THEN <<1, 2, 3>>
       ELSE IF key[3] < key[1] THEN <<3, 1, 2>> ELSE <<1, 3, 2>>
  ELSE IF key[2] < key[3]
       THEN IF key[1] < key[3] THEN <<2, 1, 3>> ELSE <<2, 3, 1>>
       ELSE <<3, 2, 1>>

Merge3(from, sz) ==
  LET loop[n \in 0 .. sz] ==
        IF n = 0 THEN [s |-> Sources(from), order |-> Start3(Heads(from))]
        ELSE LET l == loop[n - 1]
                 s == Copy(l.s, l.order[1])
             IN  [s |-> s, order |-> Reorder3(Heads(s.from), l.order)]
  IN  loop[sz].s

(* The orders merge4 tries, in turn.                                       *)
Rotations(a, b, c, d) == << <<a, b, c, d>>, <<b, c, d, a>>, <<c, d, a, b>>, <<d, a, b, c>> >>

Starts4 ==
  Rotations(1, 2, 3, 4) \o Rotations(1, 4, 2, 3) \o Rotations(1, 3, 4, 2) \o
  Rotations(3, 1, 2, 4) \o Rotations(4, 1, 3, 2) \o Rotations(2, 1, 4, 3)

Start4(key) ==
  LET sorted(o) == key[o[1]] <= key[o[2]] /\ key[o[2]] <= key[o[3]] /\ key[o[3]] <= key[o[4]]
  IN  Starts4[Min({i \in DOMAIN Starts4 : sorted(Starts4[i])})]

Merge4(from, sz) ==
  LET loop[n \in 0 .. sz] ==
        IF n = 0 THEN [s |-> Sources(from), order |-> Start4(Heads(from))]
        ELSE LET l == loop[n - 1]
                 s == Copy(l.s, l.order[1])
             IN  [s |-> s, order |-> Reorder4(Heads(s.from), l.order)]
  IN  loop[sz].s

-------------------------------------------------------------------------------
(* The tree of losers                                                      *)
(* initWinner: the winning leaf below every node; node n >= k is a leaf.   *)
Winners(k, current) ==
  LET winner[n \in 1 .. 2 * k - 1] ==
        IF n >= k THEN n - k
        ELSE LET left  == winner[2 * n]
                 right == winner[2 * n + 1]
             IN  IF HeadKey(current[left]) <= HeadKey(current[right]) THEN left ELSE right
  IN  winner

(* rebuildLooserTree                                                       *)
Rebuild(t) ==
  LET winner == Winners(t.k, t.current)
      loser(n) == IF winner[n] = winner[2 * n] THEN winner[2 * n + 1] ELSE winner[2 * n]
      entryOf(leaf) == [key |-> HeadKey(t.current[leaf]), index |-> leaf]
  IN  [t EXCEPT !.entry = [n \in 0 .. t.k - 1 |->
                             entryOf(IF n = 0 THEN winner[1] ELSE loser(n))]]

NewTree ==
  Rebuild([k |-> 1, logK |-> 0, size |-> 0, empty |-> <<0>>, linked |-> {},
           current |-> (0 :> <<>>), entry |-> <<>>, broken |-> FALSE])

(* Mutant: the new entry loses wherever the old winner comes from.         *)
ReplaceAlways(up, new, loser, mask, node) ==
  [entry |-> IF new.key < loser.key
             THEN [up.entry EXCEPT ![node] = IF new.key < up.winner.key THEN up.winner ELSE new]
             ELSE up.entry,
   winner |-> loser]

(* One level of updateOnInsert: nothing to do if the old winner came from  *)
(* the same subtree.                                                       *)
ReplaceLoser(up, new, loser, mask, node) ==
  IF (up.winner.index \div mask) % 2 = (new.index \div mask) % 2 THEN up
  ELSE [entry |-> IF new.key < loser.key
                  THEN [up.entry EXCEPT ![node] =
                          IF new.key < up.winner.key THEN up.winner ELSE new]
                  ELSE up.entry,
        winner |-> loser]

(* updateOnInsert: from the root down to the new leaf.                     *)
UpdateOnInsert(t, new) ==
  LET down[level \in 0 .. t.logK] ==
        IF level = 0
        THEN [entry  |-> IF new.key < t.entry[0].key THEN [t.entry EXCEPT ![0] = new] ELSE t.entry,
              winner |-> t.entry[0]]
        ELSE LET bit  == 2 ^ (t.logK - level)
                 node == (new.index + t.k) \div (2 * bit)
             IN  ReplaceLoser(down[level - 1], new, t.entry[node], bit, node)
  IN  [t EXCEPT !.entry = down[t.logK].entry]

DoubleK(t, kmax) ==
  LET k == 2 * t.k
      u == Assume(t, t.empty = <<>> /\ t.k < kmax)
  IN  Rebuild([u EXCEPT !.k = k, !.logK = @ + 1,
                        !.empty = @ \o [i \in 1 .. t.k |-> k - i],
                        !.current = [i \in 0 .. k - 1 |-> IF i < t.k THEN @[i] ELSE <<>>]])

(* compactTree: the segments that are not at their end move to the left.   *)
CompactTree(t) ==
  LET leaves == SelectSeq([i \in 1 .. t.k |-> i - 1], LAMBDA i : t.current[i] # <<>>)
      to     == Len(leaves)
      halve[k \in 1 .. t.k] == IF to < k \div 2 THEN halve[k \div 2] ELSE k
      k      == halve[t.k]
      log[n \in 1 .. t.k] == IF n = 1 THEN 0 ELSE 1 + log[n \div 2]
      u      == Assume(t, t.logK > 0)
  IN  Rebuild([u EXCEPT !.k = k, !.logK = log[k],
                        !.linked = 0 .. to - 1,
                        !.empty = [i \in 1 .. k - to |-> to + i - 1],
                        !.current = [i \in 0 .. k - 1 |->
                                       IF i < to THEN @[leaves[i + 1]] ELSE <<>>]])

SpaceIsAvailable(t, kmax) == t.k < kmax \/ t.empty # <<>>

(* An empty segment is freed at once.                                      *)
InsertSegment(t, segment, kmax) ==
  IF segment = <<>> THEN t
  ELSE LET u     == IF t.empty = <<>> THEN DoubleK(t, kmax) ELSE t
           index == Last(u.empty)
       IN  UpdateOnInsert([u EXCEPT !.empty = Front(@), !.current[index] = segment,
                                    !.linked = @ \cup {index},
                                    !.size = @ + Len(segment),
                                    !.broken = @ \/ HeadKey(segment) = Supremum],
                          [key |-> HeadKey(segment), index |-> index])

DeallocateSegment(t, index) ==
  [t EXCEPT !.linked = @ \ {index}, !.empty = Append(@, index)]

SegmentIsEmpty(t, i) == t.current[i] = <<>> /\ i \in t.linked

DeallocateEmpty(t) ==
  LET upTo[i \in 0 .. t.k] ==
        IF i = 0 THEN t
        ELSE IF SegmentIsEmpty(t, i - 1) THEN DeallocateSegment(upTo[i - 1], i - 1)
             ELSE upTo[i - 1]
  IN  upTo[t.k]

-------------------------------------------------------------------------------
(* multiMerge: the l smallest elements                                     *)
(* One comparison on the way up from the winner's leaf.                    *)
TreeStep(s, logK, level) ==
  LET pos   == (s.winner.index + 2 ^ logK) \div 2 ^ (logK - level + 1)
      loser == s.tree.entry[pos]
  IN  IF loser.key < s.winner.key
      THEN [s EXCEPT !.tree.entry[pos] = s.winner, !.winner = loser]
      ELSE s

(* Write the winner, advance its segment, free it at its end, and find the *)
(* next winner.                                                            *)
MergeNext(s, logK) ==
  LET index == s.winner.index
      rest  == Tail(s.tree.current[index])
      moved == [s.tree EXCEPT !.current[index] = rest]
      s1    == [tree   |-> IF rest = <<>> THEN DeallocateSegment(moved, index) ELSE moved,
                winner |-> [key |-> HeadKey(rest), index |-> index],
                to     |-> Append(s.to, [key |-> s.winner.key,
                                         value |-> Head(s.tree.current[index]).value])]
      up[level \in 1 .. logK + 1] ==
        IF level = logK + 1 THEN s1 ELSE TreeStep(up[level + 1], logK, level)
  IN  up[1]

MultiMergeUnrolled(t, l, logK) ==
  LET loop[n \in 0 .. l] ==
        IF n = 0 THEN [tree |-> Assume(t, t.logK >= logK), winner |-> t.entry[0], to |-> <<>>]
        ELSE MergeNext(loop[n - 1], logK)
  IN  [tree |-> [loop[l].tree EXCEPT !.entry[0] = loop[l].winner], to |-> loop[l].to]

(* The copies of it, one for each width.  Trees of up to 32 leaves reach   *)
(* the first three.                                                        *)
MultiMergeUnrolled3(t, l)  == MultiMergeUnrolled(t, l, 3)
MultiMergeUnrolled4(t, l)  == MultiMergeUnrolled(t, l, 4)
MultiMergeUnrolled5(t, l)  == MultiMergeUnrolled(t, l, 5)
MultiMergeUnrolled6(t, l)  == MultiMergeUnrolled(t, l, 6)
MultiMergeUnrolled7(t, l)  == MultiMergeUnrolled(t, l, 7)
MultiMergeUnrolled8(t, l)  == MultiMergeUnrolled(t, l, 8)
MultiMergeUnrolled9(t, l)  == MultiMergeUnrolled(t, l, 9)
MultiMergeUnrolled10(t, l) == MultiMergeUnrolled(t, l, 10)
MultiMergeK(t, l) == MultiMergeUnrolled(t, l, t.logK)

(* A single segment.                                                       *)
CopySegment(t, l) ==
  LET rest == SubSeq(t.current[0], l + 1, Len(t.current[0]))
      u    == Assume(t, t.entry[0].index = 0 /\ (t.empty = <<>> \/ l = 0))
  IN  [tree |-> DeallocateEmpty([u EXCEPT !.current[0] = rest, !.entry[0].key = HeadKey(rest)]),
       to   |-> SubSeq(t.current[0], 1, l)]

(* Two or four segments: the tree is rebuilt.                              *)
MergeSegments(t, s) ==
  [tree |-> DeallocateEmpty(Rebuild([t EXCEPT !.current = [i \in 0 .. t.k - 1 |-> s.from[i + 1]]])),
   to   |-> s.to]

Segments(t) == [i \in 1 .. t.k |-> t.current[i - 1]]

Merged(t, l) ==
  CASE t.logK = 0 -> CopySegment(t, l)
    [] t.logK = 1 -> MergeSegments(t, Merge(Segments(t), l))
    [] t.logK = 2 -> MergeSegments(t, Merge4(Segments(t), l))
    [] t.logK = 3 -> MultiMergeUnrolled3(t, l)
    [] t.logK = 4 -> MultiMergeUnrolled4(t, l)
    [] t.logK = 5 -> MultiMergeUnrolled5(t, l)
    [] t.logK = 6 -> MultiMergeUnrolled6(t, l)
    [] t.logK = 7 -> MultiMergeUnrolled7(t, l)
    [] t.logK = 8 -> MultiMergeUnrolled8(t, l)
    [] t.logK = 9 -> MultiMergeUnrolled9(t, l)
    [] t.logK = 10 -> MultiMergeUnrolled10(t, l)
    [] OTHER -> MultiMergeK(t, l)

(* The tree is compacted if it has got considerably smaller.               *)
Compacted(t) == IF t.k > 1 /\ Len(t.empty) >= (3 * t.k) \div 5 THEN CompactTree(t) ELSE t

TakenFrom(merged, l) ==
  [tree |-> Compacted([merged.tree EXCEPT !.size = @ - l]), to |-> merged.to]

MultiMerge(t, l) == TakenFrom(Merged(t, l), l)

-------------------------------------------------------------------------------
(* What a tree is between calls.  Replaying the tournament from the        *)
(* entries: who won at every node.                                         *)
Replayed(t) ==
  LET winner[n \in 1 .. 2 * t.k - 1] ==
        IF n >= t.k THEN n - t.k
        ELSE IF t.entry[n].index = winner[2 * n] THEN winner[2 * n + 1] ELSE winner[2 * n]
  IN  winner

(* The loser of a node is one of the two that met there, the winner has no *)
(* larger key, and the entries have the keys of the segments' heads.       *)
EntriesRight(t) ==
  LET winner == Replayed(t)
      head(i) == HeadKey(t.current[i])
  IN  /\ t.entry[0].index = winner[1]
      /\ \A n \in 1 .. t.k - 1 : /\ t.entry[n].index \in {winner[2 * n], winner[2 * n + 1]}
                                 /\ head(winner[n]) <= t.entry[n].key
      /\ \A n \in 0 .. t.k - 1 : t.entry[n].key = head(t.entry[n].index)

(* Every leaf is either free or holds what is left of a sorted segment: no *)
(* segment is lost, freed twice or kept when it is empty.                  *)
LeavesRight(t) ==
  /\ IsInjective(t.empty)
  /\ ToSet(t.empty) \cap t.linked = {}
  /\ ToSet(t.empty) \cup t.linked = 0 .. t.k - 1
  /\ \A i \in 0 .. t.k - 1 :
       /\ (t.current[i] = <<>>) = (i \notin t.linked)
       /\ IsSorted(t.current[i], LAMBDA e, f : e.key <= f.key)

TreeRight(t) ==
  /\ t.k = 2 ^ t.logK
  /\ EntriesRight(t) /\ LeavesRight(t)
===============================================================================
