--------------------------- MODULE SynSearchCoverage ---------------------------
(***************************************************************************)
(* Theorems about what a search visits, for all trees, graphs, knowledge   *)
(* bases and limits: that a search which runs dry has been everywhere, and *)
(* that no known fact next to a visited one goes unreported; and about its *)
(* nodes: how many of them wait at a time, and that the hash kept          *)
(* incrementally is the one of the fact as long as the steps to it are     *)
(* plain.                                                                  *)
(***************************************************************************)
EXTENDS SynSearchProofs

-------------------------------------------------------------------------------
(* The children of a node depend on the call only.                         *)
LEMMA ChildrenFixed ==
  ASSUME query' = query, NEW n, NEW h PROVE Children(n, h)' = Children(n, h)
  <1>0. tree' = tree
    BY DEF tree
  <1>1. ASSUME NEW e
        PROVE  /\ MutationRelation(n, e)' = MutationRelation(n, e)
               /\ MutationCost(n, e)' = MutationCost(n, e)
               /\ Mutation(n, h, e)' = Mutation(n, h, e)
               /\ MayMutate(n, e)' = MayMutate(n, e)
    <2>1. MutationRelation(n, e)' = MutationRelation(n, e)
      BY <1>0 DEF MutationRelation
    <2>2. MutationCost(n, e)' = MutationCost(n, e)
      BY <2>1 DEF MutationCost, StepCost
    <2>3. Mutation(n, h, e)' = Mutation(n, h, e)
      BY <1>0, <2>1 DEF Mutation, MutateQuantifier
    <2>4. MayMutate(n, e)' = MayMutate(n, e)
      BY <1>0, <2>2 DEF MayMutate
    <2> QED BY <2>1, <2>2, <2>3, <2>4
  <1>2. EdgesInto(n)' = EdgesInto(n) /\ EdgesTaken(n)' = EdgesTaken(n)
    BY <1>1 DEF EdgesInto, EdgesTaken
  <1>3. ASSUME NEW d
        PROVE  /\ DeletionCost(n, d)' = DeletionCost(n, d)
               /\ Deletion(n, h, d)' = Deletion(n, h, d)
    BY <1>0 DEF DeletionRelation, DeletionCost, StepCost, Deletion
  <1>4. DependentsDeleted(n)' = DependentsDeleted(n)
    BY <1>0, <1>3 DEF DependentsDeleted
  <1>5. ASSUME NEW i PROVE Moved(n, h, i)' = Moved(n, h, i)
    BY <1>0 DEF Moved, Token, GovernorAt
  <1>6. IndexMoves(n, h)' = IndexMoves(n, h)
    <2>1. NextInOrder(n)' = NextInOrder(n)
      BY <1>0 DEF NextInOrder
    <2>2. NextQuantifier(n.index)' = NextQuantifier(n.index)
      BY <1>0, Zenon DEF NextQuantifier
    <2>3. Moved(n, h, NextQuantifier(n.index))' = Moved(n, h, NextQuantifier(n.index))
      BY <1>0, <2>2 DEF Moved, Token, GovernorAt
    <2>4. {Moved(n, h, i) : i \in NextInOrder(n)}' = {Moved(n, h, i) : i \in NextInOrder(n)}
      BY <1>5, <2>1
    <2> QED BY <1>0, <2>3, <2>4 DEF IndexMoves
  <1>7. ASSUME NEW k PROVE Mutation(n, h, EdgesInto(n)[k])' = Mutation(n, h, EdgesInto(n)[k])
    <2>1. PICK e : e = EdgesInto(n)[k]
      OBVIOUS
    <2>2. (EdgesInto(n)[k])' = e
      BY <1>2, <2>1
    <2> QED BY <1>1, <2>1, <2>2
  <1>8. {Mutation(n, h, EdgesInto(n)[k]) : k \in EdgesTaken(n)}'
        = {Mutation(n, h, EdgesInto(n)[k]) : k \in EdgesTaken(n)}
    BY <1>2, <1>7
  <1>9. {Deletion(n, h, d) : d \in DependentsDeleted(n)}' = {Deletion(n, h, d) : d \in DependentsDeleted(n)}
    BY <1>3, <1>4
  <1> QED BY <1>6, <1>8, <1>9 DEF Children

(* What an iteration does not push it remembers.                           *)
LEMMA PushedOrRemembered ==
  ASSUME NEW s, NEW h, NEW c \in Children(s.node, h)
  PROVE  Remembered(c) \/ \E p \in Pushed(s, h) : p.node = c
  <1> DEFINE n == s.node
  <1>1. CASE \E k \in EdgesTaken(n) : c = Mutation(n, h, EdgesInto(n)[k])
    <2>1. PICK k \in EdgesTaken(n) : c = Mutation(n, h, EdgesInto(n)[k])
      BY <1>1
    <2>2. CASE ~Remembered(c)
      <3>1. k \in Mutations(n, h)
        BY <2>1, <2>2 DEF Mutations
      <3>2. PushedMutation(n, h, k) \in Pushed(s, h)
        BY <3>1 DEF Pushed
      <3>3. PushedMutation(n, h, k).node = c
        BY <2>1 DEF PushedMutation, Scored
      <3> QED BY <3>2, <3>3
    <2> QED BY <2>2
  <1>2. CASE \E d \in DependentsDeleted(n) : c = Deletion(n, h, d)
    <2>1. PICK d \in DependentsDeleted(n) : c = Deletion(n, h, d)
      BY <1>2
    <2>2. PushedDeletion(n, h, d) \in Pushed(s, h) /\ PushedDeletion(n, h, d).node = c
      BY <2>1 DEF Pushed, PushedDeletion, Scored
    <2> QED BY <2>2
  <1>3. CASE c \in IndexMoves(n, h)
    <2> DEFINE p == Scored(c, s.cost, <<"move", c.index>>)
    <2>1. p \in Pushed(s, h) /\ p.node = c
      BY <1>3 DEF Pushed, Scored
    <2> QED BY <2>1
  <1> QED BY <1>1, <1>2, <1>3 DEF Children

-------------------------------------------------------------------------------
(* With SEARCH_FULL_MEMORY                                                 *)

FactOf(n) == <<n.factHash, n.index>>

VisitedFact(f) == \E j \in Visited : FactOf(history[j]) = f

(* A child is on the fringe until its fact and token are remembered, and   *)
(* what is remembered has been visited.                                    *)
RemembersFacts ==
  /\ \A f \in fullMemory : VisitedFact(f)
  /\ pc = "search" =>
       \A h \in Visited : \A c \in Successors(h) :
         FactOf(c) \in fullMemory \/ \E s \in fringe : s.node = c

(* An iteration enters the popped node, s.node, as history[k].             *)
LEMMA VisitedGrows ==
  ASSUME TypeOK, NEW s \in fringe, Tick(s), NEW k, k = historySize
  PROVE  /\ Visited' = Visited \cup {k} /\ history'[k] = s.node
         /\ \A h \in Visited : history'[h] = history[h] /\ Successors(h)' = Successors(h)
         /\ Successors(k)' = Children(s.node, k)
  <1>1. /\ historySize \in Nat \ {0} /\ DOMAIN history = 0 .. historySize - 1
        /\ historySize' = historySize + 1 /\ history'[historySize] = s.node
        /\ \A i \in DOMAIN history : history'[i] = history[i]
    BY TickStep
  <1>2. Visited' = Visited \cup {k} /\ Visited \subseteq DOMAIN history
    BY <1>1 DEF Visited
  <1>3. query' = query
    BY DEF Tick
  <1>4. ASSUME NEW h \in Visited PROVE history'[h] = history[h] /\ Successors(h)' = Successors(h)
    <2>1. history'[h] = history[h]
      BY <1>1, <1>2
    <2>2. PICK n : n = history[h]
      OBVIOUS
    <2>3. Children(n, h)' = Children(n, h)
      BY <1>3, ChildrenFixed
    <2> QED BY <2>1, <2>2, <2>3 DEF Successors
  <1>5. Children(s.node, k)' = Children(s.node, k)
    BY <1>3, ChildrenFixed
  <1>6. Successors(k)' = Children(s.node, k)
    BY <1>1, <1>5 DEF Successors
  <1> QED BY <1>1, <1>2, <1>4, <1>6

LEMMA VisitedSame ==
  ASSUME UNCHANGED <<query, history, historySize>>
  PROVE  Visited' = Visited /\ \A h : Successors(h)' = Successors(h)
  <1>1. ASSUME NEW h PROVE Successors(h)' = Successors(h)
    <2>1. PICK n : n = history[h]
      OBVIOUS
    <2>2. Children(n, h)' = Children(n, h)
      BY ChildrenFixed
    <2> QED BY <2>1, <2>2 DEF Successors
  <1> QED BY <1>1 DEF Visited

LEMMA FactsInit == Init => RemembersFacts
  <1> SUFFICES ASSUME Init PROVE RemembersFacts
    OBVIOUS
  <1>1. fullMemory = {} /\ pc = "begin"
    BY DEF Init
  <1> QED BY <1>1 DEF RemembersFacts

LEMMA FactsTick ==
  ASSUME SEARCH_FULL_MEMORY, TypeOK, RemembersFacts, NEW s \in fringe, Tick(s)
  PROVE  RemembersFacts'
  <1>1. PICK k : k = historySize
    OBVIOUS
  <1>2. /\ Visited' = Visited \cup {k} /\ history'[k] = s.node
        /\ \A h \in Visited : history'[h] = history[h] /\ Successors(h)' = Successors(h)
        /\ Successors(k)' = Children(s.node, k)
    BY <1>1, VisitedGrows
  <1>3. /\ fullMemory' = fullMemory \cup {FactOf(s.node)} /\ pc = "search"
        /\ fringe' = (fringe \ {s}) \cup Pushed(s, k)
    BY <1>1 DEF Tick, FactOf
  <1>4. ASSUME NEW f \in fullMemory' PROVE VisitedFact(f)'
    <2>1. CASE f \in fullMemory
      <3>1. PICK j \in Visited : FactOf(history[j]) = f
        BY <2>1 DEF RemembersFacts, VisitedFact
      <3>2. j \in Visited' /\ FactOf(history'[j]) = f
        BY <1>2, <3>1
      <3> QED BY <3>2 DEF VisitedFact, FactOf
    <2>2. CASE f = FactOf(s.node)
      <3>1. k \in Visited' /\ FactOf(history'[k]) = f
        BY <1>2, <2>2
      <3> QED BY <3>1 DEF VisitedFact, FactOf
    <2> QED BY <1>3, <2>1, <2>2
  <1>5. ASSUME NEW h \in Visited', NEW c \in Successors(h)'
        PROVE  FactOf(c) \in fullMemory' \/ \E u \in fringe' : u.node = c
    <2>1. CASE h \in Visited
      <3>1. c \in Successors(h)
        BY <1>2, <2>1
      <3>2. FactOf(c) \in fullMemory \/ \E u \in fringe : u.node = c
        BY <1>3, <2>1, <3>1 DEF RemembersFacts
      <3>3. CASE FactOf(c) \in fullMemory
        BY <1>3, <3>3
      <3>4. CASE \E u \in fringe : u.node = c
        <4>1. PICK u \in fringe : u.node = c
          BY <3>4
        <4> QED BY <1>3, <4>1
      <3> QED BY <3>2, <3>3, <3>4
    <2>2. CASE h = k
      <3>1. c \in Children(s.node, k)
        BY <1>2, <2>2
      <3>2. ~Remembered(c)
        BY DEF Remembered, CycleChecked
      <3>3. PICK p \in Pushed(s, k) : p.node = c
        BY <3>1, <3>2, PushedOrRemembered
      <3> QED BY <1>3, <3>3
    <2> QED BY <1>2, <2>1, <2>2
  <1> QED BY <1>4, <1>5 DEF RemembersFacts

LEMMA NothingVisited ==
  ASSUME TypeOK, NotBegun, pc = "begin" PROVE Visited = {}
  BY DEF TypeOK, NotBegun, Visited

LEMMA FactsSame ==
  ASSUME RemembersFacts, UNCHANGED <<query, history, historySize, fullMemory>>,
         pc' = "search" => pc = "search" /\ fringe' = fringe
  PROVE  RemembersFacts'
  <1>1. Visited' = Visited /\ \A h : Successors(h)' = Successors(h)
    BY VisitedSame
  <1>2. ASSUME NEW f, VisitedFact(f) PROVE VisitedFact(f)'
    BY <1>1, <1>2 DEF VisitedFact
  <1> QED BY <1>1, <1>2 DEF RemembersFacts

LEMMA FactsNext ==
  ASSUME SEARCH_FULL_MEMORY, TypeOK, NotBegun, RemembersFacts, [Next]_vars PROVE RemembersFacts'
  <1>1. CASE Begin
    <2>1. Visited' = {} /\ fullMemory' = fullMemory
      BY <1>1 DEF Begin, Visited
    <2>2. fullMemory = {}
      <3>1. Visited = {}
        BY <1>1, NothingVisited DEF Begin
      <3> QED BY <3>1 DEF RemembersFacts, VisitedFact
    <2> QED BY <2>1, <2>2 DEF RemembersFacts
  <1>2. ASSUME NEW s \in fringe, Tick(s) PROVE RemembersFacts'
    BY <1>2, FactsTick
  <1>3. ASSUME NEW s \in fringe, SkipVisited(s) PROVE RemembersFacts'
    <2>1. /\ UNCHANGED <<query, history, historySize, fullMemory, pc>>
          /\ fringe' = fringe \ {s} /\ FactOf(s.node) \in fullMemory
      BY <1>3 DEF SkipVisited, FactOf
    <2>2. Visited' = Visited /\ \A h : Successors(h)' = Successors(h)
      BY <2>1, VisitedSame
    <2>3. ASSUME NEW f, VisitedFact(f) PROVE VisitedFact(f)'
      BY <2>1, <2>2, <2>3 DEF VisitedFact
    <2>4. ASSUME pc = "search", NEW h \in Visited, NEW c \in Successors(h)
          PROVE  FactOf(c) \in fullMemory \/ \E u \in fringe' : u.node = c
      <3>1. FactOf(c) \in fullMemory \/ \E u \in fringe : u.node = c
        BY <2>4 DEF RemembersFacts
      <3> QED BY <2>1, <3>1
    <2> QED BY <2>1, <2>2, <2>3, <2>4 DEF RemembersFacts
  <1>4. ASSUME NEW s, Refuse \/ EndSearch \/ Return \/ CheckFringe(s) PROVE RemembersFacts'
    <2>1. pc' # "search" /\ UNCHANGED <<query, history, historySize, fullMemory>>
      BY <1>4 DEF Refuse, EndSearch, Return, CheckFringe
    <2> QED BY <2>1, FactsSame
  <1>5. CASE UNCHANGED vars
    BY <1>5, FactsSame DEF vars
  <1> QED BY <1>1, <1>2, <1>3, <1>4, <1>5 DEF Next

(* With SEARCH_FULL_MEMORY, a search that finds its fringe empty has       *)
(* visited every child of every fact it visited, up to the hash and the    *)
(* token: a duplicate visit that is dropped loses nothing.                 *)
THEOREM FullMemoryIsExhaustive ==
  ASSUME SEARCH_FULL_MEMORY PROVE Spec => []ExhaustiveByFact
  <1> DEFINE Inv == TypeOK /\ NotBegun /\ RemembersFacts
  <1>1. Init => Inv
    BY TypeInit, FactsInit DEF Init, NotBegun
  <1>2. Inv /\ [Next]_vars => Inv'
    BY TypeNext, NotBegunNext, FactsNext
  <1>3. Inv => ExhaustiveByFact
    <2> SUFFICES ASSUME Inv, pc = "search", fringe = {}, NEW h \in Visited, NEW c \in Successors(h)
                 PROVE  \E j \in Visited : /\ history[j].factHash = c.factHash
                                           /\ history[j].index = c.index
      BY DEF ExhaustiveByFact
    <2>1. FactOf(c) \in fullMemory
      BY DEF RemembersFacts
    <2>2. PICK j \in Visited : FactOf(history[j]) = FactOf(c)
      BY <2>1 DEF RemembersFacts, VisitedFact
    <2> QED BY <2>2 DEF FactOf
  <1> QED BY <1>1, <1>2, <1>3, PTL DEF Spec

-------------------------------------------------------------------------------
(* The cycle memory                                                        *)

Slots == 0 .. SEARCH_CYCLE_MEMORY - 1

Entered(n) == \E j \in DOMAIN history : n = history[j]

(* Every slot is blank or holds an entry of the history, and a slot is     *)
(* only written once the one before it is.                                 *)
Holds(m) ==
  \A i \in Slots : /\ m[i] = Blank \/ Entered(m[i])
                   /\ i # 0 /\ m[i] # Blank => Entered(m[i - 1])

LEMMA BlankNotEntered ==
  ASSUME LinksRight, NEW n, Entered(n) PROVE n # Blank
  <1>1. Blank.backpointer = 0 /\ Blank.deleted # {}
    BY DEF Blank
  <1>2. Start.deleted = {}
    BY DEF Start, NodeAt
  <1>3. Linked(n)
    BY DEF Entered, LinksRight
  <1> QED BY <1>1, <1>2, <1>3 DEF Linked

Rows(n, m) ==
  m = [i \in Slots |-> IF i = 0 THEN history[n.backpointer]
                       ELSE IF m[i - 1].backpointer # 0 THEN history[m[i - 1].backpointer]
                       ELSE memory[i]]

LEMMA RowsExist ==
  ASSUME CycleChecked, TypeOK, Holds(memory), NEW n, n.backpointer \in DOMAIN history
  PROVE  \E m : Rows(n, m)
  <1> DEFINE k == SEARCH_CYCLE_MEMORY - 1
             S == {history[j] : j \in DOMAIN history} \cup {memory[i] : i \in Slots}
             next(p) == IF p[2].backpointer # 0 THEN history[p[2].backpointer] ELSE memory[p[1]]
             g == [p \in (1 .. k) \X S |-> next(p)]
  <1>1. k \in Nat /\ Slots = 0 .. k
    BY MemoryAssumption DEF CycleChecked, Slots
  <1>2. ASSUME NEW x \in S, x.backpointer # 0 PROVE history[x.backpointer] \in S
    <2>1. ASSUME Entered(x) PROVE x.backpointer \in DOMAIN history
      <3>1. PICK j \in DOMAIN history : x = history[j]
        BY <2>1 DEF Entered
      <3> QED BY <3>1 DEF TypeOK, Node
    <2>2. Entered(x)
      <3>1. CASE \E j \in DOMAIN history : x = history[j]
        BY <3>1 DEF Entered
      <3>2. CASE \E i \in Slots : x = memory[i]
        BY <1>2, <3>2 DEF Holds, Blank
      <3> QED BY <3>1, <3>2
    <2> QED BY <2>1, <2>2
  <1>3. g \in [(1 .. k) \X S -> S]
    <2>1. ASSUME NEW p \in (1 .. k) \X S PROVE next(p) \in S
      <3>1. p[1] \in Slots /\ p[2] \in S
        BY <1>1
      <3>2. memory[p[1]] \in S
        BY <3>1
      <3> HIDE DEF S
      <3> QED BY <1>2, <3>1, <3>2
    <2> HIDE DEF S, next
    <2> QED BY <2>1
  <1>4. PICK f \in [0 .. k -> S] : Unfolds(f, k, history[n.backpointer], g)
    <2>1. history[n.backpointer] \in S
      OBVIOUS
    <2> HIDE DEF g, S, k
    <2> QED BY <1>1, <1>3, <2>1, RecursionExists
  <1>5. ASSUME NEW i \in 0 .. k
        PROVE  f[i] = IF i = 0 THEN history[n.backpointer]
                      ELSE IF f[i - 1].backpointer # 0 THEN history[f[i - 1].backpointer]
                      ELSE memory[i]
    <2>1. f[i] = IF i = 0 THEN history[n.backpointer] ELSE g[<<i, f[i - 1]>>]
      <3> HIDE DEF g
      <3> QED BY <1>4 DEF Unfolds
    <2>2. CASE i = 0
      BY <2>1, <2>2
    <2>3. CASE i # 0
      <3>1. i \in 1 .. k /\ f[i - 1] \in S
        <4>1. i \in 1 .. k /\ i - 1 \in 0 .. k
          BY <1>1, <2>3
        <4> HIDE DEF S, k
        <4> QED BY <1>4, <4>1
      <3>2. g[<<i, f[i - 1]>>] = IF f[i - 1].backpointer # 0 THEN history[f[i - 1].backpointer]
                                ELSE memory[i]
        <4> HIDE DEF S
        <4> QED BY <3>1
      <3> HIDE DEF g
      <3> QED BY <2>1, <2>3, <3>2
    <2> QED BY <2>2, <2>3
  <1>6. Rows(n, f)
    BY <1>1, <1>4, <1>5 DEF Rows
  <1> QED BY <1>6

(* The slots of MemoryAfter, one by one.                                   *)
LEMMA MemoryRows ==
  ASSUME CycleChecked, TypeOK, Holds(memory), NEW n, n.backpointer \in DOMAIN history,
         NEW m, m = MemoryAfter(n)
  PROVE  /\ m[0] = history[n.backpointer]
         /\ \A i \in Slots : i # 0 =>
              m[i] = IF m[i - 1].backpointer # 0 THEN history[m[i - 1].backpointer] ELSE memory[i]
  <1> DEFINE f == CHOOSE f : Rows(n, f)
  <1>1. Rows(n, f)
    BY RowsExist, Zenon
  <1>2. MemoryAfter(n) = f
    BY Zenon DEF MemoryAfter, Rows, Slots
  <1> HIDE DEF f
  <1>3. \A i \in Slots :
          m[i] = IF i = 0 THEN history[n.backpointer]
                 ELSE IF m[i - 1].backpointer # 0 THEN history[m[i - 1].backpointer] ELSE memory[i]
    BY <1>1, <1>2, Zenon DEF Rows
  <1>4. 0 \in Slots
    BY MemoryAssumption DEF Slots, CycleChecked
  <1>5. m[0] = history[n.backpointer]
    BY <1>3, <1>4, Zenon
  <1>6. \A i \in Slots : i # 0 =>
          m[i] = IF m[i - 1].backpointer # 0 THEN history[m[i - 1].backpointer] ELSE memory[i]
    BY <1>3, Zenon
  <1> QED BY <1>5, <1>6

(* The greatest slot in use, which is the one before memorySize.           *)
LastSlot(m) == Max({0} \cup {i \in 1 .. SEARCH_CYCLE_MEMORY - 1 : m[i - 1].backpointer # 0})

LEMMA LastSlotIs ==
  ASSUME CycleChecked, NEW m
  PROVE  /\ LastSlot(m) \in Slots
         /\ LastSlot(m) # 0 => m[LastSlot(m) - 1].backpointer # 0
         /\ \A i \in Slots : i # 0 /\ m[i - 1].backpointer # 0 => i <= LastSlot(m)
         /\ MemorySizeAfter(m) = LastSlot(m) + 1
  <1> DEFINE S == {0} \cup {i \in 1 .. SEARCH_CYCLE_MEMORY - 1 : m[i - 1].backpointer # 0}
             n == SEARCH_CYCLE_MEMORY - 1
  <1>1. n \in Nat /\ S \in SUBSET (0 .. n) /\ S # {} /\ Slots = 0 .. n
    BY MemoryAssumption DEF CycleChecked, Slots
  <1>2. \E k \in S : \A i \in S : k >= i
    <2> HIDE DEF S, n
    <2> QED BY <1>1, GreatestExists
  <1>3. LastSlot(m) \in S /\ \A i \in S : LastSlot(m) >= i
    <2> DEFINE k == CHOOSE k \in S : \A i \in S : k >= i
    <2>1. LastSlot(m) = k
      BY Zenon DEF LastSlot, Max
    <2>2. k \in S /\ \A i \in S : k >= i
      <3> HIDE DEF S
      <3> QED BY <1>2
    <2> HIDE DEF k, S
    <2> QED BY <2>1, <2>2
  <1>4. MemorySizeAfter(m) = 1 + LastSlot(m)
    BY Zenon DEF MemorySizeAfter, LastSlot
  <1>5. LastSlot(m) \in Nat /\ LastSlot(m) \in Slots
    <2> HIDE DEF S, n
    <2>1. LastSlot(m) \in 0 .. n
      BY <1>1, <1>3, Zenon
    <2> QED BY <1>1, <2>1
  <1> DEFINE l == LastSlot(m)
  <1>6. l # 0 => m[l - 1].backpointer # 0
    <2> HIDE DEF l
    <2>1. l \in S
      BY <1>3 DEF l
    <2> QED BY <2>1
  <1>7. ASSUME NEW i \in Slots, i # 0, m[i - 1].backpointer # 0 PROVE i <= l
    <2>1. i \in S /\ i \in Nat
      BY <1>1, <1>7
    <2>2. l >= i
      <3> HIDE DEF S
      <3> QED BY <1>3, <2>1
    <2> QED BY <1>5, <2>1, <2>2
  <1>8. MemorySizeAfter(m) = l + 1
    BY <1>4, <1>5
  <1> QED BY <1>5, <1>6, <1>7, <1>8

(* After an iteration every slot in use holds an entry of the history.     *)
LEMMA HoldsAfter ==
  ASSUME CycleChecked, TypeOK, LinksRight, Holds(memory),
         NEW n, n.backpointer \in DOMAIN history, NEW m, m = MemoryAfter(n)
  PROVE  Holds(m) /\ \A i \in 0 .. MemorySizeAfter(m) - 1 : Entered(m[i])
  <1>1. /\ m[0] = history[n.backpointer]
        /\ \A i \in Slots : i # 0 =>
             m[i] = IF m[i - 1].backpointer # 0 THEN history[m[i - 1].backpointer] ELSE memory[i]
    BY MemoryRows
  <1>2. ASSUME NEW x, Entered(x) PROVE Entered(history[x.backpointer])
    <2>1. PICK j \in DOMAIN history : x = history[j]
      BY <1>2 DEF Entered
    <2>2. x.backpointer \in DOMAIN history
      BY <2>1 DEF TypeOK, Node
    <2> QED BY <2>2 DEF Entered
  <1>3. Entered(m[0])
    BY <1>1 DEF Entered
  <1>4. SEARCH_CYCLE_MEMORY - 1 \in Nat /\ Slots = 0 .. SEARCH_CYCLE_MEMORY - 1
    BY MemoryAssumption DEF CycleChecked, Slots
  <1> DEFINE T == {i \in Slots : m[i] = Blank \/ Entered(m[i])}
  <1>5. Slots \subseteq T
    <2>1. 0 \in T
      BY <1>3, <1>4
    <2>2. ASSUME NEW i \in 1 .. SEARCH_CYCLE_MEMORY - 1, i - 1 \in T PROVE i \in T
      <3>1. i \in Slots /\ i # 0
        BY <1>4
      <3>2. CASE m[i - 1].backpointer # 0
        <4>1. m[i] = history[m[i - 1].backpointer]
          BY <1>1, <3>1, <3>2
        <4>2. Entered(m[i - 1])
          BY <2>2, <3>2 DEF Blank
        <4> QED BY <1>2, <3>1, <4>1, <4>2
      <3>3. CASE m[i - 1].backpointer = 0
        <4>1. m[i] = memory[i]
          BY <1>1, <3>1, <3>3
        <4> QED BY <3>1, <4>1 DEF Holds
      <3> QED BY <3>2, <3>3
    <2> HIDE DEF T
    <2> QED BY <1>4, <2>1, <2>2, IntervalInduction
  <1>6. ASSUME NEW i \in Slots, i # 0, m[i] # Blank PROVE Entered(m[i - 1])
    <2>1. i - 1 \in Slots
      BY <1>4, <1>6
    <2>2. CASE m[i - 1].backpointer # 0
      BY <1>5, <2>1, <2>2 DEF Blank
    <2>3. CASE m[i - 1].backpointer = 0
      <3>1. m[i] = memory[i]
        BY <1>1, <1>6, <2>3
      <3>2. Entered(memory[i - 1])
        BY <1>6, <3>1 DEF Holds
      <3>3. CASE i - 1 = 0
        BY <1>3, <3>3
      <3>4. CASE i - 1 # 0
        <4>1. m[i - 1] = IF m[(i - 1) - 1].backpointer # 0 THEN history[m[(i - 1) - 1].backpointer]
                         ELSE memory[i - 1]
          BY <1>1, <2>1, <3>4
        <4>2. CASE m[(i - 1) - 1].backpointer # 0
          <5>1. (i - 1) - 1 \in Slots
            BY <1>4, <2>1, <3>4
          <5>2. Entered(m[(i - 1) - 1])
            BY <1>5, <4>2, <5>1 DEF Blank
          <5> QED BY <1>2, <4>1, <4>2, <5>2
        <4> QED BY <3>2, <4>1, <4>2
      <3> QED BY <3>3, <3>4
    <2> QED BY <2>2, <2>3
  <1>7. Holds(m)
    BY <1>5, <1>6 DEF Holds
  <1> DEFINE l == LastSlot(m)
             D == {k \in 0 .. l : Entered(m[l - k])}
  <1>8. l \in Slots /\ (l # 0 => m[l - 1].backpointer # 0) /\ MemorySizeAfter(m) = l + 1
    BY LastSlotIs
  <1>9. Entered(m[l])
    <2>1. CASE l = 0
      BY <1>3, <2>1
    <2>2. CASE l # 0
      <3>1. l - 1 \in Slots /\ m[l - 1].backpointer # 0
        BY <1>4, <1>8, <2>2
      <3>2. Entered(m[l - 1])
        BY <1>5, <3>1 DEF Blank
      <3>3. m[l] = history[m[l - 1].backpointer]
        BY <1>1, <1>8, <2>2, <3>1
      <3> QED BY <1>2, <3>2, <3>3
    <2> QED BY <2>1, <2>2
  <1> HIDE DEF l
  <1>10. l \in Nat /\ l <= SEARCH_CYCLE_MEMORY - 1
    BY <1>4, <1>8
  <1>11. 0 .. l \subseteq D
    <2>1. 0 \in D
      <3>1. l - 0 = l /\ 0 \in 0 .. l
        BY <1>10
      <3> QED BY <1>9, <3>1
    <2>2. ASSUME NEW k \in 1 .. l, k - 1 \in D PROVE k \in D
      <3>1. /\ l - (k - 1) \in Slots /\ l - (k - 1) # 0 /\ (l - (k - 1)) - 1 = l - k /\ k \in 0 .. l
        BY <1>4, <1>10
      <3>2. Entered(m[l - (k - 1)])
        BY <2>2
      <3>3. m[l - (k - 1)] # Blank
        BY <3>2, BlankNotEntered
      <3>4. Entered(m[(l - (k - 1)) - 1])
        BY <1>6, <3>1, <3>3
      <3> QED BY <3>1, <3>4
    <2> HIDE DEF D
    <2> QED BY <1>10, <2>1, <2>2, IntervalInduction
  <1>12. ASSUME NEW i \in 0 .. MemorySizeAfter(m) - 1 PROVE Entered(m[i])
    <2>1. l - i \in 0 .. l /\ l - (l - i) = i
      BY <1>8, <1>10
    <2>2. l - i \in D
      <3> HIDE DEF D
      <3> QED BY <1>11, <2>1
    <2> QED BY <2>1, <2>2
  <1> QED BY <1>7, <1>12

LEMMA HoldsGrows ==
  ASSUME Grows, NEW m, Holds(m) PROVE Holds(m)'
  <1>1. ASSUME NEW n, Entered(n) PROVE Entered(n)'
    <2>1. PICK j \in DOMAIN history : n = history[j]
      BY <1>1 DEF Entered
    <2>2. j \in DOMAIN history' /\ n = history'[j]
      BY <2>1 DEF Grows
    <2> QED BY <2>2 DEF Entered
  <1> QED BY <1>1 DEF Holds

LEMMA HoldsInit == Init => Holds(memory)
  BY DEF Init, Holds, Slots

LEMMA HoldsNext ==
  ASSUME TypeOK, NotBegun, LinksRight, Holds(memory), [Next]_vars PROVE Holds(memory)'
  <1>1. Grows
    <2>1. CASE Begin
      <3>1. query' = query /\ DOMAIN history = {}
        BY <2>1 DEF Begin, NotBegun
      <3> QED BY <3>1 DEF Grows
    <2> QED BY <2>1, StepGrows
  <1>2. ASSUME memory' = memory PROVE Holds(memory)'
    <2>1. PICK m : m = memory
      OBVIOUS
    <2>2. Holds(m)'
      BY <1>1, <2>1, HoldsGrows
    <2> QED BY <1>2, <2>1, <2>2 DEF Holds
  <1>3. ASSUME NEW s \in fringe, Tick(s), CycleChecked PROVE Holds(memory)'
    <2>1. PICK m : m = memory'
      OBVIOUS
    <2>2. m = MemoryAfter(s.node) /\ s.node.backpointer \in DOMAIN history
      BY <1>3, <2>1 DEF Tick, TypeOK
    <2>3. Holds(m)
      BY <1>3, <2>2, HoldsAfter
    <2>4. Holds(m)'
      BY <1>1, <2>3, HoldsGrows
    <2> QED BY <2>1, <2>4 DEF Holds
  <1>4. memory' = memory \/ \E s \in fringe : Tick(s) /\ CycleChecked
    BY DEF Next, vars, Refuse, Begin, EndSearch, Return, Tick, SkipVisited, CheckFringe
  <1> QED BY <1>2, <1>3, <1>4

(* What the cycle check throws away equals an entry of the history.        *)
LEMMA RememberedEntered ==
  ASSUME TypeOK, LinksRight, Holds(memory), NEW s \in fringe, Tick(s), NEW c, Remembered(c)
  PROVE  \E j \in DOMAIN history : SameNode(c, history[j])
  <1>1. PICK m : m = memory'
    OBVIOUS
  <1>2. /\ CycleChecked /\ m = MemoryAfter(s.node) /\ memorySize' = MemorySizeAfter(m)
        /\ s.node.backpointer \in DOMAIN history
    BY <1>1 DEF Tick, TypeOK, Remembered
  <1>3. PICK i \in 0 .. MemorySizeAfter(m) - 1 : SameNode(c, m[i])
    BY <1>1, <1>2 DEF Remembered
  <1>4. Entered(m[i])
    BY <1>2, HoldsAfter
  <1> QED BY <1>3, <1>4 DEF Entered

-------------------------------------------------------------------------------
(* With the cycle check, or none                                           *)

Waiting(c) == \E s \in fringe : s.node = c

Reached(c) == \E j \in DOMAIN history : SameNode(c, history[j])

GoesEverywhere ==
  pc = "search" => \A h \in Visited : \A c \in Successors(h) : Reached(c) \/ Waiting(c)

(* A node that waits is popped now, or still waits.                        *)
LEMMA WaitingTick ==
  ASSUME NEW s, Tick(s), NEW c, Waiting(c) PROVE c = s.node \/ Waiting(c)'
  BY DEF Tick, Waiting

LEMMA EverywhereTick ==
  ASSUME TypeOK, LinksRight, Holds(memory), GoesEverywhere, NEW s \in fringe, Tick(s)
  PROVE  GoesEverywhere'
  <1>1. PICK k : k = historySize
    OBVIOUS
  <1>2. /\ Visited' = Visited \cup {k} /\ history'[k] = s.node
        /\ \A h \in Visited : history'[h] = history[h] /\ Successors(h)' = Successors(h)
        /\ Successors(k)' = Children(s.node, k)
    BY <1>1, VisitedGrows
  <1>3. /\ k \in DOMAIN history'
        /\ \A j \in DOMAIN history : j \in DOMAIN history' /\ history'[j] = history[j]
    BY <1>1, TickStep
  <1>4. ASSUME NEW c, Reached(c) PROVE Reached(c)'
    <2>1. PICK j \in DOMAIN history : SameNode(c, history[j])
      BY <1>4 DEF Reached
    <2>2. j \in DOMAIN history' /\ SameNode(c, history'[j])
      BY <1>3, <2>1
    <2> QED BY <2>2 DEF Reached, SameNode
  <1>5. Reached(s.node)'
    <2>1. SameNode(s.node, history'[k])
      BY <1>2 DEF SameNode
    <2> QED BY <1>3, <2>1 DEF Reached, SameNode
  <1> SUFFICES ASSUME NEW h \in Visited', NEW c \in Successors(h)' PROVE Reached(c)' \/ Waiting(c)'
    BY DEF GoesEverywhere
  <1>6. CASE h \in Visited
    <2>1. Reached(c) \/ Waiting(c)
      BY <1>2, <1>6 DEF GoesEverywhere, Tick
    <2> QED BY <1>4, <1>5, <2>1, WaitingTick
  <1>7. CASE h = k
    <2>1. c \in Children(s.node, k)
      BY <1>2, <1>7
    <2>2. CASE Remembered(c)
      BY <1>4, <2>2, RememberedEntered DEF Reached
    <2>3. CASE \E p \in Pushed(s, k) : p.node = c
      BY <1>1, <2>3 DEF Tick, Waiting
    <2> QED BY <2>1, <2>2, <2>3, PushedOrRemembered
  <1> QED BY <1>2, <1>6, <1>7

LEMMA EverywhereNext ==
  ASSUME ~SEARCH_FULL_MEMORY, TypeOK, LinksRight, Holds(memory), GoesEverywhere, [Next]_vars
  PROVE  GoesEverywhere'
  <1>1. CASE Begin
    <2>1. Visited' = {}
      BY <1>1 DEF Begin, Visited
    <2> QED BY <2>1 DEF GoesEverywhere
  <1>2. ASSUME NEW s \in fringe, Tick(s) PROVE GoesEverywhere'
    BY <1>2, EverywhereTick
  <1>3. ASSUME NEW s, SkipVisited(s) PROVE FALSE
    BY <1>3 DEF SkipVisited
  <1>4. ASSUME NEW s, Refuse \/ EndSearch \/ Return \/ CheckFringe(s) PROVE GoesEverywhere'
    <2>1. pc' # "search"
      BY <1>4 DEF Refuse, EndSearch, Return, CheckFringe
    <2> QED BY <2>1 DEF GoesEverywhere
  <1>5. CASE UNCHANGED vars
    <2>1. UNCHANGED <<query, history, historySize, pc, fringe>>
      BY <1>5 DEF vars
    <2>2. Visited' = Visited /\ \A h : Successors(h)' = Successors(h)
      BY <2>1, VisitedSame
    <2> QED BY <2>1, <2>2 DEF GoesEverywhere, Reached, Waiting
  <1> QED BY <1>1, <1>2, <1>3, <1>4, <1>5 DEF Next

CycleInv == TypeOK /\ NotBegun /\ LinksRight /\ Holds(memory)

LEMMA CycleInvariant == Init => CycleInv
  BY TypeInit, LinksInit, HoldsInit DEF CycleInv, NotBegun, Init

LEMMA CycleInvariantNext == CycleInv /\ [Next]_vars => CycleInv'
  BY TypeNext, NotBegunNext, LinksNext, HoldsNext DEF CycleInv

(* A search that finds its fringe empty has visited every child of every   *)
(* node it visited: what the cycle check throws away, in whatever slot of  *)
(* the memory, stale ones included, equals a node that was visited.        *)
THEOREM SearchIsExhaustive ==
  ASSUME ~SEARCH_FULL_MEMORY PROVE Spec => []Exhaustive
  <1> DEFINE Inv == CycleInv /\ GoesEverywhere
  <1>1. Init => Inv
    BY CycleInvariant DEF Init, GoesEverywhere
  <1>2. Inv /\ [Next]_vars => Inv'
    BY CycleInvariantNext, EverywhereNext DEF CycleInv
  <1>3. Inv => Exhaustive
    BY DEF GoesEverywhere, Exhaustive, Reached, Waiting
  <1> QED BY <1>1, <1>2, <1>3, PTL DEF Spec

-------------------------------------------------------------------------------
(* What is reported                                                        *)

Reportable(n) == Known(n) /\ ~Degenerate(n)

Reported(n) == \E a \in DOMAIN paths : First(a).factHash = n.factHash

Settled(n) == Reportable(n) => Reported(n)

LEMMA RegisterSettles ==
  ASSUME TypeOK, LinksRight, PathsRight, NEW s \in fringe, RegisterVisited(s), query' = query
  PROVE  Settled(s.node)' /\ \A n : Settled(n) => Settled(n)'
  <1> DEFINE n == s.node
  <1>1. \A m : Reportable(m)' <=> Reportable(m)
    BY DEF Reportable, Known, Degenerate, Tokens, tree
  <1>2. CASE Known(n) /\ ~Found(n) /\ ~Degenerate(n)
    <2>1. PICK path : path = Ancestry(n)
      OBVIOUS
    <2> DEFINE p == [nodeSequence |-> path, cost |-> s.cost]
    <2>2. PICK l : l = Len(paths) + 1
      OBVIOUS
    <2>3. /\ l \in DOMAIN paths' /\ paths'[l] = p
          /\ \A a \in DOMAIN paths : paths'[a] = paths[a] /\ a \in DOMAIN paths'
      <3>1. paths \in Seq(Range(paths)) /\ paths' = Append(paths, p)
        BY <1>2, <2>1 DEF PathsRight, RegisterVisited
      <3> HIDE DEF p
      <3>2. /\ Len(paths) \in Nat /\ DOMAIN paths' = 1 .. Len(paths) + 1 /\ paths'[l] = p
            /\ \A a \in DOMAIN paths : paths'[a] = paths[a] /\ a \in DOMAIN paths'
        BY <2>2, <3>1, AppendAnything
      <3> QED BY <2>2, <3>2
    <2>4. path[1] = n
      BY <2>1, AncestryIsPath DEF TypeOK, LinksRight
    <2>5. Reported(n)'
      BY <2>3, <2>4 DEF Reported, First
    <2>6. ASSUME NEW m, Reported(m) PROVE Reported(m)'
      BY <2>3, <2>6 DEF Reported, First
    <2> QED BY <1>1, <2>5, <2>6 DEF Settled
  <1>3. CASE ~(Known(n) /\ ~Found(n) /\ ~Degenerate(n))
    <2>1. paths' = paths
      BY <1>3 DEF RegisterVisited
    <2>2. ASSUME Found(n) PROVE Reported(n)
      <3>1. PICK a \in DOMAIN paths : Head(paths[a].nodeSequence).factHash = n.factHash
        BY <2>2 DEF Found, Range
      <3>2. Head(paths[a].nodeSequence) = First(a)
        BY DEF First
      <3> QED BY <3>1, <3>2 DEF Reported
    <2>3. Settled(n)
      BY <1>3, <2>2 DEF Settled, Reportable
    <2> QED BY <1>1, <2>1, <2>3 DEF Settled, Reported, First
  <1> QED BY <1>2, <1>3

(* Once a node has been popped, the nodes visited are settled and their    *)
(* children are settled or wait; until then only the start waits.          *)
NothingLeft ==
  /\ historySize = 1 => history[0] = Start /\ \A s \in fringe : s.node = Start
  /\ Visited # {} => \A j \in DOMAIN history : Settled(history[j])
  /\ \A h \in Visited : \A c \in Successors(h) : Settled(c) \/ Waiting(c)

LEMMA NothingLeftInit == Init => NothingLeft
  <1> SUFFICES ASSUME Init PROVE NothingLeft
    OBVIOUS
  <1>1. historySize = 0 /\ Visited = {}
    BY DEF Init, Visited
  <1> QED BY <1>1 DEF NothingLeft

LEMMA NothingLeftTick ==
  ASSUME TypeOK, LinksRight, Holds(memory), PathsRight, NothingLeft, NEW s \in fringe, Tick(s)
  PROVE  NothingLeft'
  <1>1. PICK k : k = historySize
    OBVIOUS
  <1>2. /\ Visited' = Visited \cup {k} /\ history'[k] = s.node
        /\ \A h \in Visited : history'[h] = history[h] /\ Successors(h)' = Successors(h)
        /\ Successors(k)' = Children(s.node, k)
    BY <1>1, VisitedGrows
  <1>3. /\ k \in Nat \ {0} /\ DOMAIN history = 0 .. k - 1 /\ DOMAIN history' = 0 .. k
        /\ historySize' = k + 1 /\ \A j \in DOMAIN history : history'[j] = history[j]
        /\ Visited = 1 .. k - 1
    BY <1>1, TickStep DEF Visited
  <1>4. Settled(s.node)' /\ \A n : Settled(n) => Settled(n)'
    <2>1. query' = query /\ RegisterVisited(s)
      BY DEF Tick
    <2> QED BY <2>1, RegisterSettles
  <1>5. ASSUME NEW j \in DOMAIN history PROVE Settled(history[j])'
    <2>1. PICK n : n = history[j]
      OBVIOUS
    <2>2. Settled(n)'
      <3>1. CASE k = 1
        <4>1. j = 0
          BY <1>3, <3>1
        <4>2. n = s.node
          BY <1>1, <2>1, <3>1, <4>1 DEF NothingLeft
        <4> QED BY <1>4, <4>2
      <3>2. CASE k # 1
        <4>1. 1 \in Visited
          BY <1>3, <3>2
        <4>2. Settled(n)
          BY <2>1, <4>1 DEF NothingLeft
        <4> QED BY <1>4, <4>2
      <3> QED BY <3>1, <3>2
    <2>3. history'[j] = n
      BY <1>3, <2>1
    <2> QED BY <2>2, <2>3
  <1>6. Settled(history[k])'
    BY <1>2, <1>4
  <1>7. ASSUME NEW j \in DOMAIN history' PROVE Settled(history[j])'
    <2>1. j \in DOMAIN history \/ j = k
      BY <1>3
    <2> QED BY <1>5, <1>6, <2>1
  <1>8. ASSUME NEW c, Reached(c) PROVE Settled(c)'
    <2>1. PICK j \in DOMAIN history : SameNode(c, history[j])
      BY <1>8 DEF Reached
    <2>2. PICK n : n = history[j]
      OBVIOUS
    <2>3. Settled(n)'
      <3>1. history'[j] = n
        BY <1>3, <2>2
      <3> QED BY <1>5, <3>1
    <2>4. c.factHash = n.factHash /\ c.truth = n.truth /\ c.deleted = n.deleted
      BY <2>1, <2>2 DEF SameNode
    <2> QED BY <2>3, <2>4 DEF Settled, Reportable, Reported, Known, Degenerate
  <1>9. ASSUME NEW h \in Visited', NEW c \in Successors(h)' PROVE Settled(c)' \/ Waiting(c)'
    <2>1. CASE h \in Visited
      <3>1. Settled(c) \/ Waiting(c)
        BY <1>2, <2>1 DEF NothingLeft
      <3> QED BY <1>4, <3>1, WaitingTick
    <2>2. CASE h = k
      <3>1. c \in Children(s.node, k)
        BY <1>2, <2>2
      <3>2. CASE Remembered(c)
        BY <1>8, <3>2, RememberedEntered DEF Reached
      <3>3. CASE \E p \in Pushed(s, k) : p.node = c
        BY <1>1, <3>3 DEF Tick, Waiting
      <3> QED BY <3>1, <3>2, <3>3, PushedOrRemembered
    <2> QED BY <1>2, <2>1, <2>2
  <1>10. historySize' # 1
    BY <1>3
  <1> QED BY <1>7, <1>9, <1>10 DEF NothingLeft

LEMMA NothingLeftNext ==
  ASSUME ~SEARCH_FULL_MEMORY, CycleInv, PathsRight, NothingLeft, [Next]_vars PROVE NothingLeft'
  <1> USE DEF CycleInv
  <1>1. CASE Begin
    <2>1. /\ Visited' = {} /\ history' = [i \in {0} |-> Start] /\ query' = query
          /\ fringe' = {Scored(Start, 0, <<"start", 0>>)}
      BY <1>1 DEF Begin, Visited
    <2>2. Start' = Start
      BY <2>1 DEF Start, NodeAt, Token, GovernorAt, tree
    <2> QED BY <2>1, <2>2 DEF NothingLeft, Scored
  <1>2. ASSUME NEW s \in fringe, Tick(s) PROVE NothingLeft'
    BY <1>2, NothingLeftTick
  <1>3. ASSUME NEW s \in fringe, CheckFringe(s) PROVE NothingLeft'
    <2>1. /\ UNCHANGED <<query, history, historySize>> /\ fringe' = fringe \ {s}
          /\ RegisterVisited(s)
      BY <1>3 DEF CheckFringe
    <2>2. Settled(s.node)' /\ \A n : Settled(n) => Settled(n)'
      BY <2>1, RegisterSettles
    <2>3. Visited' = Visited /\ \A h : Successors(h)' = Successors(h)
      BY <2>1, VisitedSame
    <2>4. Start' = Start
      BY <2>1 DEF Start, NodeAt, Token, GovernorAt, tree
    <2>5. ASSUME NEW c, Waiting(c) PROVE c = s.node \/ Waiting(c)'
      BY <2>1, <2>5 DEF Waiting
    <2>6. ASSUME Visited # {}, NEW j \in DOMAIN history PROVE Settled(history[j])'
      <3>1. PICK n : n = history[j]
        OBVIOUS
      <3>2. Settled(n)' /\ history'[j] = n
        BY <2>1, <2>2, <2>6, <3>1 DEF NothingLeft
      <3> QED BY <3>2
    <2>7. ASSUME NEW h \in Visited, NEW c \in Successors(h) PROVE Settled(c)' \/ Waiting(c)'
      BY <2>2, <2>5 DEF NothingLeft
    <2>8. historySize' = 1 => history'[0] = Start' /\ \A u \in fringe' : u.node = Start'
      BY <2>1, <2>4 DEF NothingLeft
    <2> QED BY <2>1, <2>3, <2>6, <2>7, <2>8 DEF NothingLeft
  <1>4. ASSUME UNCHANGED <<query, history, historySize, fringe, paths>> PROVE NothingLeft'
    <2>1. Visited' = Visited /\ \A h : Successors(h)' = Successors(h)
      BY <1>4, VisitedSame
    <2>2. Start' = Start
      BY <1>4 DEF Start, NodeAt, Token, GovernorAt, tree
    <2>3. \A n : Settled(n) => Settled(n)'
      BY <1>4 DEF Settled, Reportable, Reported, Known, Degenerate, First, Tokens, tree
    <2>4. ASSUME Visited # {}, NEW j \in DOMAIN history PROVE Settled(history[j])'
      <3>1. PICK n : n = history[j]
        OBVIOUS
      <3>2. Settled(n)' /\ history'[j] = n
        BY <1>4, <2>3, <2>4, <3>1 DEF NothingLeft
      <3> QED BY <3>2
    <2>5. ASSUME NEW h \in Visited, NEW c \in Successors(h) PROVE Settled(c)' \/ Waiting(c)'
      BY <1>4, <2>3 DEF NothingLeft, Waiting
    <2>6. historySize' = 1 => history'[0] = Start' /\ \A u \in fringe' : u.node = Start'
      BY <1>4, <2>2 DEF NothingLeft
    <2> QED BY <1>4, <2>1, <2>4, <2>5, <2>6 DEF NothingLeft
  <1>5. ASSUME NEW s, SkipVisited(s) PROVE FALSE
    BY <1>5 DEF SkipVisited
  <1> QED BY <1>1, <1>2, <1>3, <1>4, <1>5 DEF Next, Refuse, EndSearch, Return, vars

(* A call that returns with nothing left on the fringe, because the search *)
(* ran dry or because the fringe was checked after it timed out, has       *)
(* reported every known true fact of two words one step from a fact it     *)
(* visited.                                                                *)
THEOREM NothingIsMissed ==
  ASSUME ~SEARCH_FULL_MEMORY PROVE Spec => []NothingMissed
  <1> DEFINE Inv == CycleInv /\ PathsRight /\ NothingLeft
  <1>1. Init => Inv
    BY CycleInvariant, PathsInit, NothingLeftInit
  <1>2. Inv /\ [Next]_vars => Inv'
    BY CycleInvariantNext, PathsNext, NothingLeftNext DEF CycleInv
  <1>3. Inv => NothingMissed
    <2> SUFFICES ASSUME Inv, fringe = {}, NEW h \in Visited, NEW c \in Successors(h),
                        c.truth, c.factHash \in query.kb,
                        Cardinality(Tokens(tree) \ c.deleted) >= 2
                 PROVE  \E a \in DOMAIN paths : paths[a].nodeSequence[1].factHash = c.factHash
      BY DEF NothingMissed
    <2>1. Settled(c)
      BY DEF NothingLeft, Waiting
    <2>2. ~Degenerate(c)
      <3> DEFINE left == Tokens(tree) \ c.deleted
      <3>1. IsFiniteSet(Tokens(tree))
        BY QueriesAssumption DEF CycleInv, TypeOK, tree
      <3>2. Cardinality(left) \in Nat
        BY <3>1, FS_Difference, FS_CardinalityType
      <3> HIDE DEF left
      <3>3. ~(Cardinality(left) < 2)
        BY <3>2 DEF left
      <3> QED BY <3>3 DEF Degenerate, left
    <2> QED BY <2>1, <2>2 DEF Settled, Reportable, Reported, Known, First
  <1> QED BY <1>1, <1>2, <1>3, PTL DEF Spec

-------------------------------------------------------------------------------
(* Cycles                                                                  *)

(* c leads from n over d links to an ancestor.                             *)
Climbs(c, n, d) ==
  c[0] = n /\ \A i \in 0 .. d - 1 : c[i].backpointer # 0 /\ c[i + 1] = Parent(c[i])

NoCycle(n) ==
  Mutated(n) => \A d \in 2 .. SEARCH_CYCLE_MEMORY + 1 : \A c : Climbs(c, n, d) => ~SameNode(n, c[d])

NoCycles ==
  /\ \A j \in DOMAIN history : NoCycle(history[j])
  /\ \A s \in fringe : NoCycle(s.node)

LEMMA ClimbsStay ==
  ASSUME TypeOK, Grows, NEW n, n.backpointer \in DOMAIN history, NEW d \in Nat, NEW c, Climbs(c, n, d)'
  PROVE  Climbs(c, n, d)
  <1>1. c[0] = n /\ \A i \in 0 .. d - 1 : c[i].backpointer # 0 /\ c[i + 1] = history'[c[i].backpointer]
    BY DEF Climbs, Parent
  <1> DEFINE T == {i \in 0 .. d : c[i].backpointer \in DOMAIN history}
  <1>2. 0 .. d \subseteq T
    <2>1. 0 \in T
      BY <1>1
    <2>2. ASSUME NEW i \in 1 .. d, i - 1 \in T PROVE i \in T
      <3>1. i - 1 \in 0 .. d - 1 /\ (i - 1) + 1 = i /\ i \in 0 .. d
        OBVIOUS
      <3>2. c[i - 1].backpointer \in DOMAIN history
        BY <2>2
      <3>3. c[i] = history[c[i - 1].backpointer]
        BY <1>1, <3>1, <3>2 DEF Grows
      <3>4. \A j \in DOMAIN history : history[j].backpointer \in DOMAIN history
        BY DEF TypeOK, Node
      <3>5. c[i].backpointer \in DOMAIN history
        BY <3>2, <3>3, <3>4
      <3> QED BY <3>1, <3>5
    <2> HIDE DEF T
    <2> QED BY <2>1, <2>2, IntervalInduction
  <1>3. ASSUME NEW i \in 0 .. d - 1 PROVE c[i + 1] = history[c[i].backpointer]
    <2>1. i \in 0 .. d
      OBVIOUS
    <2>2. c[i].backpointer \in DOMAIN history
      BY <1>2, <2>1
    <2> QED BY <1>1, <2>2 DEF Grows
  <1> QED BY <1>1, <1>3 DEF Climbs, Parent

LEMMA NoCycleGrows ==
  ASSUME TypeOK, Grows, NEW n, n.backpointer \in DOMAIN history, NoCycle(n) PROVE NoCycle(n)'
  <1>1. Mutated(n)' <=> Mutated(n)
    BY DEF Mutated, Parent, Grows
  <1>2. ASSUME NEW d \in 2 .. SEARCH_CYCLE_MEMORY + 1, NEW c, Climbs(c, n, d)' PROVE Climbs(c, n, d)
    <2>1. d \in Nat
      OBVIOUS
    <2> QED BY <1>2, <2>1, ClimbsStay
  <1>3. \A m : SameNode(n, m)' <=> SameNode(n, m)
    BY DEF SameNode
  <1> QED BY <1>1, <1>2, <1>3 DEF NoCycle

(* A deletion deletes something.                                           *)
Below(t, i, f) ==
  f = [k \in 0 .. Cardinality(Tokens(t)) |->
         IF k = 0 THEN {i} ELSE f[k - 1] \cup {j \in Tokens(t) : t.governor[j] \in f[k - 1]}]

LEMMA DeletesItself ==
  ASSUME NEW t, IsFiniteSet(Tokens(t)), NEW i PROVE i \in DeleteMask(t, i)
  <1> DEFINE n == Cardinality(Tokens(t))
             S == SUBSET ({i} \cup Tokens(t))
             more(m) == m \cup {j \in Tokens(t) : t.governor[j] \in m}
             g == [p \in (1 .. n) \X S |-> more(p[2])]
             f == CHOOSE f : Below(t, i, f)
  <1>1. n \in Nat
    BY FS_CardinalityType
  <1>2. g \in [(1 .. n) \X S -> S]
    OBVIOUS
  <1>3. PICK h \in [0 .. n -> S] : Unfolds(h, n, {i}, g)
    <2>1. {i} \in S
      OBVIOUS
    <2> HIDE DEF g, S, n
    <2> QED BY <1>1, <1>2, <2>1, RecursionExists
  <1>4. Below(t, i, h)
    <2>1. ASSUME NEW k \in 0 .. n
          PROVE  h[k] = IF k = 0 THEN {i}
                        ELSE h[k - 1] \cup {j \in Tokens(t) : t.governor[j] \in h[k - 1]}
      <3>1. h[k] = IF k = 0 THEN {i} ELSE g[<<k, h[k - 1]>>]
        <4> HIDE DEF g, n
        <4> QED BY <1>3 DEF Unfolds
      <3>2. CASE k = 0
        BY <3>1, <3>2
      <3>3. CASE k # 0
        <4>1. k \in 1 .. n /\ k - 1 \in 0 .. n
          BY <1>1, <3>3
        <4>2. h[k - 1] \in S
          <5> HIDE DEF S, n
          <5> QED BY <1>3, <4>1
        <4>3. g[<<k, h[k - 1]>>] = more(h[k - 1])
          <5> HIDE DEF S, n, more
          <5> QED BY <4>1, <4>2
        <4> HIDE DEF g
        <4> QED BY <3>1, <3>3, <4>3
      <3> QED BY <3>2, <3>3
    <2> HIDE DEF n
    <2>2. h = [k \in 0 .. n |-> IF k = 0 THEN {i}
                               ELSE h[k - 1] \cup {j \in Tokens(t) : t.governor[j] \in h[k - 1]}]
      <3> HIDE DEF S
      <3> QED BY <1>3, <2>1
    <2> QED BY <2>2 DEF Below, n
  <1>5. Below(t, i, f)
    <2> HIDE DEF n, S, g, more
    <2> QED BY <1>4, Zenon
  <1>6. DeleteMask(t, i) = f[n]
    BY Zenon DEF DeleteMask, Below
  <1> HIDE DEF f, n
  <1>7. \A k \in 0 .. n : f[k] = IF k = 0 THEN {i} ELSE f[k - 1] \cup {j \in Tokens(t) : t.governor[j] \in f[k - 1]}
    BY <1>5, Zenon DEF Below, n
  <1> DEFINE T == {k \in 0 .. n : i \in f[k]}
  <1>8. 0 .. n \subseteq T
    <2>1. 0 \in T
      <3>1. 0 \in 0 .. n
        BY <1>1
      <3> QED BY <1>7, <3>1
    <2>2. ASSUME NEW k \in 1 .. n, k - 1 \in T PROVE k \in T
      <3>1. k \in 0 .. n /\ k # 0
        BY <1>1
      <3> QED BY <1>7, <2>2, <3>1
    <2> HIDE DEF T
    <2> QED BY <1>1, <2>1, <2>2, IntervalInduction
  <1>9. n \in 0 .. n
    BY <1>1
  <1> QED BY <1>6, <1>8, <1>9

LEMMA PushedNoCycle ==
  ASSUME ~SEARCH_FULL_MEMORY, CycleInv, NEW s \in fringe, Tick(s),
         NEW k, k = historySize, NEW p \in Pushed(s, k)
  PROVE  NoCycle(p.node)'
  <1> USE DEF CycleInv
  <1> DEFINE n == p.node
  <1>1. /\ k \in Nat \ {0} /\ DOMAIN history = 0 .. k - 1 /\ history'[k] = s.node
        /\ \A j \in DOMAIN history : history'[j] = history[j]
        /\ Node(s.node) /\ s.node.backpointer \in DOMAIN history
    BY TickStep DEF TypeOK
  <1>2. n.backpointer = k /\ Parent(n)' = s.node
    BY <1>1, PushedChild DEF Parent
  <1>3. CASE \E i \in IndexMoves(s.node, k) : p = Scored(i, s.cost, <<"move", i.index>>)
    <2>1. n \in IndexMoves(s.node, k)
      BY <1>3 DEF Scored
    <2>2. ASSUME NEW i PROVE Moved(s.node, k, i).transition = "NONE"
                              /\ DOMAIN Moved(s.node, k, i) = DOMAIN s.node
      BY <1>1 DEF Moved, Node, Blank
    <2>3. PICK i : n = Moved(s.node, k, i) \/ n = [Moved(s.node, k, i) EXCEPT !.allQuantifiersSeen = TRUE]
      BY <2>1 DEF IndexMoves
    <2>4. n.transition = "NONE"
      BY <1>1, <2>2, <2>3 DEF Node, Blank
    <2> QED BY <2>4 DEF NoCycle, Mutated
  <1>4. CASE \E d \in DependentsDeleted(s.node) : p = PushedDeletion(s.node, k, d)
    <2>1. PICK d \in DependentsDeleted(s.node) : n = Deletion(s.node, k, d)
      BY <1>4 DEF PushedDeletion, Scored
    <2>2. n.deleted = s.node.deleted \cup DeleteMask(tree, d)
      BY <1>1, <2>1 DEF Deletion, Node, Blank
    <2>3. d \in DeleteMask(tree, d) /\ d \notin s.node.deleted
      <3>1. IsFiniteSet(Tokens(tree))
        BY QueriesAssumption DEF TypeOK, tree
      <3> QED BY <3>1, DeletesItself DEF DependentsDeleted
    <2>4. n.deleted # s.node.deleted
      BY <2>2, <2>3
    <2> QED BY <1>2, <2>4 DEF NoCycle, Mutated
  <1>5. CASE \E e \in Mutations(s.node, k) : p = PushedMutation(s.node, k, e)
    <2>1. ~Remembered(n)
      BY <1>5 DEF Mutations, PushedMutation, Scored
    <2> SUFFICES ASSUME NEW d \in 2 .. SEARCH_CYCLE_MEMORY + 1, NEW c, Climbs(c, n, d)', SameNode(n, c[d])
                 PROVE  FALSE
      BY DEF NoCycle, SameNode
    <2>2. CycleChecked /\ d - 2 \in Slots /\ d - 1 \in 0 .. d - 1 /\ d - 2 \in Nat
      BY MemoryAssumption DEF CycleChecked, Slots
    <2>3. PICK m : m = memory'
      OBVIOUS
    <2>4. m = MemoryAfter(s.node) /\ memorySize' = MemorySizeAfter(m)
      BY <2>2, <2>3 DEF Tick
    <2>5. /\ m[0] = history[s.node.backpointer]
          /\ \A i \in Slots : i # 0 =>
               m[i] = IF m[i - 1].backpointer # 0 THEN history[m[i - 1].backpointer] ELSE memory[i]
      BY <1>1, <2>2, <2>4, MemoryRows
    <2>6. c[0] = n /\ \A i \in 0 .. d - 1 : c[i].backpointer # 0 /\ c[i + 1] = history'[c[i].backpointer]
      BY DEF Climbs, Parent
    <2>7. c[1] = s.node /\ c[2] = history[s.node.backpointer]
      <3>1. 0 \in 0 .. d - 1 /\ 1 \in 0 .. d - 1 /\ 0 + 1 = 1 /\ 1 + 1 = 2
        OBVIOUS
      <3>2. c[1] = s.node
        BY <1>1, <1>2, <2>6, <3>1
      <3> QED BY <1>1, <2>6, <3>1, <3>2
    <2>8. ASSUME NEW x, Entered(x) PROVE x.backpointer \in DOMAIN history
      <3>1. PICK j \in DOMAIN history : x = history[j]
        BY <2>8 DEF Entered
      <3> QED BY <3>1 DEF TypeOK, Node
    <2> DEFINE T == {j \in 0 .. d - 2 : c[j + 2] = m[j] /\ Entered(m[j])}
    <2>9. 0 .. d - 2 \subseteq T
      <3>1. 0 \in T
        <4>1. 0 \in 0 .. d - 2 /\ 0 + 2 = 2
          BY <2>2
        <4> QED BY <1>1, <2>5, <2>7, <4>1 DEF Entered
      <3>2. ASSUME NEW j \in 1 .. d - 2, j - 1 \in T PROVE j \in T
        <4>1. /\ j \in Slots /\ j # 0 /\ j \in 0 .. d - 2 /\ j + 1 \in 0 .. d - 1
              /\ (j - 1) + 2 = j + 1 /\ (j + 1) + 1 = j + 2
          BY MemoryAssumption DEF Slots
        <4>2. c[j + 1] = m[j - 1] /\ Entered(m[j - 1])
          BY <3>2, <4>1
        <4>3. c[j + 1].backpointer # 0 /\ c[j + 2] = history'[c[j + 1].backpointer]
          BY <2>6, <4>1
        <4>4. m[j - 1].backpointer \in DOMAIN history
          BY <2>8, <4>2
        <4>5. m[j] = history[m[j - 1].backpointer]
          BY <2>5, <4>1, <4>2, <4>3
        <4> QED BY <1>1, <4>1, <4>2, <4>3, <4>4, <4>5 DEF Entered
      <3> HIDE DEF T
      <3> QED BY <2>2, <3>1, <3>2, IntervalInduction
    <2>10. c[d] = m[d - 2]
      <3>1. d - 2 \in 0 .. d - 2 /\ (d - 2) + 2 = d
        BY <2>2
      <3> QED BY <2>9, <3>1
    <2>11. d - 2 \in 0 .. MemorySizeAfter(m) - 1
      <3>1. LastSlot(m) \in Slots /\ MemorySizeAfter(m) = LastSlot(m) + 1
        BY <2>2, LastSlotIs
      <3>2. d - 2 # 0 => d - 2 <= LastSlot(m)
        <4> SUFFICES ASSUME d - 2 # 0 PROVE d - 2 <= LastSlot(m)
          OBVIOUS
        <4>1. /\ (d - 2) - 1 \in 0 .. d - 2 /\ ((d - 2) - 1) + 2 = d - 1
          BY <2>2
        <4>2. m[(d - 2) - 1] = c[d - 1]
          BY <2>9, <4>1
        <4>3. m[(d - 2) - 1].backpointer # 0
          BY <2>2, <2>6, <4>2
        <4> QED BY <2>2, <4>3, LastSlotIs
      <3>3. LastSlot(m) \in Nat
        BY <3>1, MemoryAssumption DEF Slots
      <3> HIDE DEF LastSlot
      <3> QED BY <2>2, <3>1, <3>2, <3>3
    <2> QED BY <2>1, <2>2, <2>3, <2>4, <2>10, <2>11 DEF Remembered
  <1> QED BY <1>3, <1>4, <1>5 DEF Pushed

LEMMA NoCyclesNext ==
  ASSUME ~SEARCH_FULL_MEMORY, CycleInv, NoCycles, [Next]_vars PROVE NoCycles'
  <1> USE DEF CycleInv
  <1>1. CASE Begin
    <2>1. /\ history' = [i \in {0} |-> Start] /\ query' = query
          /\ fringe' = {Scored(Start, 0, <<"start", 0>>)}
      BY <1>1 DEF Begin
    <2>2. Start' = Start /\ Start.transition = "NONE"
      BY <2>1, StartNode DEF TypeOK, Start, NodeAt, Token, GovernorAt, tree
    <2>3. NoCycle(Start)'
      BY <2>2 DEF NoCycle, Mutated
    <2> QED BY <2>1, <2>2, <2>3 DEF NoCycles, Scored
  <1>2. ASSUME ~Begin, NEW n, n.backpointer \in DOMAIN history, NoCycle(n) PROVE NoCycle(n)'
    BY <1>2, StepGrows, NoCycleGrows
  <1>3. \A j \in DOMAIN history : history[j].backpointer \in DOMAIN history
    BY DEF TypeOK, Node
  <1>4. ASSUME NEW s \in fringe, Tick(s) PROVE NoCycles'
    <2>1. ~Begin
      BY <1>4 DEF Tick, Begin
    <2>2. PICK k : k = historySize
      OBVIOUS
    <2>3. /\ DOMAIN history' = DOMAIN history \cup {k} /\ history'[k] = s.node
          /\ \A j \in DOMAIN history : history'[j] = history[j]
      <3>1. /\ k \in Nat \ {0} /\ DOMAIN history = 0 .. k - 1 /\ DOMAIN history' = 0 .. k
            /\ history'[k] = s.node
            /\ \A j \in DOMAIN history : history'[j] = history[j]
        BY <1>4, <2>2, TickStep
      <3>2. 0 .. k = (0 .. k - 1) \cup {k}
        BY <3>1
      <3> QED BY <3>1, <3>2
    <2>4. NoCycle(s.node)'
      BY <1>2, <2>1 DEF NoCycles, TypeOK
    <2>5. ASSUME NEW j \in DOMAIN history' PROVE NoCycle(history[j])'
      <3>1. CASE j \in DOMAIN history
        <4>1. PICK n : n = history[j]
          OBVIOUS
        <4>2. NoCycle(n)'
          BY <1>2, <1>3, <2>1, <3>1, <4>1 DEF NoCycles
        <4>3. history'[j] = n
          BY <2>3, <3>1, <4>1
        <4> QED BY <4>2, <4>3
      <3>2. CASE j = k
        BY <2>3, <2>4, <3>2
      <3> QED BY <2>3, <3>1, <3>2
    <2>6. ASSUME NEW c \in fringe' PROVE NoCycle(c.node)'
      <3>1. CASE c \in fringe
        BY <1>2, <2>1, <3>1 DEF NoCycles, TypeOK
      <3>2. CASE c \in Pushed(s, k)
        BY <1>4, <2>2, <3>2, PushedNoCycle
      <3> QED BY <1>4, <2>2, <3>1, <3>2 DEF Tick
    <2> QED BY <2>5, <2>6 DEF NoCycles
  <1>5. ASSUME ~Begin, UNCHANGED history, fringe' \subseteq fringe PROVE NoCycles'
    <2>1. ASSUME NEW j \in DOMAIN history' PROVE NoCycle(history[j])'
      <3>1. PICK n : n = history[j]
        OBVIOUS
      <3>2. NoCycle(n)'
        BY <1>2, <1>3, <1>5, <3>1 DEF NoCycles
      <3> QED BY <1>5, <3>1, <3>2
    <2>2. ASSUME NEW c \in fringe' PROVE NoCycle(c.node)'
      BY <1>2, <1>5 DEF NoCycles, TypeOK
    <2> QED BY <2>1, <2>2 DEF NoCycles
  <1>6. ASSUME NEW s, SkipVisited(s) \/ CheckFringe(s) \/ EndSearch \/ Return \/ Refuse \/ UNCHANGED vars
        PROVE  ~Begin /\ UNCHANGED history /\ fringe' \subseteq fringe
    BY <1>6 DEF SkipVisited, CheckFringe, EndSearch, Return, Refuse, Begin, vars
  <1> QED BY <1>1, <1>4, <1>5, <1>6 DEF Next

(* The ancestors of a node                                                 *)
UpStep(below) ==
  IF Last(below).backpointer = 0 THEN below ELSE Append(below, Parent(Last(below)))

Ups(n, d, f) == f = [k \in 0 .. d |-> IF k = 0 THEN <<n>> ELSE UpStep(f[k - 1])]

(* u leads from n towards the start, over k links or until there are none. *)
Leads(u, n, k) ==
  /\ Len(u) \in 1 .. k + 1 /\ u[1] = n
  /\ Len(u) = k + 1 \/ u[Len(u)].backpointer = 0
  /\ k # 0 /\ n.backpointer # 0 => Len(u) >= 2
  /\ \A i \in 1 .. Len(u) - 1 : u[i].backpointer # 0 /\ u[i + 1] = Parent(u[i])

LEMMA UpsLead ==
  ASSUME TypeOK, NEW n, n.backpointer \in DOMAIN history, NEW d \in Nat
  PROVE  \E u : /\ Ancestors(n, d) = Tail(u) /\ Leads(u, n, d)
                /\ u \in Seq({n} \cup {history[j] : j \in DOMAIN history})
  <1> DEFINE A == {n} \cup {history[j] : j \in DOMAIN history}
             S == {u \in Seq(A) : u # <<>>}
             g == [p \in (1 .. d) \X S |-> UpStep(p[2])]
             f == CHOOSE f : Ups(n, d, f)
  <1>1. ASSUME NEW u \in S
        PROVE  /\ UpStep(u) \in S /\ Len(u) \in Nat \ {0} /\ Last(u) = u[Len(u)] /\ Last(u) \in A
               /\ Last(u).backpointer # 0 =>
                    /\ UpStep(u) = Append(u, Parent(Last(u)))
                    /\ Len(UpStep(u)) = Len(u) + 1 /\ UpStep(u)[Len(u) + 1] = Parent(Last(u))
                    /\ \A i \in 1 .. Len(u) : UpStep(u)[i] = u[i]
               /\ Last(u).backpointer = 0 => UpStep(u) = u
    <2>1. Len(u) \in Nat \ {0} /\ Last(u) = u[Len(u)] /\ Last(u) \in A
      <3> HIDE DEF A
      <3>1. Len(u) \in Nat /\ Len(u) # 0
        OBVIOUS
      <3> QED BY <3>1 DEF Last
    <2>2. Parent(Last(u)) \in A
      <3>1. \A x \in A : x.backpointer \in DOMAIN history
        BY DEF TypeOK, Node
      <3> QED BY <2>1, <3>1 DEF Parent
    <2>3. PICK x : x = Parent(Last(u))
      OBVIOUS
    <2> HIDE DEF A
    <2>4. /\ Append(u, x) \in Seq(A) /\ Len(Append(u, x)) = Len(u) + 1 /\ Append(u, x)[Len(u) + 1] = x
          /\ \A i \in 1 .. Len(u) : Append(u, x)[i] = u[i]
          /\ Append(u, x) # <<>>
      BY <2>1, <2>2, <2>3
    <2> QED BY <2>1, <2>3, <2>4 DEF UpStep
  <1>2. g \in [(1 .. d) \X S -> S]
    <2> HIDE DEF S
    <2> QED BY <1>1
  <1>3. PICK h \in [0 .. d -> S] : Unfolds(h, d, <<n>>, g)
    <2>1. <<n>> \in S
      OBVIOUS
    <2> HIDE DEF g, S
    <2> QED BY <1>2, <2>1, RecursionExists
  <1>4. Ups(n, d, h)
    <2>1. ASSUME NEW k \in 0 .. d PROVE h[k] = IF k = 0 THEN <<n>> ELSE UpStep(h[k - 1])
      <3>1. h[k] = IF k = 0 THEN <<n>> ELSE g[<<k, h[k - 1]>>]
        <4> HIDE DEF g
        <4> QED BY <1>3 DEF Unfolds
      <3>2. CASE k = 0
        BY <3>1, <3>2
      <3>3. CASE k # 0
        <4>1. k \in 1 .. d /\ h[k - 1] \in S
          <5> HIDE DEF S
          <5> QED BY <1>3, <3>3
        <4>2. g[<<k, h[k - 1]>>] = UpStep(h[k - 1])
          <5> HIDE DEF S
          <5> QED BY <4>1
        <4> HIDE DEF g
        <4> QED BY <3>1, <3>3, <4>2
      <3> QED BY <3>2, <3>3
    <2> HIDE DEF S
    <2> QED BY <2>1 DEF Ups
  <1>5. Ups(n, d, f)
    <2> HIDE DEF g, S
    <2> QED BY <1>4, Zenon
  <1>6. Ancestors(n, d) = Tail(f[d])
    BY Zenon DEF Ancestors, Ups, UpStep
  <1> HIDE DEF f
  <1>7. \A k \in 0 .. d : f[k] = IF k = 0 THEN <<n>> ELSE UpStep(f[k - 1])
    BY <1>5, Zenon DEF Ups
  <1> DEFINE T == {k \in 0 .. d : f[k] \in S /\ Leads(f[k], n, k)}
  <1>8. 0 .. d \subseteq T
    <2>1. 0 \in T
      <3>1. f[0] = <<n>>
        BY <1>7
      <3>2. <<n>> \in S /\ Len(<<n>>) = 1 /\ <<n>>[1] = n
        OBVIOUS
      <3> HIDE DEF S
      <3>3. Leads(<<n>>, n, 0)
        BY <3>2 DEF Leads
      <3>4. 0 \in 0 .. d
        OBVIOUS
      <3> QED BY <3>1, <3>2, <3>3, <3>4
    <2>2. ASSUME NEW k \in 1 .. d, k - 1 \in T PROVE k \in T
      <3>1. PICK u : u = f[k - 1]
        OBVIOUS
      <3>2. f[k] = UpStep(u) /\ u \in S /\ Leads(u, n, k - 1) /\ k \in 0 .. d
        BY <1>7, <2>2, <3>1
      <3>3. PICK w : w = UpStep(u)
        OBVIOUS
      <3> HIDE DEF S
      <3>4. w \in S /\ Len(u) \in Nat \ {0} /\ Last(u) = u[Len(u)]
        BY <1>1, <3>2, <3>3
      <3>5. CASE Last(u).backpointer # 0
        <4>1. Len(w) = Len(u) + 1 /\ w[Len(u) + 1] = Parent(Last(u)) /\ \A i \in 1 .. Len(u) : w[i] = u[i]
          BY <1>1, <3>2, <3>3, <3>5
        <4>2. Len(w) \in 1 .. k + 1 /\ w[1] = n /\ Len(w) >= 2 /\ Len(w) = k + 1
          BY <3>2, <3>4, <3>5, <4>1 DEF Leads
        <4>3. ASSUME NEW i \in 1 .. Len(w) - 1 PROVE w[i].backpointer # 0 /\ w[i + 1] = Parent(w[i])
          <5>1. CASE i = Len(u)
            BY <3>4, <3>5, <4>1, <5>1
          <5>2. CASE i \in 1 .. Len(u) - 1
            <6>1. i \in 1 .. Len(u) /\ i + 1 \in 1 .. Len(u)
              BY <3>4, <5>2
            <6> QED BY <3>2, <4>1, <5>2, <6>1 DEF Leads
          <5> QED BY <3>4, <4>1, <5>1, <5>2
        <4> QED BY <3>2, <3>3, <3>4, <4>2, <4>3 DEF Leads
      <3>6. CASE Last(u).backpointer = 0
        <4>1. w = u
          BY <1>1, <3>2, <3>3, <3>6
        <4>2. n.backpointer # 0 => Len(u) >= 2
          <5>1. Len(u) = 1 => n.backpointer = 0
            BY <3>2, <3>4, <3>6 DEF Leads
          <5> QED BY <3>4, <5>1
        <4>3. Leads(u, n, k)
          BY <3>2, <3>4, <3>6, <4>2 DEF Leads
        <4> QED BY <3>2, <3>3, <3>4, <4>1, <4>3
      <3> QED BY <3>5, <3>6
    <2> HIDE DEF T
    <2> QED BY <2>1, <2>2, IntervalInduction
  <1>9. d \in 0 .. d
    OBVIOUS
  <1> QED BY <1>6, <1>8, <1>9

LEMMA ShortCyclesRuledOut ==
  ASSUME TypeOK, LinksRight, NoCycles, NEW h \in Visited, Mutated(history[h]),
         NEW a \in Range(Tail(Ancestors(history[h], SEARCH_CYCLE_MEMORY + 1)))
  PROVE  ~SameNode(history[h], a)
  <1> DEFINE n == history[h]
             d == SEARCH_CYCLE_MEMORY + 1
  <1>1. d \in Nat /\ d # 0 /\ SEARCH_CYCLE_MEMORY + 1 = d
    BY MemoryAssumption
  <1>2. h \in DOMAIN history /\ n.backpointer \in DOMAIN history
    BY DEF TypeOK, Node, Visited
  <1>3. n.backpointer # 0
    <2>1. Start.transition = "NONE"
      BY DEF Start, NodeAt
    <2>2. Linked(n) /\ n.transition # "NONE"
      BY <1>2 DEF LinksRight, Mutated
    <2> QED BY <2>1, <2>2 DEF Linked
  <1>4. PICK u : /\ Ancestors(n, d) = Tail(u) /\ Leads(u, n, d)
                 /\ u \in Seq({n} \cup {history[j] : j \in DOMAIN history})
    <2> HIDE DEF d, n
    <2> QED BY <1>1, <1>2, UpsLead
  <1>5. PICK e \in 3 .. Len(u) : a = u[e]
    <2>1. PICK A : u \in Seq(A)
      BY <1>4
    <2>2. a \in Range(Tail(Tail(u)))
      BY <1>1, <1>4
    <2>3. Len(u) \in Nat /\ Len(u) >= 2
      BY <1>1, <1>3, <1>4, <2>1 DEF Leads
    <2> DEFINE t == Tail(u)
    <2>4. t \in Seq(A) /\ Len(t) = Len(u) - 1 /\ \A i \in 1 .. Len(t) : t[i] = u[i + 1]
      BY <2>1, <2>3
    <2> HIDE DEF t
    <2> DEFINE v == Tail(t)
    <2>5. v \in Seq(A) /\ Len(v) = Len(t) - 1 /\ \A i \in 1 .. Len(v) : v[i] = t[i + 1]
      BY <2>3, <2>4
    <2> HIDE DEF v
    <2>6. PICK i \in DOMAIN v : a = v[i]
      BY <2>2 DEF Range, t, v
    <2>7. i \in 1 .. Len(u) - 2
      BY <2>3, <2>4, <2>5, <2>6
    <2>8. v[i] = t[i + 1] /\ i + 1 \in 1 .. Len(t)
      BY <2>3, <2>4, <2>5, <2>7
    <2>9. t[i + 1] = u[i + 2] /\ i + 2 \in 3 .. Len(u)
      BY <2>3, <2>4, <2>7, <2>8
    <2> QED BY <2>6, <2>8, <2>9
  <1>6. e - 1 \in 2 .. d
    BY <1>1, <1>4, <1>5 DEF Leads
  <1> DEFINE c == [i \in 0 .. Len(u) - 1 |-> u[i + 1]]
  <1>7. Climbs(c, n, e - 1) /\ c[e - 1] = a
    <2> HIDE DEF n
    <2>1. PICK l \in Nat : l = Len(u)
      BY <1>4
    <2>2. e \in 3 .. l /\ \A i \in 0 .. l - 1 : c[i] = u[i + 1]
      BY <1>5, <2>1
    <2>3. u[1] = n /\ \A i \in 1 .. l - 1 : u[i].backpointer # 0 /\ u[i + 1] = Parent(u[i])
      BY <1>4, <2>1 DEF Leads
    <2> HIDE DEF c
    <2>4. c[0] = n
      BY <2>2, <2>3
    <2>5. ASSUME NEW i \in 0 .. (e - 1) - 1
          PROVE  c[i].backpointer # 0 /\ c[i + 1] = Parent(c[i])
      <3>1. i \in 0 .. l - 1 /\ i + 1 \in 0 .. l - 1 /\ i + 1 \in 1 .. l - 1
        BY <2>1, <2>2
      <3>2. c[i] = u[i + 1] /\ c[i + 1] = u[(i + 1) + 1]
        BY <2>2, <3>1
      <3> QED BY <2>3, <3>1, <3>2
    <2>6. e - 1 \in 0 .. l - 1 /\ (e - 1) + 1 = e
      BY <2>1, <2>2
    <2>7. c[e - 1] = u[e]
      BY <2>2, <2>6
    <2> QED BY <1>5, <2>4, <2>5, <2>7 DEF Climbs
  <1>8. NoCycle(n)
    BY <1>2 DEF NoCycles
  <1> QED BY <1>1, <1>6, <1>7, <1>8 DEF NoCycle

(* A search that only remembers the last few ancestors of a node never     *)
(* mutates its way back to one of them (SynSearch.cc, the cycle memory     *)
(* loop that sets isNewChild), for every tree, graph and memory.           *)
THEOREM NoShortCycles ==
  ASSUME ~SEARCH_FULL_MEMORY PROVE Spec => []NoShortCycle
  <1> DEFINE Inv == CycleInv /\ NoCycles
  <1>1. Init => Inv
    BY CycleInvariant DEF Init, NoCycles
  <1>2. Inv /\ [Next]_vars => Inv'
    BY CycleInvariantNext, NoCyclesNext
  <1>3. Inv => NoShortCycle
    BY ShortCyclesRuledOut DEF CycleInv, NoShortCycle
  <1> QED BY <1>1, <1>2, <1>3, PTL DEF Spec

-------------------------------------------------------------------------------
(* Sets of numbers                                                         *)

LEMMA MinIs ==
  ASSUME NEW S \in SUBSET Nat, S # {} PROVE Min(S) \in S /\ \A k \in S : Min(S) <= k
  <1> DEFINE m == CHOOSE m \in S : \A k \in S : m <= k
  <1>1. Min(S) = m
    BY Zenon DEF Min
  <1>2. \E x \in S : \A k \in S : x <= k
    BY LeastExists
  <1>3. m \in S /\ \A k \in S : m <= k
    BY <1>2, Zenon
  <1> HIDE DEF m
  <1> QED BY <1>1, <1>3

LEMMA FewFinite ==
  ASSUME NEW n \in Nat, NEW S \in SUBSET (0 .. n)
  PROVE  IsFiniteSet(S) /\ Cardinality(S) \in Nat
  <1>1. IsFiniteSet(0 .. n)
    BY FS_Interval
  <1>2. IsFiniteSet(S)
    BY <1>1, FS_Subset
  <1> QED BY <1>2, FS_CardinalityType

(* The first m of some numbers are at most m.                              *)
LEMMA FirstFew ==
  ASSUME NEW n \in Nat, NEW S \in SUBSET (0 .. n), NEW m \in Nat
  PROVE  Cardinality({k \in S : Cardinality({j \in S : j < k}) < m}) <= m
  <1> DEFINE before(k) == {j \in S : j < k}
             F == {k \in S : Cardinality(before(k)) < m}
  <1>1. ASSUME F = {} PROVE Cardinality(F) <= m
    <2> HIDE DEF F
    <2> QED BY <1>1, FS_EmptySet
  <1>2. ASSUME F # {} PROVE Cardinality(F) <= m
    <2>1. F \in SUBSET (0 .. n)
      OBVIOUS
    <2>2. PICK x \in F : \A k \in F : x >= k
      <3> HIDE DEF F
      <3> QED BY <1>2, <2>1, GreatestExists
    <2>3. F \ {x} \subseteq before(x)
      <3>1. ASSUME NEW k \in F, k # x PROVE k \in S /\ k < x
        <4>1. x >= k /\ x \in Nat /\ k \in Nat
          <5> HIDE DEF F
          <5> QED BY <2>1, <2>2, <3>1
        <4> QED BY <3>1, <4>1
      <3> HIDE DEF F
      <3> QED BY <3>1
    <2>4. IsFiniteSet(before(x)) /\ Cardinality(before(x)) \in Nat
      <3>1. before(x) \in SUBSET (0 .. n)
        OBVIOUS
      <3> HIDE DEF before
      <3> QED BY <3>1, FewFinite
    <2>5. Cardinality(before(x)) < m
      BY <2>2
    <2> HIDE DEF before
    <2>6. Cardinality(F \ {x}) <= Cardinality(before(x)) /\ Cardinality(F \ {x}) \in Nat
      <3> HIDE DEF F
      <3> QED BY <2>3, <2>4, FS_Subset, FS_CardinalityType
    <2>7. IsFiniteSet(F) /\ Cardinality(F) \in Nat /\ Cardinality(F \ {x}) = Cardinality(F) - 1
      <3> HIDE DEF F
      <3> QED BY <2>1, <2>2, FewFinite, FS_RemoveElement
    <2> HIDE DEF F
    <2> QED BY <2>4, <2>5, <2>6, <2>7
  <1>3. Cardinality(F) <= m
    BY <1>1, <1>2, Zenon
  <1> QED BY <1>3

-------------------------------------------------------------------------------
(* Trees                                                                   *)

LEMMA TreeFacts ==
  ASSUME TypeOK
  PROVE  /\ \E n \in Nat : Tokens(tree) = 0 .. n
         /\ Tokens(tree) \in SUBSET Nat /\ IsFiniteSet(Tokens(tree))
         /\ TREE_ROOT \notin Tokens(tree)
         /\ Root(tree) \in Tokens(tree) /\ tree.governor[Root(tree)] = TREE_ROOT
         /\ \A i \in Tokens(tree) : /\ tree.governor[i] \in Tokens(tree) \cup {TREE_ROOT}
                                    /\ tree.governor[i] \notin DeleteMask(tree, i)
                                    /\ tree.word[i] \in DOMAIN query.graph
         /\ tree.word \in [Tokens(tree) -> Range(tree.word)]
         /\ \A q \in Quantifiers(tree) : tree.quantifiers[q].token \in Tokens(tree)
         /\ \E n \in Nat : Quantifiers(tree) = 1 .. n
  <1>1. query \in Queries
    BY DEF TypeOK
  <1>2. /\ Tokens(tree) = 0 .. Cardinality(Tokens(tree)) - 1
        /\ TREE_ROOT \notin Tokens(tree)
        /\ \E i \in Tokens(tree) : tree.governor[i] = TREE_ROOT
        /\ \A i \in Tokens(tree) : /\ tree.governor[i] \in Tokens(tree) \cup {TREE_ROOT}
                                   /\ tree.governor[i] \notin DeleteMask(tree, i)
        /\ tree.word \in [Tokens(tree) -> Range(tree.word)]
        /\ tree.quantifiers \in Seq(Range(tree.quantifiers))
        /\ \A m \in Range(tree.quantifiers) : m.token \in Tokens(tree)
    BY <1>1, TreesAssumption, Zenon DEF tree
  <1>3. IsFiniteSet(Tokens(tree)) /\ \A i \in Tokens(tree) : tree.word[i] \in DOMAIN query.graph
    BY <1>1, QueriesAssumption, GraphsAssumption, Zenon DEF tree
  <1>4. Cardinality(Tokens(tree)) \in Nat
    BY <1>3, FS_CardinalityType
  <1>5. PICK k : k = Cardinality(Tokens(tree)) - 1
    OBVIOUS
  <1>6. PICK T : T = Tokens(tree)
    OBVIOUS
  <1>7. k \in Nat /\ T = 0 .. k /\ T \in SUBSET Nat
    <2>1. T = 0 .. k /\ T # {} /\ k \in Int
      BY <1>2, <1>4, <1>5, <1>6
    <2> QED BY <2>1
  <1>8. Root(tree) \in Tokens(tree) /\ tree.governor[Root(tree)] = TREE_ROOT
    <2> DEFINE R == {i \in Tokens(tree) : tree.governor[i] = TREE_ROOT}
    <2>1. R \in SUBSET Nat /\ R # {}
      BY <1>2, <1>6, <1>7
    <2>2. Min(R) \in R
      <3> HIDE DEF R
      <3> QED BY <2>1, MinIs
    <2> QED BY <2>2 DEF Root
  <1>9. \A q \in Quantifiers(tree) : tree.quantifiers[q].token \in Tokens(tree)
    BY <1>2 DEF Quantifiers, Range
  <1>10. Quantifiers(tree) = 1 .. Len(tree.quantifiers) /\ Len(tree.quantifiers) \in Nat
    BY <1>2 DEF Quantifiers
  <1> QED BY <1>2, <1>3, <1>6, <1>7, <1>8, <1>9, <1>10

(* The token whose mask it is, and nothing from outside of it.             *)
MaskLevels(t, i, f) ==
  f = [k \in 0 .. Cardinality(Tokens(t)) |->
         IF k = 0 THEN {i} ELSE f[k - 1] \cup {j \in Tokens(t) : t.governor[j] \in f[k - 1]}]

LEMMA MaskLevelsExist ==
  ASSUME NEW t, IsFiniteSet(Tokens(t)), NEW i
  PROVE  \E f : MaskLevels(t, i, f)
  <1> DEFINE n == Cardinality(Tokens(t))
             S == SUBSET (Tokens(t) \cup {i})
             g == [p \in (1 .. n) \X S |-> p[2] \cup {j \in Tokens(t) : t.governor[j] \in p[2]}]
  <1>1. n \in Nat
    BY FS_CardinalityType
  <1>2. g \in [(1 .. n) \X S -> S]
    OBVIOUS
  <1>3. {i} \in S
    OBVIOUS
  <1>4. PICK f \in [0 .. n -> S] : Unfolds(f, n, {i}, g)
    <2> HIDE DEF g, S, n
    <2> QED BY <1>1, <1>2, <1>3, RecursionExists
  <1>5. f = [k \in 0 .. n |-> IF k = 0 THEN {i} ELSE g[<<k, f[k - 1]>>]]
    BY <1>4, Zenon DEF Unfolds
  <1>6. ASSUME NEW k \in 0 .. n, k # 0
        PROVE  g[<<k, f[k - 1]>>] = f[k - 1] \cup {j \in Tokens(t) : t.governor[j] \in f[k - 1]}
    <2>1. k \in 1 .. n /\ k - 1 \in 0 .. n
      BY <1>1, <1>6
    <2>2. f[k - 1] \in S
      <3> HIDE DEF S, n
      <3> QED BY <1>4, <2>1
    <2>3. PICK B : B = f[k - 1]
      OBVIOUS
    <2> HIDE DEF S, n
    <2> QED BY <2>1, <2>2, <2>3
  <1> DEFINE l(k) == IF k = 0 THEN {i}
                     ELSE f[k - 1] \cup {j \in Tokens(t) : t.governor[j] \in f[k - 1]}
  <1>7. f = [k \in 0 .. n |-> l(k)]
    <2>1. \A k \in 0 .. n : (IF k = 0 THEN {i} ELSE g[<<k, f[k - 1]>>]) = l(k)
      <3> HIDE DEF g
      <3> QED BY <1>6
    <2> HIDE DEF g, l
    <2> QED BY <1>5, <2>1
  <1> QED BY <1>7, Zenon DEF MaskLevels

LEMMA MaskIs ==
  ASSUME NEW t, IsFiniteSet(Tokens(t)), NEW i
  PROVE  /\ i \in DeleteMask(t, i)
         /\ DeleteMask(t, i) \subseteq Tokens(t) \cup {i}
         /\ \A j \in DeleteMask(t, i) : j # i => t.governor[j] \in DeleteMask(t, i)
         /\ \A S : i \in S /\ (\A j \in Tokens(t) : t.governor[j] \in S \cap DeleteMask(t, i) => j \in S)
                  => DeleteMask(t, i) \subseteq S
  <1> DEFINE n == Cardinality(Tokens(t))
             f == CHOOSE f : MaskLevels(t, i, f)
             mask == DeleteMask(t, i)
  <1>1. MaskLevels(t, i, f)
    BY MaskLevelsExist, Zenon
  <1>2. mask = f[n]
    BY Zenon DEF DeleteMask, MaskLevels
  <1>3. n \in Nat
    BY FS_CardinalityType
  <1> HIDE DEF f, mask, n
  <1>4. \A k \in 0 .. n :
          f[k] = IF k = 0 THEN {i} ELSE f[k - 1] \cup {j \in Tokens(t) : t.governor[j] \in f[k - 1]}
    BY <1>1, Zenon DEF MaskLevels, n
  <1>5. f[0] = {i}
    <2>1. 0 \in 0 .. n
      BY <1>3
    <2> QED BY <1>4, <2>1, Zenon
  <1>6. ASSUME NEW k \in 1 .. n
        PROVE  /\ k - 1 \in 0 .. n
               /\ f[k] = f[k - 1] \cup {j \in Tokens(t) : t.governor[j] \in f[k - 1]}
    <2>1. k \in 0 .. n /\ k # 0 /\ k - 1 \in 0 .. n
      BY <1>3
    <2> QED BY <1>4, <2>1, Zenon
  <1>7. i \in f[n] /\ f[n] \subseteq Tokens(t) \cup {i}
    <2> DEFINE T == {k \in 0 .. n : i \in f[k] /\ f[k] \subseteq Tokens(t) \cup {i}}
    <2>1. 0 \in T
      BY <1>3, <1>5
    <2>2. \A k \in 1 .. n : k - 1 \in T => k \in T
      BY <1>6
    <2>3. n \in T
      <3> HIDE DEF T
      <3> QED BY <1>3, <2>1, <2>2, IntervalInduction
    <2> QED BY <2>3
  <1>8. \A j \in f[n] : j # i => t.governor[j] \in f[n]
    <2> DEFINE T == {k \in 0 .. n : \A j \in f[k] : j # i => t.governor[j] \in f[k]}
    <2>1. 0 \in T
      BY <1>3, <1>5
    <2>2. \A k \in 1 .. n : k - 1 \in T => k \in T
      BY <1>6
    <2>3. n \in T
      <3> HIDE DEF T
      <3> QED BY <1>3, <2>1, <2>2, IntervalInduction
    <2> QED BY <2>3
  <1>9. \A m \in 0 .. n : f[n - m] \subseteq f[n]
    <2> DEFINE T == {m \in 0 .. n : f[n - m] \subseteq f[n]}
    <2>1. 0 \in T
      <3>1. n - 0 = n /\ 0 \in 0 .. n
        BY <1>3
      <3> QED BY <3>1
    <2>2. ASSUME NEW m \in 1 .. n, m - 1 \in T PROVE m \in T
      <3>1. n - (m - 1) \in 1 .. n /\ (n - (m - 1)) - 1 = n - m /\ m \in 0 .. n
        BY <1>3
      <3>2. f[n - m] \subseteq f[n - (m - 1)]
        BY <1>6, <3>1
      <3>3. f[n - (m - 1)] \subseteq f[n]
        BY <2>2
      <3> QED BY <3>1, <3>2, <3>3
    <2>3. 0 .. n \subseteq T
      <3> HIDE DEF T
      <3> QED BY <1>3, <2>1, <2>2, IntervalInduction
    <2> QED BY <2>3
  <1>10. \A k \in 0 .. n : f[k] \subseteq f[n]
    <2>1. ASSUME NEW k \in 0 .. n PROVE f[k] \subseteq f[n]
      <3>1. n - k \in 0 .. n /\ n - (n - k) = k
        BY <1>3
      <3>2. f[n - (n - k)] \subseteq f[n]
        BY <1>9, <3>1
      <3> QED BY <3>1, <3>2
    <2> QED BY <2>1
  <1>11. ASSUME NEW S, i \in S, \A j \in Tokens(t) : t.governor[j] \in S \cap mask => j \in S
         PROVE  mask \subseteq S
    <2> DEFINE T == {k \in 0 .. n : f[k] \subseteq S}
    <2>1. 0 \in T
      BY <1>3, <1>5, <1>11
    <2>2. ASSUME NEW k \in 1 .. n, k - 1 \in T PROVE k \in T
      <3>1. f[k - 1] \subseteq S \cap mask
        BY <1>2, <1>6, <1>10, <2>2
      <3> QED BY <1>6, <1>11, <3>1
    <2>3. n \in T
      <3> HIDE DEF T
      <3> QED BY <1>3, <2>1, <2>2, IntervalInduction
    <2> QED BY <1>2, <2>3
  <1> QED BY <1>2, <1>7, <1>8, <1>11 DEF mask

-------------------------------------------------------------------------------
(* What holds of every node, and of the children it has                    *)

Over(f, S) == f = [x \in S |-> f[x]]

(* The token is one of the tree and its word one of the graph; the root is *)
(* never deleted.                                                          *)
WellFormed(n) ==
  /\ n.index \in Tokens(tree) /\ n.token.word \in DOMAIN query.graph
  /\ n.deleted \in SUBSET Tokens(tree) /\ Root(tree) \notin n.deleted
  /\ Over(n.words, Tokens(tree)) /\ Over(n.markings, Quantifiers(tree))

LEMMA StartWellFormed ==
  ASSUME TypeOK PROVE WellFormed(Start)
  <1>1. \A i \in Tokens(tree) : WellFormed(NodeAt(i, GovernorAt(i))) /\ WellFormed(NodeAt(i, TREE_ROOT_WORD))
    BY TreeFacts DEF WellFormed, NodeAt, Token, Over, Markings
  <1>2. CASE Quantifiers(tree) # {}
    <2>1. 1 \in Quantifiers(tree)
      BY <1>2, TreeFacts
    <2> QED BY <1>1, <1>2, <2>1, TreeFacts DEF Start
  <1>3. CASE Quantifiers(tree) = {}
    BY <1>1, <1>3, TreeFacts DEF Start
  <1> QED BY <1>2, <1>3

(* The markings after a mutation of the word of n into w.                  *)
MarkingsAfter(n, w) ==
  IF IsQuantifier(tree, n.index)
  THEN [n.markings EXCEPT ![QuantifierIndex(tree, n.index)] = query.marking[w]]
  ELSE n.markings

LEMMA MutationFields ==
  ASSUME NEW n, Node(n), NEW h, NEW e, NEW c, c = Mutation(n, h, e)
  PROVE  /\ c.index = n.index /\ c.deleted = n.deleted /\ c.token.word = e.source
         /\ c.words = [n.words EXCEPT ![n.index] = e.source]
         /\ c.markings = MarkingsAfter(n, e.source)
         /\ c.factHash =
              LET hash == UpdateHashFromMutation(tree, n.factHash, n.index, n.token.word,
                                                 n.governor, e.source)
              IN  IF IsQuantifier(tree, n.index)
                  THEN SymDiff(hash, SymDiff(HashQuantifiers(n.markings),
                                             HashQuantifiers(MarkingsAfter(n, e.source))))
                  ELSE hash
  <1> DEFINE child == [n EXCEPT
        !.factHash = UpdateHashFromMutation(tree, @, n.index, n.token.word,
                                            n.governor, e.source),
        !.truth = ReverseTransition(@, MutationRelation(n, e)),
        !.token = [word |-> e.source, sense |-> e.sourceSense],
        !.backpointer = h,
        !.transition = MutationRelation(n, e),
        !.words = [@ EXCEPT ![n.index] = e.source]]
  <1>1. /\ child.index = n.index /\ child.deleted = n.deleted /\ child.token.word = e.source
        /\ child.words = [n.words EXCEPT ![n.index] = e.source]
        /\ child.markings = n.markings
        /\ child.factHash = UpdateHashFromMutation(tree, n.factHash, n.index, n.token.word,
                                                   n.governor, e.source)
        /\ DOMAIN child = DOMAIN n
    BY DEF Node, Blank
  <1>2. c = IF IsQuantifier(tree, n.index) THEN MutateQuantifier(child, MarkingsAfter(n, e.source))
            ELSE child
    <2>1. c = IF IsQuantifier(tree, n.index)
              THEN MutateQuantifier(child, [child.markings EXCEPT
                     ![QuantifierIndex(tree, n.index)] = query.marking[e.source]])
              ELSE child
      BY Zenon DEF Mutation
    <2> HIDE DEF child
    <2>2. IsQuantifier(tree, n.index) =>
            [child.markings EXCEPT ![QuantifierIndex(tree, n.index)] = query.marking[e.source]]
              = MarkingsAfter(n, e.source)
      BY <1>1 DEF MarkingsAfter
    <2> QED BY <2>1, <2>2
  <1> HIDE DEF child
  <1>3. CASE ~IsQuantifier(tree, n.index)
    BY <1>1, <1>2, <1>3 DEF MarkingsAfter
  <1>4. CASE IsQuantifier(tree, n.index)
    BY <1>1, <1>2, <1>4 DEF MutateQuantifier, Node, Blank
  <1> QED BY <1>3, <1>4

MarkingsWithout(n, d) ==
  IF IsQuantifier(tree, d) THEN [n.markings EXCEPT ![QuantifierIndex(tree, d)] = Cleared]
  ELSE n.markings

LEMMA DeletionFields ==
  ASSUME NEW n, Node(n), NEW h, NEW d, NEW c, c = Deletion(n, h, d)
  PROVE  /\ c.index = n.index /\ c.token = n.token /\ c.words = n.words
         /\ c.deleted = n.deleted \cup DeleteMask(tree, d)
         /\ c.markings = MarkingsWithout(n, d)
         /\ c.factHash = UpdateHashFromDeletions(tree, n.factHash, d, tree.word[d],
                                                 n.token.word, DeleteMask(tree, d))
  BY DEF Deletion, MarkingsWithout, Node, Blank

LEMMA MoveFields ==
  ASSUME TypeOK, NEW n, Node(n), NEW h, NEW c \in IndexMoves(n, h)
  PROVE  /\ c.index \in Tokens(tree) /\ c.token.word = tree.word[c.index]
         /\ c.words = n.words /\ c.deleted = n.deleted
         /\ c.markings = n.markings /\ c.factHash = n.factHash
         /\ c.index \notin n.deleted \/ IsQuantifier(tree, c.index) \/ c.index = Root(tree)
  <1>1. ASSUME NEW i
        PROVE  /\ Moved(n, h, i).index = i /\ Moved(n, h, i).token.word = tree.word[i]
               /\ Moved(n, h, i).words = n.words /\ Moved(n, h, i).deleted = n.deleted
               /\ Moved(n, h, i).markings = n.markings /\ Moved(n, h, i).factHash = n.factHash
               /\ DOMAIN Moved(n, h, i) = DOMAIN n
    BY DEF Moved, Node, Blank, Token
  <1>2. \A i \in NextInOrder(n) : i \in Tokens(tree) /\ i \notin n.deleted
    BY DEF NextInOrder
  <1>3. /\ NextQuantifier(n.index) \in Tokens(tree)
        /\ IsQuantifier(tree, NextQuantifier(n.index)) \/ NextQuantifier(n.index) = Root(tree)
    <2> DEFINE later == {j \in Tokens(tree) : IsQuantifier(tree, j) /\ j > n.index}
    <2>1. NextQuantifier(n.index) = IF later = {} THEN Root(tree) ELSE Min(later)
      BY Zenon DEF NextQuantifier
    <2>2. later \in SUBSET Nat
      BY TreeFacts
    <2>3. later # {} => Min(later) \in later
      <3> HIDE DEF later
      <3> QED BY <2>2, MinIs
    <2>4. Root(tree) \in Tokens(tree)
      BY TreeFacts
    <2>5. \A j \in later : j \in Tokens(tree) /\ IsQuantifier(tree, j)
      OBVIOUS
    <2> HIDE DEF later
    <2> QED BY <2>1, <2>3, <2>4, <2>5
  <1>4. CASE ~IsQuantifier(tree, n.index)
    <2>1. PICK i \in NextInOrder(n) : c = Moved(n, h, i)
      BY <1>4 DEF IndexMoves
    <2> QED BY <1>1, <1>2, <2>1
  <1>5. CASE IsQuantifier(tree, n.index)
    <2>1. PICK m : m = Moved(n, h, NextQuantifier(n.index))
      OBVIOUS
    <2>2. c = m \/ c = [m EXCEPT !.allQuantifiersSeen = TRUE]
      BY <1>5, <2>1 DEF IndexMoves
    <2>3. /\ c.index = m.index /\ c.token = m.token /\ c.words = m.words /\ c.deleted = m.deleted
          /\ c.markings = m.markings /\ c.factHash = m.factHash
      <3>1. DOMAIN m = DOMAIN n
        BY <1>1, <2>1
      <3> QED BY <2>2, <3>1 DEF Node, Blank
    <2> QED BY <1>1, <1>3, <2>1, <2>3
  <1> QED BY <1>4, <1>5

(* The mask of a dependent that is deleted.                                *)
LEMMA DeletionMask ==
  ASSUME TypeOK, NEW n, WellFormed(n), NEW d \in DependentsDeleted(n)
  PROVE  LET mask == DeleteMask(tree, d)
         IN  /\ d \in Tokens(tree) /\ d \in mask /\ d \notin n.deleted
             /\ tree.governor[d] = n.index /\ n.index \notin mask
             /\ mask \subseteq Tokens(tree) /\ Root(tree) \notin mask
             /\ \A j \in mask : j # d => tree.governor[j] \in mask
  <1> DEFINE mask == DeleteMask(tree, d)
  <1>1. d \in Tokens(tree) /\ d \notin n.deleted /\ tree.governor[d] = n.index
    BY DEF DependentsDeleted, Dependents
  <1>2. /\ d \in mask /\ mask \subseteq Tokens(tree) \cup {d}
        /\ \A j \in mask : j # d => tree.governor[j] \in mask
    <2>1. IsFiniteSet(Tokens(tree))
      BY TreeFacts
    <2> QED BY <2>1, MaskIs
  <1>3. n.index \notin mask /\ mask \subseteq Tokens(tree)
    BY <1>1, <1>2, TreeFacts
  <1>4. Root(tree) \notin mask
    <2>1. Root(tree) # d
      BY <1>1, TreeFacts DEF WellFormed
    <2>2. tree.governor[Root(tree)] \notin mask
      BY <1>3, TreeFacts
    <2> QED BY <1>2, <2>1, <2>2
  <1> QED BY <1>1, <1>2, <1>3, <1>4

LEMMA OverExcept ==
  ASSUME NEW f, NEW S, Over(f, S), NEW x, NEW y PROVE Over([f EXCEPT ![x] = y], S)
  BY DEF Over

LEMMA ChildWellFormed ==
  ASSUME TypeOK, NEW n, Node(n), WellFormed(n), NEW h, NEW c \in Children(n, h)
  PROVE  WellFormed(c)
  <1>1. CASE \E k \in EdgesTaken(n) : c = Mutation(n, h, EdgesInto(n)[k])
    <2>1. PICK k \in DOMAIN EdgesInto(n) : c = Mutation(n, h, EdgesInto(n)[k])
      BY <1>1 DEF EdgesTaken
    <2>2. PICK e : e = EdgesInto(n)[k]
      OBVIOUS
    <2>3. e.source \in DOMAIN query.graph
      <3>1. query \in Queries /\ n.token.word \in DOMAIN query.graph
        BY DEF TypeOK, WellFormed
      <3>2. \A f \in Range(query.graph[n.token.word]) : f.source \in DOMAIN query.graph
        BY <3>1, GraphsAssumption, Zenon
      <3>3. e \in Range(query.graph[n.token.word])
        BY <2>1, <2>2 DEF EdgesInto, Range
      <3> QED BY <3>2, <3>3
    <2>4. /\ c.index = n.index /\ c.deleted = n.deleted /\ c.token.word = e.source
          /\ c.words = [n.words EXCEPT ![n.index] = e.source]
          /\ c.markings = MarkingsAfter(n, e.source)
      BY <2>1, <2>2, MutationFields
    <2>5. Over(c.words, Tokens(tree)) /\ Over(c.markings, Quantifiers(tree))
      <3>1. Over(n.words, Tokens(tree)) /\ Over(n.markings, Quantifiers(tree))
        BY DEF WellFormed
      <3>2. Over([n.words EXCEPT ![n.index] = e.source], Tokens(tree))
        BY <3>1, OverExcept, Zenon
      <3>3. Over(MarkingsAfter(n, e.source), Quantifiers(tree))
        BY <3>1, OverExcept, Zenon DEF MarkingsAfter
      <3> QED BY <2>4, <3>2, <3>3, Zenon
    <2> QED BY <2>3, <2>4, <2>5 DEF WellFormed
  <1>2. CASE \E d \in DependentsDeleted(n) : c = Deletion(n, h, d)
    <2>1. PICK d \in DependentsDeleted(n) : c = Deletion(n, h, d)
      BY <1>2
    <2>2. PICK mask : mask = DeleteMask(tree, d)
      OBVIOUS
    <2>3. mask \subseteq Tokens(tree) /\ Root(tree) \notin mask
      BY <2>2, DeletionMask
    <2>4. /\ c.index = n.index /\ c.token = n.token /\ c.words = n.words
          /\ c.deleted = n.deleted \cup mask
          /\ c.markings = MarkingsWithout(n, d)
      BY <2>1, <2>2, DeletionFields
    <2>5. Over(c.markings, Quantifiers(tree))
      <3>1. Over(n.markings, Quantifiers(tree))
        BY DEF WellFormed
      <3>2. Over(MarkingsWithout(n, d), Quantifiers(tree))
        BY <3>1, OverExcept, Zenon DEF MarkingsWithout
      <3> QED BY <2>4, <3>2, Zenon
    <2> QED BY <2>3, <2>4, <2>5 DEF WellFormed
  <1>3. CASE c \in IndexMoves(n, h)
    <2>1. /\ c.index \in Tokens(tree) /\ c.token.word = tree.word[c.index]
          /\ c.words = n.words /\ c.deleted = n.deleted /\ c.markings = n.markings
      BY <1>3, MoveFields
    <2>2. c.token.word \in DOMAIN query.graph
      BY <2>1, TreeFacts
    <2> QED BY <2>1, <2>2 DEF WellFormed
  <1> QED BY <1>1, <1>2, <1>3 DEF Children

LEMMA PushedAreChildren ==
  ASSUME NEW s, NEW h, NEW c \in Pushed(s, h) PROVE c.node \in Children(s.node, h)
  <1>1. CASE \E k \in Mutations(s.node, h) : c = PushedMutation(s.node, h, k)
    BY <1>1 DEF Mutations, PushedMutation, Scored, Children
  <1>2. CASE \E d \in DependentsDeleted(s.node) : c = PushedDeletion(s.node, h, d)
    BY <1>2 DEF PushedDeletion, Scored, Children
  <1>3. CASE \E m \in IndexMoves(s.node, h) : c = Scored(m, s.cost, <<"move", m.index>>)
    BY <1>3 DEF Scored, Children
  <1> QED BY <1>1, <1>2, <1>3, Zenon DEF Pushed

(* Every node but the start is a child of the one that its backpointer     *)
(* leads to.                                                               *)
Descends(n) ==
  WellFormed(n) /\ (n.backpointer # 0 => n \in Children(Parent(n), n.backpointer))

NodesRight ==
  /\ \A i \in DOMAIN history : Descends(history[i])
  /\ \A s \in fringe : Descends(s.node)

LEMMA WellFormedFixed ==
  ASSUME query' = query, NEW n, WellFormed(n) PROVE WellFormed(n)'
  BY DEF WellFormed, tree

LEMMA DescendsGrows ==
  ASSUME Grows, NEW n, n.backpointer \in DOMAIN history, Descends(n) PROVE Descends(n)'
  <1>1. query' = query /\ Parent(n)' = Parent(n)
    BY DEF Grows, Parent
  <1>2. PICK p, h : p = Parent(n) /\ h = n.backpointer
    OBVIOUS
  <1>3. Children(p, h)' = Children(p, h)
    BY <1>1, ChildrenFixed
  <1>4. h # 0 => n \in Children(p, h)
    BY <1>2 DEF Descends
  <1>5. Parent(n)' = p /\ n.backpointer = h
    BY <1>1, <1>2
  <1>6. n.backpointer # 0 => n \in Children(Parent(n), n.backpointer)'
    BY <1>3, <1>4, <1>5
  <1>7. WellFormed(n)'
    BY <1>1, WellFormedFixed DEF Descends
  <1> QED BY <1>6, <1>7 DEF Descends

LEMMA NodesTick ==
  ASSUME TypeOK, NodesRight, NEW s \in fringe, Tick(s) PROVE NodesRight'
  <1>1. Grows
    <2>1. query' = query
      BY DEF Tick
    <2> QED BY <2>1, TickStep DEF Grows
  <1>2. PICK k : k = historySize
    OBVIOUS
  <1>3. /\ k # 0 /\ DOMAIN history' = DOMAIN history \cup {k} /\ history'[k] = s.node
        /\ \A i \in DOMAIN history : history'[i] = history[i]
    <2>1. /\ k \in Nat \ {0} /\ DOMAIN history = 0 .. k - 1 /\ DOMAIN history' = 0 .. k
          /\ history'[k] = s.node
          /\ \A i \in DOMAIN history : history'[i] = history[i]
      BY <1>2, TickStep
    <2>2. 0 .. k = (0 .. k - 1) \cup {k}
      BY <2>1
    <2> QED BY <2>1, <2>2
  <1>4. fringe' = (fringe \ {s}) \cup Pushed(s, k)
    BY <1>2 DEF Tick
  <1>5. ASSUME NEW n, n.backpointer \in DOMAIN history, Descends(n) PROVE Descends(n)'
    BY <1>1, <1>5, DescendsGrows
  <1>6. Descends(s.node)'
    BY <1>5 DEF NodesRight, TypeOK
  <1>7. ASSUME NEW i \in DOMAIN history' PROVE Descends(history[i])'
    <2>1. CASE i \in DOMAIN history
      <3>1. PICK n : n = history[i]
        OBVIOUS
      <3>2. n.backpointer \in DOMAIN history
        BY <2>1, <3>1 DEF TypeOK, Node
      <3>3. Descends(n)'
        BY <1>5, <2>1, <3>1, <3>2 DEF NodesRight
      <3>4. history'[i] = n
        BY <1>3, <2>1, <3>1
      <3> QED BY <3>3, <3>4
    <2>2. CASE i = k
      BY <1>3, <1>6, <2>2
    <2> QED BY <1>3, <2>1, <2>2
  <1>8. ASSUME NEW c \in fringe' PROVE Descends(c.node)'
    <2>1. CASE c \in fringe
      BY <1>5, <2>1 DEF NodesRight, TypeOK
    <2>2. CASE c \in Pushed(s, k)
      <3>1. c.node \in Children(s.node, k)
        BY <2>2, PushedAreChildren
      <3>2. WellFormed(c.node)
        BY <3>1, ChildWellFormed DEF NodesRight, Descends, TypeOK
      <3>3. query' = query
        BY <1>1 DEF Grows
      <3>4. WellFormed(c.node)'
        BY <3>2, <3>3, WellFormedFixed
      <3>5. c.node.backpointer = k
        <4>1. k \in Nat
          BY <1>2, TickStep
        <4> QED BY <2>2, <4>1, PushedChild DEF TypeOK
      <3>6. Children(s.node, k)' = Children(s.node, k)
        BY <3>3, ChildrenFixed
      <3>7. Parent(c.node)' = s.node
        BY <1>3, <3>5 DEF Parent
      <3> QED BY <3>1, <3>4, <3>5, <3>6, <3>7 DEF Descends
    <2> QED BY <1>4, <2>1, <2>2
  <1> QED BY <1>7, <1>8 DEF NodesRight

LEMMA NodesInit == Init => NodesRight
  BY DEF Init, NodesRight

LEMMA NodesNext ==
  ASSUME TypeOK, NodesRight, [Next]_vars PROVE NodesRight'
  <1>1. CASE Begin
    <2>1. /\ fringe' = {Scored(Start, 0, <<"start", 0>>)} /\ history' = [i \in {0} |-> Start]
          /\ query' = query
      BY <1>1 DEF Begin
    <2>2. Start' = Start
      BY <2>1 DEF Start, NodeAt, Token, GovernorAt, tree
    <2>3. Start.backpointer = 0
      BY StartNode DEF TypeOK
    <2>4. WellFormed(Start)'
      <3>1. PICK n : n = Start
        OBVIOUS
      <3>2. WellFormed(n)'
        BY <2>1, <3>1, StartWellFormed, WellFormedFixed
      <3>3. Start' = n
        BY <2>2, <3>1
      <3> QED BY <3>2, <3>3
    <2>5. Descends(Start)'
      BY <2>2, <2>3, <2>4 DEF Descends
    <2>6. \A c \in fringe' : c.node = Start'
      BY <2>1, <2>2 DEF Scored
    <2>7. \A i \in DOMAIN history' : history'[i] = Start'
      BY <2>1, <2>2
    <2> QED BY <2>5, <2>6, <2>7 DEF NodesRight
  <1>2. ASSUME NEW s \in fringe, Tick(s) PROVE NodesRight'
    BY <1>2, NodesTick
  <1>3. ASSUME NEW s, SkipVisited(s) \/ CheckFringe(s) \/ EndSearch \/ Return \/ Refuse \/ UNCHANGED vars
        PROVE  NodesRight'
    <2>1. UNCHANGED <<query, history>> /\ fringe' \subseteq fringe
      BY <1>3 DEF SkipVisited, CheckFringe, EndSearch, Return, Refuse, vars
    <2>2. Grows
      BY <2>1 DEF Grows
    <2>3. ASSUME NEW n, n.backpointer \in DOMAIN history, Descends(n) PROVE Descends(n)'
      BY <2>2, <2>3, DescendsGrows
    <2>4. ASSUME NEW i \in DOMAIN history' PROVE Descends(history[i])'
      <3>1. PICK n : n = history[i]
        OBVIOUS
      <3>2. n.backpointer \in DOMAIN history /\ Descends(n)
        BY <2>1, <2>4, <3>1 DEF TypeOK, Node, NodesRight
      <3>3. history'[i] = n
        BY <2>1, <3>1
      <3> QED BY <2>3, <3>2, <3>3
    <2>5. ASSUME NEW c \in fringe' PROVE Descends(c.node)'
      BY <2>1, <2>3, <2>5 DEF TypeOK, NodesRight
    <2> QED BY <2>4, <2>5 DEF NodesRight
  <1> QED BY <1>1, <1>2, <1>3 DEF Next

-------------------------------------------------------------------------------
(* The size of the fringe                                                  *)

LEMMA ImageFew ==
  ASSUME NEW S, IsFiniteSet(S), NEW f
  PROVE  IsFiniteSet({f[x] : x \in S}) /\ Cardinality({f[x] : x \in S}) <= Cardinality(S)
  <1> DEFINE T == {f[x] : x \in S}
             g == [x \in S |-> f[x]]
  <1>1. g \in Surjection(S, T)
    BY DEF Surjection
  <1> HIDE DEF g, T
  <1>2. IsFiniteSet(T) /\ Cardinality(T) <= Cardinality(S)
    BY <1>1, FS_Surjection
  <1> QED BY <1>2 DEF T

LEMMA UnionFew ==
  ASSUME NEW S, IsFiniteSet(S), NEW T, IsFiniteSet(T), NEW a \in Nat, NEW b \in Nat,
         Cardinality(S) <= a, Cardinality(T) <= b
  PROVE  IsFiniteSet(S \cup T) /\ Cardinality(S \cup T) <= a + b
  <1>1. /\ Cardinality(S) \in Nat /\ Cardinality(T) \in Nat
        /\ IsFiniteSet(S \cap T) /\ Cardinality(S \cap T) \in Nat
    BY FS_Intersection, FS_CardinalityType
  <1>2. /\ IsFiniteSet(S \cup T)
        /\ Cardinality(S \cup T) = Cardinality(S) + Cardinality(T) - Cardinality(S \cap T)
    BY FS_Union
  <1> QED BY <1>1, <1>2

(* An expansion pushes no more than the branch-out of mutations, the       *)
(* dependents considered and one index move.                               *)
LEMMA PushedFew ==
  ASSUME TypeOK, NEW s, WellFormed(s.node), NEW h
  PROVE  /\ IsFiniteSet(Pushed(s, h))
         /\ Cardinality(Pushed(s, h)) <= (MAX_BRANCHOUT + MaxDependents) + 1
  <1> DEFINE n == s.node
             M == Mutations(n, h)
             D == DependentsDeleted(n)
             I == IndexMoves(n, h)
             A == {PushedMutation(n, h, k) : k \in M}
             B == {PushedDeletion(n, h, d) : d \in D}
             C == {Scored(m, s.cost, <<"move", m.index>>) : m \in I}
  <1>1. IsFiniteSet(M) /\ Cardinality(M) <= MAX_BRANCHOUT
    <2> DEFINE may == {k \in DOMAIN EdgesInto(n) : MayMutate(n, EdgesInto(n)[k])}
               E == {k \in may : Cardinality({j \in may : j < k}) < MAX_BRANCHOUT}
    <2>1. EdgesInto(n) \in Seq(Range(EdgesInto(n)))
      <3>1. query \in Queries /\ n.token.word \in DOMAIN query.graph
        BY DEF TypeOK, WellFormed
      <3> QED BY <3>1, GraphsAssumption, Zenon DEF EdgesInto
    <2>2. PICK l \in Nat : DOMAIN EdgesInto(n) = 1 .. l
      BY <2>1
    <2>3. may \in SUBSET (0 .. l)
      BY <2>2
    <2>4. EdgesTaken(n) = E
      BY Zenon DEF EdgesTaken
    <2>5. E \in SUBSET (0 .. l)
      BY <2>3
    <2>6. Cardinality(E) <= MAX_BRANCHOUT
      <3> HIDE DEF may
      <3> QED BY <2>3, FirstFew, LimitsAssumption
    <2>7. M \subseteq E
      BY <2>4 DEF Mutations
    <2> HIDE DEF E, M
    <2>8. IsFiniteSet(E) /\ Cardinality(E) \in Nat
      BY <2>5, FewFinite
    <2>9. IsFiniteSet(M) /\ Cardinality(M) <= Cardinality(E) /\ Cardinality(M) \in Nat
      BY <2>7, <2>8, FS_Subset, FS_CardinalityType
    <2> QED BY <2>6, <2>8, <2>9, LimitsAssumption
  <1>2. IsFiniteSet(D) /\ Cardinality(D) <= MaxDependents
    <2> DEFINE all == {d \in Tokens(tree) : tree.governor[d] = n.index}
               E == {d \in all : Cardinality({e \in all : e < d}) < MaxDependents}
    <2>1. PICK l \in Nat : Tokens(tree) = 0 .. l
      BY TreeFacts
    <2>2. all \in SUBSET (0 .. l)
      BY <2>1
    <2>3. Dependents(tree, n.index, MaxDependents) = E
      BY Zenon DEF Dependents
    <2>4. E \in SUBSET (0 .. l)
      BY <2>2
    <2>5. Cardinality(E) <= MaxDependents
      <3> HIDE DEF all
      <3> QED BY <2>2, FirstFew, LimitsAssumption
    <2>6. D \subseteq E
      BY <2>3 DEF DependentsDeleted
    <2> HIDE DEF E, D
    <2>7. IsFiniteSet(E) /\ Cardinality(E) \in Nat
      BY <2>4, FewFinite
    <2>8. IsFiniteSet(D) /\ Cardinality(D) <= Cardinality(E) /\ Cardinality(D) \in Nat
      BY <2>6, <2>7, FS_Subset, FS_CardinalityType
    <2> QED BY <2>5, <2>7, <2>8, LimitsAssumption
  <1>3. \E m : I \subseteq {m}
    <2>1. CASE IsQuantifier(tree, n.index)
      <3>1. PICK m : m = Moved(n, h, NextQuantifier(n.index))
        OBVIOUS
      <3>2. I = IF m.index # Root(tree) THEN {m} ELSE IF n.allQuantifiersSeen THEN {}
                ELSE {[m EXCEPT !.allQuantifiersSeen = TRUE]}
        BY <2>1, <3>1 DEF IndexMoves
      <3> HIDE DEF I
      <3> QED BY <3>2
    <2>2. CASE ~IsQuantifier(tree, n.index)
      <3> DEFINE order == TopologicalOrder(tree)
                 at == {p \in DOMAIN order : order[p] = n.index}
                 i == order[Min(at) + 1]
      <3>1. NextInOrder(n) \subseteq {i}
        BY DEF NextInOrder
      <3>2. I = {Moved(n, h, j) : j \in NextInOrder(n)}
        BY <2>2 DEF IndexMoves
      <3> HIDE DEF I, i
      <3>3. I \subseteq {Moved(n, h, i)}
        BY <3>1, <3>2
      <3> QED BY <3>3
    <2> QED BY <2>1, <2>2
  <1> HIDE DEF M, D, I
  <1>4. IsFiniteSet(A) /\ Cardinality(A) <= MAX_BRANCHOUT
    <2> DEFINE f == [k \in M |-> PushedMutation(n, h, k)]
    <2>1. A = {f[k] : k \in M}
      OBVIOUS
    <2> HIDE DEF f, A
    <2>2. IsFiniteSet(A) /\ Cardinality(A) <= Cardinality(M)
      BY <1>1, <2>1, ImageFew
    <2>3. Cardinality(A) \in Nat /\ Cardinality(M) \in Nat
      BY <1>1, <2>2, FS_CardinalityType
    <2> QED BY <1>1, <2>2, <2>3, LimitsAssumption
  <1>5. IsFiniteSet(B) /\ Cardinality(B) <= MaxDependents
    <2> DEFINE f == [d \in D |-> PushedDeletion(n, h, d)]
    <2>1. B = {f[d] : d \in D}
      OBVIOUS
    <2> HIDE DEF f, B
    <2>2. IsFiniteSet(B) /\ Cardinality(B) <= Cardinality(D)
      BY <1>2, <2>1, ImageFew
    <2>3. Cardinality(B) \in Nat /\ Cardinality(D) \in Nat
      BY <1>2, <2>2, FS_CardinalityType
    <2> QED BY <1>2, <2>2, <2>3, LimitsAssumption
  <1>6. IsFiniteSet(C) /\ Cardinality(C) <= 1
    <2>1. PICK m : I \subseteq {m}
      BY <1>3
    <2>2. C \subseteq {Scored(m, s.cost, <<"move", m.index>>)}
      BY <2>1
    <2> HIDE DEF C
    <2>3. PICK x : C \subseteq {x}
      BY <2>2
    <2>4. IsFiniteSet({x}) /\ Cardinality({x}) = 1
      BY FS_Singleton
    <2> QED BY <2>3, <2>4, FS_Subset
  <1>7. Pushed(s, h) = (A \cup B) \cup C
    BY DEF Pushed, M, D, I
  <1> HIDE DEF A, B, C
  <1>8. IsFiniteSet(A \cup B) /\ Cardinality(A \cup B) <= MAX_BRANCHOUT + MaxDependents
    BY <1>4, <1>5, UnionFew, LimitsAssumption
  <1>9. PICK a \in Nat : a = MAX_BRANCHOUT + MaxDependents
    BY LimitsAssumption
  <1>10. IsFiniteSet((A \cup B) \cup C) /\ Cardinality((A \cup B) \cup C) <= a + 1
    BY <1>6, <1>8, <1>9, UnionFew
  <1> QED BY <1>7, <1>9, <1>10

FringeInv == TypeOK /\ NodesRight /\ IsFiniteSet(fringe) /\ FringeBounded

LEMMA FringeNext == ASSUME FringeInv, [Next]_vars PROVE FringeInv'
  <1> DEFINE most == MaxFringe + MAX_BRANCHOUT + MaxDependents
  <1> USE DEF FringeInv
  <1>1. TypeOK' /\ NodesRight'
    BY TypeNext, NodesNext
  <1>2. CASE Begin
    <2>1. IsFiniteSet(fringe') /\ Cardinality(fringe') = 1
      BY <1>2, FS_Singleton DEF Begin
    <2> QED BY <1>1, <2>1, LimitsAssumption DEF FringeBounded
  <1>3. ASSUME NEW s \in fringe, Tick(s) PROVE FringeInv'
    <2>1. PICK P : P = Pushed(s, historySize)
      OBVIOUS
    <2>2. IsFiniteSet(P) /\ Cardinality(P) <= (MAX_BRANCHOUT + MaxDependents) + 1
      BY <2>1, PushedFew DEF NodesRight, Descends
    <2>3. fringe' = (fringe \ {s}) \cup P /\ Cardinality(fringe) <= MaxFringe
      BY <1>3, <2>1 DEF Tick, Searching
    <2>4. PICK F : F = fringe \ {s}
      OBVIOUS
    <2>5. IsFiniteSet(F) /\ Cardinality(F) = Cardinality(fringe) - 1 /\ Cardinality(fringe) \in Nat
      BY <1>3, <2>4, FS_RemoveElement, FS_CardinalityType
    <2>6. Cardinality(F) <= MaxFringe - 1 /\ MaxFringe - 1 \in Nat
      BY <2>3, <2>5, LimitsAssumption
    <2>7. PICK a \in Nat, b \in Nat : a = MaxFringe - 1 /\ b = (MAX_BRANCHOUT + MaxDependents) + 1
      BY <2>6, LimitsAssumption
    <2>8. IsFiniteSet(F \cup P) /\ Cardinality(F \cup P) <= a + b
      BY <2>2, <2>5, <2>6, <2>7, UnionFew
    <2>9. a + b = most
      BY <2>7, LimitsAssumption
    <2>10. fringe' = F \cup P
      BY <2>3, <2>4
    <2> QED BY <1>1, <2>8, <2>9, <2>10 DEF FringeBounded
  <1>4. ASSUME NEW s, SkipVisited(s) \/ CheckFringe(s) \/ EndSearch \/ Return \/ Refuse \/ UNCHANGED vars
        PROVE  FringeInv'
    <2>1. fringe' \subseteq fringe
      BY <1>4 DEF SkipVisited, CheckFringe, EndSearch, Return, Refuse, vars
    <2>2. PICK F, G : F = fringe /\ G = fringe'
      OBVIOUS
    <2>3. IsFiniteSet(G) /\ Cardinality(G) <= Cardinality(F) /\ Cardinality(G) \in Nat /\ Cardinality(F) \in Nat
      BY <2>1, <2>2, FS_Subset, FS_CardinalityType
    <2>4. Cardinality(F) <= most
      BY <2>2 DEF FringeBounded
    <2>5. Cardinality(G) <= most
      BY <2>3, <2>4, LimitsAssumption
    <2> QED BY <1>1, <2>2, <2>3, <2>5 DEF FringeBounded
  <1> QED BY <1>2, <1>3, <1>4 DEF Next

(* The limit of the fringe is only looked at where an element is taken out *)
(* (SynSearch.h, dequeue): the heap outgrows it by one expansion at most,  *)
(* whatever the tree and the graph.                                        *)
THEOREM FringeStaysBounded == Spec => []FringeBounded
  <1>1. Init => FringeInv
    <2> SUFFICES ASSUME Init PROVE FringeInv
      OBVIOUS
    <2>1. fringe = {}
      BY DEF Init
    <2>2. IsFiniteSet(fringe) /\ Cardinality(fringe) = 0
      BY <2>1, FS_EmptySet
    <2>3. FringeBounded
      BY <2>2, LimitsAssumption DEF FringeBounded
    <2> QED BY <2>2, <2>3, TypeInit, NodesInit DEF FringeInv
  <1>2. FringeInv /\ [Next]_vars => FringeInv'
    BY FringeNext
  <1>3. FringeInv => FringeBounded
    BY DEF FringeInv
  <1> QED BY <1>1, <1>2, <1>3, PTL DEF Spec

-------------------------------------------------------------------------------
(* XOR                                                                     *)

(* XorOver of a function.                                                  *)
Xor(S, f) == {x \in UNION {f[i] : i \in S} : Cardinality({i \in S : x \in f[i]}) % 2 = 1}

LEMMA InXor ==
  ASSUME NEW S, IsFiniteSet(S), NEW f, NEW x
  PROVE  x \in Xor(S, f) <=> Cardinality({i \in S : x \in f[i]}) % 2 = 1
  <1> DEFINE I == {i \in S : x \in f[i]}
  <1>1. ASSUME Cardinality(I) % 2 = 1 PROVE x \in UNION {f[i] : i \in S}
    <2>1. I # {}
      <3> HIDE DEF I
      <3>1. 0 % 2 # 1
        OBVIOUS
      <3> QED BY <1>1, <3>1, FS_EmptySet
    <2> QED BY <2>1
  <1> QED BY <1>1 DEF Xor

LEMMA XorSplit ==
  ASSUME NEW S, IsFiniteSet(S), NEW T, IsFiniteSet(T), S \cap T = {}, NEW f
  PROVE  Xor(S \cup T, f) = SymDiff(Xor(S, f), Xor(T, f))
  <1>1. IsFiniteSet(S \cup T)
    BY FS_Union
  <1>2. ASSUME NEW x
        PROVE  x \in Xor(S \cup T, f) <=> ~(x \in Xor(S, f) <=> x \in Xor(T, f))
    <2> DEFINE A == {i \in S : x \in f[i]}
               B == {i \in T : x \in f[i]}
    <2>1. {i \in S \cup T : x \in f[i]} = A \cup B /\ A \cap B = {} /\ A \subseteq S /\ B \subseteq T
      OBVIOUS
    <2>2. /\ x \in Xor(S, f) <=> Cardinality(A) % 2 = 1
          /\ x \in Xor(T, f) <=> Cardinality(B) % 2 = 1
          /\ x \in Xor(S \cup T, f) <=> Cardinality(A \cup B) % 2 = 1
      BY <1>1, <2>1, InXor
    <2> HIDE DEF A, B
    <2>3. IsFiniteSet(A) /\ IsFiniteSet(B) /\ Cardinality(A) \in Nat /\ Cardinality(B) \in Nat
      BY <2>1, FS_Subset, FS_CardinalityType
    <2>4. Cardinality(A \cup B) = Cardinality(A) + Cardinality(B)
      <3>1. Cardinality(A \cap B) = 0
        BY <2>1, FS_EmptySet
      <3>2. Cardinality(A \cup B) = Cardinality(A) + Cardinality(B) - Cardinality(A \cap B)
        BY <2>3, FS_Union
      <3> QED BY <2>3, <3>1, <3>2
    <2>5. \A a, b \in Nat : (a + b) % 2 = 1 <=> ~(a % 2 = 1 <=> b % 2 = 1)
      OBVIOUS
    <2> QED BY <2>2, <2>3, <2>4, <2>5
  <1> QED BY <1>2 DEF SymDiff

LEMMA XorSingle == ASSUME NEW a, NEW f PROVE Xor({a}, f) = f[a]
  <1>1. ASSUME NEW x PROVE x \in Xor({a}, f) <=> x \in f[a]
    <2> DEFINE I == {i \in {a} : x \in f[i]}
    <2>1. x \in Xor({a}, f) <=> Cardinality(I) % 2 = 1
      <3>1. IsFiniteSet({a})
        BY FS_Singleton
      <3> QED BY <3>1, InXor
    <2>2. CASE x \in f[a]
      <3>1. I = {a}
        BY <2>2
      <3>2. Cardinality(I) = 1
        BY <3>1, FS_Singleton
      <3> HIDE DEF I
      <3> QED BY <2>1, <2>2, <3>2
    <2>3. CASE x \notin f[a]
      <3>1. I = {}
        BY <2>3
      <3>2. Cardinality(I) = 0
        BY <3>1, FS_EmptySet
      <3> HIDE DEF I
      <3> QED BY <2>1, <2>3, <3>2
    <2> QED BY <2>2, <2>3
  <1> QED BY <1>1

LEMMA XorAgree ==
  ASSUME NEW S, NEW f, NEW g, \A i \in S : f[i] = g[i] PROVE Xor(S, f) = Xor(S, g)
  <1>1. {f[i] : i \in S} = {g[i] : i \in S}
    OBVIOUS
  <1>2. \A x : {i \in S : x \in f[i]} = {i \in S : x \in g[i]}
    OBVIOUS
  <1> QED BY <1>1, <1>2 DEF Xor

LEMMA Cancels ==
  /\ \A a, b, o, p, r, q :
       SymDiff(SymDiff(SymDiff(a, SymDiff(o, r)), q), SymDiff(SymDiff(a, b), SymDiff(o, p)))
         = SymDiff(SymDiff(b, SymDiff(p, r)), q)
  /\ \A m, r, q : SymDiff(SymDiff(SymDiff(m, r), q), m) = SymDiff(r, q)
  /\ \A x, p, q : SymDiff(SymDiff(x, p), SymDiff(p, q)) = SymDiff(x, q)
  /\ \A x, a, b : SymDiff(x, SymDiff(SymDiff(a, a), SymDiff(b, b))) = x
  BY DEF SymDiff

-------------------------------------------------------------------------------
(* Hashes                                                                  *)

(* The edges of the fact whose words are given, each hashed.               *)
Edges(words) == [i \in Tokens(tree) |-> HashEdge(tree, i, words[i], GovernorWord(tree, words, i))]

HashIs(words, deleted, markings) ==
  SymDiff(Xor(Tokens(tree) \ deleted, Edges(words)), HashQuantifiers(markings))

NoQuantifierIn(S) == \A d \in S : ~IsQuantifier(tree, d)

LEMMA FactHash ==
  ASSUME NEW words, NEW deleted, NoQuantifierIn(deleted), NEW markings, Over(markings, Quantifiers(tree))
  PROVE  HashOfFact(tree, words, deleted, markings) = HashIs(words, deleted, markings)
  <1> DEFINE S == Tokens(tree) \ deleted
             item(i) == HashEdge(tree, i, words[i], GovernorWord(tree, words, i))
             Q == {p \in Quantifiers(tree) : tree.quantifiers[p].token \notin deleted}
             edges == {x \in UNION {item(i) : i \in S} : Cardinality({i \in S : x \in item(i)}) % 2 = 1}
  <1>1. HashOfFact(tree, words, deleted, markings)
          = SymDiff(edges, HashQuantifiers([q \in Q |-> markings[q]]))
    BY Zenon DEF HashOfFact, XorOver
  <1>2. edges = Xor(S, Edges(words))
    <2>1. \A i \in S : item(i) = Edges(words)[i]
      BY DEF Edges
    <2> HIDE DEF item, S
    <2>2. {item(i) : i \in S} = {Edges(words)[i] : i \in S}
      BY <2>1
    <2>3. \A x : {i \in S : x \in item(i)} = {i \in S : x \in Edges(words)[i]}
      BY <2>1
    <2> QED BY <2>2, <2>3 DEF Xor
  <1>3. Q = Quantifiers(tree)
    BY DEF NoQuantifierIn, IsQuantifier
  <1>4. [q \in Q |-> markings[q]] = markings
    BY <1>3 DEF Over
  <1> HIDE DEF edges, Q
  <1> QED BY <1>1, <1>2, <1>4 DEF HashIs

(* What holds of a node that plain steps lead to.                          *)
PlainlyReached(n) ==
  /\ Node(n) /\ WellFormed(n)
  /\ n.index \notin n.deleted /\ NoQuantifierIn(n.deleted)
  /\ n.factHash = HashIs(n.words, n.deleted, n.markings)

LEMMA PlainlyExact ==
  ASSUME NEW n, PlainlyReached(n) PROVE Exact(n)
  <1>1. NoQuantifierIn(n.deleted) /\ Over(n.markings, Quantifiers(tree))
    BY DEF PlainlyReached, WellFormed
  <1>2. HashOfFact(tree, n.words, n.deleted, n.markings) = HashIs(n.words, n.deleted, n.markings)
    BY <1>1, FactHash
  <1> QED BY <1>2 DEF PlainlyReached, Exact

LEMMA StartReached ==
  ASSUME TypeOK PROVE PlainlyReached(Start)
  <1>1. Node(Start) /\ WellFormed(Start)
    BY StartNode, StartWellFormed DEF TypeOK
  <1>2. /\ Start.deleted = {} /\ Start.words = tree.word /\ Start.markings = Markings(tree)
        /\ Start.factHash = Hash(tree)
    BY DEF Start, NodeAt
  <1> DEFINE S == Tokens(tree)
             item(i) == HashEdge(tree, i, tree.word[i], GovernorWord(tree, tree.word, i))
             edges == {x \in UNION {item(i) : i \in S} : Cardinality({i \in S : x \in item(i)}) % 2 = 1}
  <1>3. Hash(tree) = SymDiff(edges, HashQuantifiers(Markings(tree)))
    BY Zenon DEF Hash, HashEdgeOf, XorOver
  <1>4. edges = Xor(S, Edges(tree.word))
    <2>1. \A i \in S : item(i) = Edges(tree.word)[i]
      BY DEF Edges
    <2> HIDE DEF item, S
    <2>2. {item(i) : i \in S} = {Edges(tree.word)[i] : i \in S}
      BY <2>1
    <2>3. \A x : {i \in S : x \in item(i)} = {i \in S : x \in Edges(tree.word)[i]}
      BY <2>1
    <2> QED BY <2>2, <2>3 DEF Xor
  <1>5. S \ {} = S
    OBVIOUS
  <1> HIDE DEF edges, S
  <1>6. Start.factHash = HashIs(Start.words, Start.deleted, Start.markings)
    BY <1>2, <1>3, <1>4, <1>5 DEF HashIs, S
  <1> QED BY <1>1, <1>2, <1>6 DEF PlainlyReached, NoQuantifierIn

(* The update of the hash that a mutation into w makes.                    *)
LEMMA MutationHash ==
  ASSUME TypeOK, NEW n, PlainlyReached(n), NEW w,
         n.token.word = n.words[n.index], NEW words, words = [n.words EXCEPT ![n.index] = w],
         words # n.words =>
           /\ n.governor = GovernorWord(tree, n.words, n.index)
           /\ \A d \in Tokens(tree) : tree.governor[d] = n.index =>
                                     d \notin n.deleted /\ AsInTree(n, d)
  PROVE  UpdateHashFromMutation(tree, n.factHash, n.index, n.token.word, n.governor, w)
           = HashIs(words, n.deleted, n.markings)
  <1> DEFINE i == n.index
             in(v) == HashEdge(tree, i, v, n.governor)
             O == {d \in Tokens(tree) : tree.governor[d] = i}
             item(d, v) == HashEdge(tree, d, tree.word[d], v)
             out(v) == {x \in UNION {item(d, v) : d \in O} :
                          Cardinality({d \in O : x \in item(d, v)}) % 2 = 1}
             old == n.token.word
  <1>1. UpdateHashFromMutation(tree, n.factHash, i, old, n.governor, w)
          = SymDiff(n.factHash, SymDiff(SymDiff(in(old), in(w)), SymDiff(out(old), out(w))))
    BY Zenon DEF UpdateHashFromMutation, XorOver
  <1>2. i \in Tokens(tree) /\ i \notin n.deleted /\ Over(n.words, Tokens(tree))
    BY DEF PlainlyReached, WellFormed
  <1>3. /\ words[i] = w /\ \A j \in Tokens(tree) : j # i => words[j] = n.words[j]
        /\ w = old => words = n.words
    BY <1>2 DEF Over
  <1>4. CASE words = n.words
    <2>1. w = old
      BY <1>3, <1>4
    <2>2. n.factHash = HashIs(words, n.deleted, n.markings)
      BY <1>4 DEF PlainlyReached
    <2> HIDE DEF in, out, old, i
    <2> QED BY <1>1, <2>1, <2>2, Cancels DEF old, i
  <1>5. CASE words # n.words
    <2> DEFINE S == Tokens(tree) \ n.deleted
               Z == (S \ {i}) \ O
               E == Edges(n.words)
               F == Edges(words)
    <2>1. /\ n.governor = GovernorWord(tree, n.words, i)
          /\ \A d \in O : d \notin n.deleted /\ AsInTree(n, d)
      BY <1>5
    <2>2. i \notin O /\ TREE_ROOT # i
      BY <1>2, TreeFacts, MaskIs
    <2>3. S = {i} \cup (O \cup Z) /\ {i} \cap (O \cup Z) = {} /\ O \cap Z = {} /\ O \subseteq Tokens(tree)
      BY <1>2, <2>1, <2>2
    <2>4. IsFiniteSet(O) /\ IsFiniteSet(Z) /\ IsFiniteSet(O \cup Z) /\ IsFiniteSet({i})
      <3>1. O \subseteq Tokens(tree) /\ Z \subseteq Tokens(tree) /\ O \cup Z \subseteq Tokens(tree) /\ {i} \subseteq Tokens(tree)
        BY <1>2
      <3> HIDE DEF O, Z, i
      <3> QED BY <3>1, TreeFacts, FS_Subset
    <2>5. \A f : Xor(S, f) = SymDiff(f[i], SymDiff(Xor(O, f), Xor(Z, f)))
      <3> HIDE DEF O, Z, S, i
      <3>1. \A f : Xor(O \cup Z, f) = SymDiff(Xor(O, f), Xor(Z, f))
        BY <2>3, <2>4, XorSplit
      <3>2. \A f : Xor(S, f) = SymDiff(Xor({i}, f), Xor(O \cup Z, f))
        BY <2>3, <2>4, XorSplit
      <3> QED BY <3>1, <3>2, XorSingle
    <2>6. in(old) = E[i] /\ in(w) = F[i]
      <3>1. GovernorWord(tree, words, i) = GovernorWord(tree, n.words, i)
        BY <1>2, <1>3, <2>2, TreeFacts DEF GovernorWord
      <3> QED BY <1>2, <1>3, <2>1, <3>1 DEF Edges
    <2>7. ASSUME NEW d \in O PROVE item(d, old) = E[d] /\ item(d, w) = F[d]
      <3>1. d # i /\ d \in Tokens(tree) /\ tree.governor[d] = i
        BY <2>2
      <3>2. GovernorWord(tree, n.words, d) = old /\ GovernorWord(tree, words, d) = w
        BY <1>3, <2>2, <3>1 DEF GovernorWord
      <3>3. n.words[d] = tree.word[d] \/ tree.relation[d] = "op"
        BY <2>1 DEF AsInTree
      <3>4. words[d] = n.words[d]
        BY <1>3, <3>1
      <3> QED BY <3>1, <3>2, <3>3, <3>4 DEF Edges, HashEdge
    <2>8. ASSUME NEW v, NEW f, \A d \in O : item(d, v) = f[d] PROVE out(v) = Xor(O, f)
      <3> HIDE DEF item, O
      <3>1. {item(d, v) : d \in O} = {f[d] : d \in O}
        BY <2>8
      <3>2. \A x : {d \in O : x \in item(d, v)} = {d \in O : x \in f[d]}
        BY <2>8
      <3> QED BY <3>1, <3>2 DEF Xor
    <2>9. out(old) = Xor(O, E) /\ out(w) = Xor(O, F)
      <3> HIDE DEF item, O, out, E, F, old
      <3> QED BY <2>7, <2>8
    <2>10. Xor(Z, E) = Xor(Z, F)
      <3>1. ASSUME NEW j \in Z PROVE E[j] = F[j]
        <4>1. j \in Tokens(tree) /\ j # i /\ tree.governor[j] # i
          OBVIOUS
        <4>2. GovernorWord(tree, n.words, j) = GovernorWord(tree, words, j)
          BY <1>3, <4>1, TreeFacts DEF GovernorWord
        <4> QED BY <1>3, <4>1, <4>2 DEF Edges
      <3> HIDE DEF Z, E, F
      <3> QED BY <3>1, XorAgree
    <2>11. n.factHash = SymDiff(Xor(S, E), HashQuantifiers(n.markings))
      BY DEF PlainlyReached, HashIs
    <2>12. HashIs(words, n.deleted, n.markings) = SymDiff(Xor(S, F), HashQuantifiers(n.markings))
      BY DEF HashIs
    <2> HIDE DEF in, out, old, i, S, Z, E, F, O, item
    <2>13. SymDiff(n.factHash, SymDiff(SymDiff(in(old), in(w)), SymDiff(out(old), out(w))))
             = SymDiff(Xor(S, F), HashQuantifiers(n.markings))
      BY <2>5, <2>6, <2>9, <2>10, <2>11, Cancels
    <2> QED BY <1>1, <2>12, <2>13 DEF old, i
  <1> QED BY <1>4, <1>5

(* The update that the deletion of the dependent d and of all below it     *)
(* makes.                                                                  *)
LEMMA DeletionHash ==
  ASSUME TypeOK, NEW n, PlainlyReached(n), NEW d \in DependentsDeleted(n),
         NEW mask, mask = DeleteMask(tree, d),
         n.token.word = n.words[n.index],
         \A j \in mask \ n.deleted : n.words[j] = tree.word[j],
         \A j \in n.deleted : tree.governor[j] \notin mask \ n.deleted
  PROVE  UpdateHashFromDeletions(tree, n.factHash, d, tree.word[d], n.token.word, mask)
           = HashIs(n.words, n.deleted \cup mask, n.markings)
  <1> DEFINE item(j) == IF j = d THEN HashEdge(tree, d, tree.word[d], n.token.word)
                        ELSE HashEdgeOf(tree, j)
             out == {x \in UNION {item(j) : j \in mask} :
                       Cardinality({j \in mask : x \in item(j)}) % 2 = 1}
             E == Edges(n.words)
             S == Tokens(tree) \ n.deleted
             Z == Tokens(tree) \ (n.deleted \cup mask)
  <1>1. UpdateHashFromDeletions(tree, n.factHash, d, tree.word[d], n.token.word, mask)
          = SymDiff(n.factHash, out)
    BY Zenon DEF UpdateHashFromDeletions, XorOver
  <1>2. /\ d \in Tokens(tree) /\ d \in mask /\ d \notin n.deleted
        /\ tree.governor[d] = n.index /\ n.index \in Tokens(tree)
        /\ mask \subseteq Tokens(tree)
        /\ \A j \in mask : j # d => tree.governor[j] \in mask
    BY DeletionMask DEF PlainlyReached, WellFormed
  <1>3. mask \cap n.deleted = {}
    <2> DEFINE T == (Tokens(tree) \cup {d}) \ n.deleted
    <2>1. d \in T
      BY <1>2
    <2>2. \A j \in Tokens(tree) : tree.governor[j] \in T \cap mask => j \in T
      OBVIOUS
    <2>3. IsFiniteSet(Tokens(tree))
      BY TreeFacts
    <2>4. mask \subseteq T
      <3> HIDE DEF T
      <3> QED BY <2>1, <2>2, <2>3, MaskIs
    <2> QED BY <2>4
  <1>4. ASSUME NEW j \in mask PROVE item(j) = E[j]
    <2>1. j \in Tokens(tree) /\ n.words[j] = tree.word[j] /\ TREE_ROOT \notin Tokens(tree)
      BY <1>2, <1>3, TreeFacts
    <2>2. CASE j = d
      <3>1. GovernorWord(tree, n.words, j) = n.token.word
        BY <1>2, <2>1, <2>2 DEF GovernorWord
      <3> QED BY <2>1, <2>2, <3>1 DEF Edges
    <2>3. CASE j # d
      <3>1. tree.governor[j] \in mask /\ tree.governor[j] \in Tokens(tree)
        BY <1>2, <2>3
      <3>2. n.words[tree.governor[j]] = tree.word[tree.governor[j]]
        BY <1>3, <3>1
      <3>3. GovernorWord(tree, n.words, j) = GovernorWord(tree, tree.word, j)
        BY <2>1, <3>1, <3>2 DEF GovernorWord
      <3> QED BY <2>1, <2>3, <3>3 DEF Edges, HashEdgeOf
    <2> QED BY <2>2, <2>3
  <1>5. out = Xor(mask, E)
    <2> HIDE DEF item, E
    <2>1. {item(j) : j \in mask} = {E[j] : j \in mask}
      BY <1>4
    <2>2. \A x : {j \in mask : x \in item(j)} = {j \in mask : x \in E[j]}
      BY <1>4
    <2> QED BY <2>1, <2>2 DEF Xor
  <1>6. S = mask \cup Z /\ mask \cap Z = {} /\ Z \subseteq Tokens(tree)
    BY <1>2, <1>3
  <1>7. IsFiniteSet(mask) /\ IsFiniteSet(Z)
    <2> HIDE DEF Z
    <2> QED BY <1>2, <1>6, TreeFacts, FS_Subset
  <1>8. n.factHash = SymDiff(Xor(S, E), HashQuantifiers(n.markings))
    BY DEF PlainlyReached, HashIs
  <1>9. HashIs(n.words, n.deleted \cup mask, n.markings) = SymDiff(Xor(Z, E), HashQuantifiers(n.markings))
    BY DEF HashIs
  <1> HIDE DEF item, out, E, S, Z
  <1>10. Xor(S, E) = SymDiff(Xor(mask, E), Xor(Z, E))
    BY <1>6, <1>7, XorSplit
  <1> QED BY <1>1, <1>5, <1>8, <1>9, <1>10, Cancels

LEMMA PlainStepReaches ==
  ASSUME TypeOK, NEW n, PlainlyReached(n), NEW h, NEW c \in Children(n, h), Node(c), PlainStep(c, n)
  PROVE  PlainlyReached(c)
  <1>1. /\ Node(n) /\ WellFormed(n) /\ n.index \notin n.deleted /\ NoQuantifierIn(n.deleted)
        /\ n.factHash = HashIs(n.words, n.deleted, n.markings)
    BY DEF PlainlyReached
  <1>2. WellFormed(c)
    BY <1>1, ChildWellFormed
  <1>3. /\ n.token.word = n.words[n.index]
        /\ c.words # n.words =>
             /\ n.governor = GovernorWord(tree, n.words, n.index)
             /\ \A d \in Tokens(tree) : tree.governor[d] = n.index =>
                                       d \notin n.deleted /\ AsInTree(n, d)
        /\ \A d \in c.deleted \ n.deleted : ~IsQuantifier(tree, d) /\ n.words[d] = tree.word[d]
        /\ \A d \in n.deleted : tree.governor[d] \notin c.deleted \ n.deleted
    BY Zenon DEF PlainStep
  <1>4. CASE \E k \in EdgesTaken(n) : c = Mutation(n, h, EdgesInto(n)[k])
    <2>1. PICK e : c = Mutation(n, h, e)
      BY <1>4
    <2>2. PICK w, hash : w = e.source /\ hash = UpdateHashFromMutation(tree, n.factHash, n.index, n.token.word,
                                                                       n.governor, w)
      OBVIOUS
    <2>3. /\ c.index = n.index /\ c.deleted = n.deleted
          /\ c.words = [n.words EXCEPT ![n.index] = w]
          /\ c.markings = MarkingsAfter(n, w)
          /\ c.factHash = IF IsQuantifier(tree, n.index)
                          THEN SymDiff(hash, SymDiff(HashQuantifiers(n.markings),
                                                     HashQuantifiers(MarkingsAfter(n, w))))
                          ELSE hash
      BY <1>1, <2>1, <2>2, MutationFields
    <2>4. hash = HashIs(c.words, n.deleted, n.markings)
      BY <1>3, <2>2, <2>3, MutationHash
    <2>5. c.factHash = HashIs(c.words, c.deleted, c.markings)
      <3>1. CASE IsQuantifier(tree, n.index)
        <4>1. SymDiff(hash, SymDiff(HashQuantifiers(n.markings), HashQuantifiers(c.markings)))
                = HashIs(c.words, c.deleted, c.markings)
          BY <2>3, <2>4, Cancels DEF HashIs
        <4> QED BY <2>3, <3>1, <4>1
      <3>2. CASE ~IsQuantifier(tree, n.index)
        <4>1. c.markings = n.markings
          BY <2>3, <3>2 DEF MarkingsAfter
        <4> QED BY <2>3, <2>4, <3>2, <4>1
      <3> QED BY <3>1, <3>2
    <2> QED BY <1>1, <1>2, <2>3, <2>5 DEF PlainlyReached
  <1>5. CASE \E d \in DependentsDeleted(n) : c = Deletion(n, h, d)
    <2>1. PICK d \in DependentsDeleted(n) : c = Deletion(n, h, d)
      BY <1>5
    <2>2. PICK mask : mask = DeleteMask(tree, d)
      OBVIOUS
    <2>3. /\ c.index = n.index /\ c.words = n.words /\ c.deleted = n.deleted \cup mask
          /\ c.markings = MarkingsWithout(n, d)
          /\ c.factHash = UpdateHashFromDeletions(tree, n.factHash, d, tree.word[d], n.token.word, mask)
      BY <1>1, <2>1, <2>2, DeletionFields
    <2>4. d \in mask /\ d \notin n.deleted /\ n.index \notin mask
      BY <1>1, <2>2, DeletionMask
    <2>5. c.deleted \ n.deleted = mask \ n.deleted
      BY <2>3
    <2>6. c.factHash = HashIs(n.words, n.deleted \cup mask, n.markings)
      <3>1. /\ \A j \in mask \ n.deleted : n.words[j] = tree.word[j]
            /\ \A j \in n.deleted : tree.governor[j] \notin mask \ n.deleted
        BY <1>3, <2>5
      <3> QED BY <1>3, <2>2, <2>3, <3>1, DeletionHash
    <2>7. NoQuantifierIn(c.deleted)
      BY <1>1, <1>3, <2>3 DEF NoQuantifierIn
    <2>8. c.markings = n.markings
      BY <2>3, <2>4, <2>7 DEF NoQuantifierIn, MarkingsWithout
    <2>9. c.factHash = HashIs(c.words, c.deleted, c.markings) /\ c.index \notin c.deleted
      BY <1>1, <2>3, <2>4, <2>6, <2>8
    <2> QED BY <1>2, <2>7, <2>9 DEF PlainlyReached
  <1>6. CASE c \in IndexMoves(n, h)
    <2>1. /\ c.words = n.words /\ c.deleted = n.deleted
          /\ c.markings = n.markings /\ c.factHash = n.factHash
          /\ c.index \notin n.deleted \/ IsQuantifier(tree, c.index) \/ c.index = Root(tree)
      BY <1>1, <1>6, MoveFields
    <2>2. c.index \notin n.deleted
      BY <1>1, <2>1 DEF NoQuantifierIn, WellFormed
    <2> QED BY <1>1, <1>2, <2>1, <2>2 DEF PlainlyReached
  <1> QED BY <1>4, <1>5, <1>6 DEF Children

-------------------------------------------------------------------------------
(* The chain of a node leads to the start, plain step by plain step.       *)
LEMMA ChainReached ==
  ASSUME TypeOK, LinksRight, NodesRight, NEW h \in Visited, NEW n, n = history[h],
         NEW u, Leads(u, n, historySize),
         u \in Seq({n} \cup {history[j] : j \in DOMAIN history}),
         \A k \in 1 .. Len(u) - 1 : PlainStep(u[k], u[k + 1])
  PROVE  PlainlyReached(n)
  <1>1. PICK l, m : l = Len(u) /\ m = historySize
    OBVIOUS
  <1>2. /\ m \in Nat \ {0} /\ DOMAIN history = 0 .. m - 1 /\ h \in DOMAIN history
        /\ \A j \in DOMAIN history :
             /\ Node(history[j]) /\ history[j].backpointer \in DOMAIN history
             /\ history[j].backpointer < (IF j = 0 THEN 1 ELSE j)
    <2>1. historySize \in Nat /\ DOMAIN history = 0 .. historySize - 1 /\ h \in 1 .. historySize - 1
      BY DEF TypeOK, Visited
    <2>2. \A j \in DOMAIN history : Node(history[j]) /\ history[j].backpointer < (IF j = 0 THEN 1 ELSE j)
      BY DEF TypeOK
    <2>3. \A j \in DOMAIN history : history[j].backpointer \in Nat
      BY <2>2 DEF Node
    <2> QED BY <1>1, <2>1, <2>2, <2>3
  <1>3. /\ l \in 1 .. m + 1 /\ u[1] = n /\ (l = m + 1 \/ u[l].backpointer = 0)
        /\ \A i \in 1 .. l - 1 : u[i].backpointer # 0 /\ u[i + 1] = Parent(u[i])
    BY <1>1 DEF Leads
  <1>4. ASSUME NEW i \in 1 .. l
        PROVE  \E j \in DOMAIN history : u[i] = history[j]
    <2>1. u[i] \in {n} \cup {history[j] : j \in DOMAIN history}
      BY <1>1
    <2> QED BY <1>2, <2>1
  <1>5. ASSUME NEW i \in 1 .. l
        PROVE  /\ Node(u[i]) /\ Linked(u[i]) /\ Descends(u[i])
               /\ u[i].backpointer \in DOMAIN history
    <2>1. PICK j \in DOMAIN history : u[i] = history[j]
      BY <1>4
    <2> QED BY <1>2, <2>1 DEF LinksRight, NodesRight
  <1> DEFINE T == {i \in 0 .. l - 1 : u[i + 1].backpointer <= m - (i + 1)}
  <1>6. 0 .. l - 1 \subseteq T
    <2>1. 0 \in T
      <3>1. 0 \in 0 .. l - 1 /\ u[0 + 1].backpointer \in 0 .. m - 1
        BY <1>2, <1>3
      <3> QED BY <1>2, <3>1
    <2>2. ASSUME NEW i \in 1 .. l - 1, i - 1 \in T PROVE i \in T
      <3>1. u[i].backpointer <= m - i /\ u[i].backpointer # 0 /\ u[i + 1] = Parent(u[i])
        <4>1. (i - 1) + 1 = i
          BY <1>3
        <4> QED BY <1>3, <2>2, <4>1
      <3>2. PICK j : j = u[i].backpointer
        OBVIOUS
      <3>3. i \in 1 .. l /\ j \in DOMAIN history
        BY <1>3, <1>5, <3>2
      <3>4. u[i + 1].backpointer < j /\ u[i + 1].backpointer \in Nat /\ j \in Nat /\ j <= m - i
        BY <1>2, <3>1, <3>2, <3>3 DEF Parent
      <3>5. u[i + 1].backpointer <= m - (i + 1) /\ i \in 0 .. l - 1
        BY <1>2, <1>3, <3>4
      <3> QED BY <3>5
    <2>3. l - 1 \in Nat
      BY <1>3
    <2> HIDE DEF T
    <2> QED BY <2>1, <2>2, <2>3, IntervalInduction
  <1>7. u[l].backpointer = 0
    <2>1. CASE l = m + 1
      <3>1. m \in 1 .. l - 1 /\ m - 1 \in 0 .. l - 1 /\ (m - 1) + 1 = m
        BY <1>2, <2>1
      <3>2. u[m].backpointer <= m - m
        BY <1>6, <3>1
      <3>3. u[m].backpointer # 0 /\ u[m].backpointer \in Nat
        BY <1>2, <1>3, <1>5, <3>1
      <3> QED BY <1>2, <3>2, <3>3
    <2> QED BY <1>3, <2>1
  <1> DEFINE G == {i \in 0 .. l - 1 : PlainlyReached(u[l - i])}
  <1>8. 0 .. l - 1 \subseteq G
    <2>1. 0 \in G
      <3>1. l \in 1 .. l /\ l - 0 = l /\ 0 \in 0 .. l - 1
        BY <1>3
      <3>2. u[l] = Start
        BY <1>5, <1>7, <3>1 DEF Linked
      <3> QED BY <3>1, <3>2, StartReached
    <2>2. ASSUME NEW i \in 1 .. l - 1, i - 1 \in G PROVE i \in G
      <3>1. PICK k : k = l - i
        OBVIOUS
      <3>2. k \in 1 .. l - 1 /\ l - (i - 1) = k + 1 /\ k \in 1 .. l /\ i \in 0 .. l - 1
        BY <1>3, <3>1
      <3>3. PlainlyReached(u[k + 1])
        BY <2>2, <3>2
      <3>4. PICK c, p : c = u[k] /\ p = u[k + 1]
        OBVIOUS
      <3>5. Node(c) /\ c \in Children(p, c.backpointer) /\ PlainStep(c, p)
        <4>1. Descends(c) /\ Node(c) /\ c.backpointer # 0 /\ p = Parent(c)
          BY <1>3, <1>5, <3>2, <3>4
        <4>2. PlainStep(c, p)
          BY <1>1, <3>2, <3>4
        <4> QED BY <4>1, <4>2 DEF Descends
      <3>6. PlainlyReached(c)
        BY <3>3, <3>4, <3>5, PlainStepReaches
      <3> QED BY <3>1, <3>2, <3>4, <3>6
    <2>3. l - 1 \in Nat
      BY <1>3
    <2> HIDE DEF G
    <2> QED BY <2>1, <2>2, <2>3, IntervalInduction
  <1>9. l - 1 \in 0 .. l - 1 /\ l - (l - 1) = 1
    BY <1>3
  <1>10. PlainlyReached(u[l - (l - 1)])
    BY <1>8, <1>9
  <1> QED BY <1>3, <1>9, <1>10

LEMMA HashesExact ==
  ASSUME TypeOK, LinksRight, NodesRight PROVE HashExactIfPlain
  <1> SUFFICES ASSUME NEW h \in Visited,
                      LET chain == Ancestors(history[h], historySize)
                          path  == <<history[h]>> \o chain
                      IN  \A k \in 1 .. Len(chain) : PlainStep(path[k], path[k + 1])
               PROVE  Exact(history[h])
    BY DEF HashExactIfPlain
  <1>1. PICK n : n = history[h]
    OBVIOUS
  <1>2. n.backpointer \in DOMAIN history /\ historySize \in Nat
    BY <1>1 DEF TypeOK, Node, Visited
  <1>3. PICK u : /\ Ancestors(n, historySize) = Tail(u) /\ Leads(u, n, historySize)
                 /\ u \in Seq({n} \cup {history[j] : j \in DOMAIN history})
    <2>1. PICK d \in Nat : d = historySize
      BY <1>2
    <2> QED BY <1>2, <2>1, UpsLead
  <1>4. Len(u) \in Nat \ {0} /\ u[1] = n
    BY <1>2, <1>3 DEF Leads
  <1>5. <<n>> \o Tail(u) = u /\ Len(Tail(u)) = Len(u) - 1
    BY <1>3, <1>4
  <1>6. \A k \in 1 .. Len(u) - 1 : PlainStep(u[k], u[k + 1])
    BY <1>1, <1>3, <1>5
  <1>7. PlainlyReached(n)
    BY <1>1, <1>3, <1>6, ChainReached
  <1> QED BY <1>1, <1>7, PlainlyExact

(* The hash of a fact is updated with each step instead of being computed  *)
(* from its words (SynSearch.cc, updateHashFromMutation and                *)
(* updateHashFromDeletions): whatever the tree, the graph and the order of *)
(* the search, it is the hash Tree::hash gives the fact for as long as the *)
(* steps that lead there are plain.                                        *)
THEOREM HashIsExactIfPlain == Spec => []HashExactIfPlain
  <1> DEFINE Inv == TypeOK /\ LinksRight /\ NodesRight
  <1>1. Init => Inv
    BY TypeInit, LinksInit, NodesInit
  <1>2. Inv /\ [Next]_vars => Inv'
    BY TypeNext, LinksNext, NodesNext
  <1>3. Inv => HashExactIfPlain
    BY HashesExact
  <1> QED BY <1>1, <1>2, <1>3, PTL DEF Spec

=================================================================================
