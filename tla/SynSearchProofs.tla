---------------------------- MODULE SynSearchProofs ----------------------------
(***************************************************************************)
(* Theorems about SynSearch, for all trees, graphs, knowledge bases and    *)
(* limits: every node is linked to an older one, under strict costs the    *)
(* truth value of every node settles the query, and the paths returned     *)
(* lead from a known fact to the query and prove it.                       *)
(***************************************************************************)
EXTENDS SynSearch, Foundations, FiniteSetTheorems, TLAPS

-------------------------------------------------------------------------------
(* The children of a node                                                  *)

(* What a child owes to its parent: its truth value is the one the         *)
(* transition leads back to, and strict costs allow only the transitions   *)
(* that are valid from there.                                              *)
Legal(c, n) ==
  \/ c.transition = "NONE" /\ c.truth = n.truth
  \/ /\ c.truth = ReverseTransition(n.truth, c.transition)
     /\ query.bad = Infinity => c.transition \in ValidFrom(c.truth)

LEMMA StartNode ==
  ASSUME query \in Queries
  PROVE  Node(Start) /\ Start.backpointer = 0 /\ Start.truth = query.truth
         /\ Start.transition = "NONE"
  BY QueriesAssumption DEF Start, NodeAt, Node, Blank

LEMMA ReverseTransitionType ==
  ASSUME NEW b \in BOOLEAN, NEW rel PROVE ReverseTransition(b, rel) \in BOOLEAN
  BY DEF ReverseTransition

LEMMA StepCostFinite ==
  ASSUME NEW lexical, NEW n, NEW rel, StepCost(lexical, n, rel) # Infinity
  PROVE  query.bad = Infinity => rel \in ValidFrom(ReverseTransition(n.truth, rel))
  BY DEF StepCost, AddCost, TransitionCost

LEMMA MutationChild ==
  ASSUME NEW n, Node(n), NEW h \in Nat, NEW e, MutationCost(n, e) # Infinity
  PROVE  LET c == Mutation(n, h, e)
         IN  Node(c) /\ c.backpointer = h /\ Legal(c, n)
  <1> DEFINE child == [n EXCEPT
        !.factHash = UpdateHashFromMutation(tree, @, n.index, n.token.word,
                                            n.governor, e.source),
        !.truth = ReverseTransition(@, MutationRelation(n, e)),
        !.token = [word |-> e.source, sense |-> e.sourceSense],
        !.backpointer = h,
        !.transition = MutationRelation(n, e),
        !.words = [@ EXCEPT ![n.index] = e.source]]
  <1>1. /\ DOMAIN child = DOMAIN n /\ child.backpointer = h
        /\ child.transition = MutationRelation(n, e)
        /\ child.truth = ReverseTransition(n.truth, MutationRelation(n, e))
    BY DEF Node, Blank
  <1>2. DOMAIN Mutation(n, h, e) = DOMAIN n /\ Mutation(n, h, e).backpointer = h
        /\ Mutation(n, h, e).transition = MutationRelation(n, e)
        /\ Mutation(n, h, e).truth = ReverseTransition(n.truth, MutationRelation(n, e))
    BY <1>1 DEF Mutation, MutateQuantifier, Node, Blank
  <1>3. query.bad = Infinity =>
          MutationRelation(n, e) \in ValidFrom(ReverseTransition(n.truth, MutationRelation(n, e)))
    BY StepCostFinite DEF MutationCost
  <1> QED BY <1>2, <1>3, ReverseTransitionType DEF Node, Legal

LEMMA DeletionChild ==
  ASSUME NEW n, Node(n), NEW h \in Nat, NEW d, DeletionCost(n, d) # Infinity
  PROVE  LET c == Deletion(n, h, d)
         IN  Node(c) /\ c.backpointer = h /\ Legal(c, n)
  <1>1. /\ DOMAIN Deletion(n, h, d) = DOMAIN n /\ Deletion(n, h, d).backpointer = h
        /\ Deletion(n, h, d).transition = DeletionRelation(n, d)
        /\ Deletion(n, h, d).truth = ReverseTransition(n.truth, DeletionRelation(n, d))
    BY DEF Deletion, Node, Blank
  <1>2. query.bad = Infinity =>
          DeletionRelation(n, d) \in ValidFrom(ReverseTransition(n.truth, DeletionRelation(n, d)))
    BY StepCostFinite DEF DeletionCost
  <1> QED BY <1>1, <1>2, ReverseTransitionType DEF Node, Legal

LEMMA MovedChild ==
  ASSUME NEW n, Node(n), NEW h \in Nat, NEW c \in IndexMoves(n, h)
  PROVE  Node(c) /\ c.backpointer = h /\ Legal(c, n)
  <1>1. ASSUME NEW i
        PROVE  /\ DOMAIN Moved(n, h, i) = DOMAIN n /\ Moved(n, h, i).backpointer = h
               /\ Moved(n, h, i).transition = "NONE" /\ Moved(n, h, i).truth = n.truth
    BY DEF Moved, Node, Blank
  <1>2. PICK i : c = Moved(n, h, i) \/ c = [Moved(n, h, i) EXCEPT !.allQuantifiersSeen = TRUE]
    BY DEF IndexMoves
  <1>3. /\ DOMAIN c = DOMAIN n /\ c.backpointer = h
        /\ c.transition = "NONE" /\ c.truth = n.truth
    BY <1>1, <1>2 DEF Node, Blank
  <1> QED BY <1>3 DEF Node, Legal

(* Everything that the expansion of a popped node pushes is its child.     *)
LEMMA PushedChild ==
  ASSUME NEW s, Node(s.node), NEW h \in Nat, NEW c \in Pushed(s, h)
  PROVE  Node(c.node) /\ c.node.backpointer = h /\ Legal(c.node, s.node)
  <1> DEFINE n == s.node
             e(k) == EdgesInto(n)[k]
  <1>1. \/ \E k \in Mutations(n, h) : c = PushedMutation(n, h, k)
        \/ \E d \in DependentsDeleted(n) : c = PushedDeletion(n, h, d)
        \/ \E m \in IndexMoves(n, h) : c = Scored(m, s.cost, <<"move", m.index>>)
    BY Zenon DEF Pushed
  <1>2. CASE \E k \in Mutations(n, h) : c = PushedMutation(n, h, k)
    <2>1. PICK k \in Mutations(n, h) : c.node = Mutation(n, h, e(k))
      BY <1>2 DEF PushedMutation, Scored
    <2>2. MutationCost(n, e(k)) # Infinity
      BY DEF Mutations, EdgesTaken, MayMutate
    <2> QED BY <2>1, <2>2, MutationChild
  <1>3. CASE \E d \in DependentsDeleted(n) : c = PushedDeletion(n, h, d)
    <2>1. PICK d \in DependentsDeleted(n) : c.node = Deletion(n, h, d)
      BY <1>3 DEF PushedDeletion, Scored
    <2>2. DeletionCost(n, d) # Infinity
      BY DEF DependentsDeleted
    <2> QED BY <2>1, <2>2, DeletionChild
  <1>4. CASE \E m \in IndexMoves(n, h) : c = Scored(m, s.cost, <<"move", m.index>>)
    BY <1>4, MovedChild DEF Scored
  <1> QED BY <1>1, <1>2, <1>3, <1>4

-------------------------------------------------------------------------------
(* Every node popped or waiting is linked to an older one.                 *)

(* An iteration enters the popped node in the history; what is then on the *)
(* fringe was there before, or is a child of that node.                    *)
LEMMA TickStep ==
  ASSUME TypeOK, NEW s \in fringe, Tick(s)
  PROVE  /\ historySize \in Nat \ {0} /\ historySize = ticks + 1
         /\ DOMAIN history = 0 .. historySize - 1
         /\ DOMAIN history' = 0 .. historySize /\ historySize' = historySize + 1
         /\ history'[historySize] = s.node
         /\ \A i \in DOMAIN history : history'[i] = history[i]
         /\ \A c \in fringe' :
              \/ c \in fringe
              \/ /\ Node(c.node) /\ c.node.backpointer = historySize
                 /\ Legal(c.node, s.node)
  <1>1. Node(s.node) /\ s.node.backpointer \in DOMAIN history
    BY DEF TypeOK
  <1>2. ticks \in Nat /\ historySize = ticks + 1 /\ DOMAIN history = 0 .. historySize - 1
    BY <1>1 DEF TypeOK
  <1>3. /\ DOMAIN history' = 0 .. historySize /\ historySize' = historySize + 1
        /\ history'[historySize] = s.node
        /\ \A i \in DOMAIN history : history'[i] = history[i]
    BY <1>2 DEF Tick
  <1>4. ASSUME NEW c \in fringe'
        PROVE  c \in fringe \/ c \in Pushed(s, historySize)
    BY DEF Tick
  <1> QED BY <1>1, <1>2, <1>3, <1>4, PushedChild

(* The steps that leave the history alone only take nodes off the fringe.  *)
LEMMA OtherStep ==
  ASSUME NEW s, SkipVisited(s) \/ CheckFringe(s) \/ EndSearch \/ Return \/ Refuse
  PROVE  /\ UNCHANGED <<query, history, historySize, ticks>>
         /\ fringe' \subseteq fringe
  BY DEF SkipVisited, CheckFringe, EndSearch, Return, Refuse

LEMMA TypeInit == Init => TypeOK
  <1> SUFFICES ASSUME Init PROVE TypeOK
    OBVIOUS
  <1>1. fringe = {} 
    BY DEF Init
  <1>2. query.maxTicks \in Nat
    BY QueriesAssumption DEF Init
  <1>3. history = <<>> /\ DOMAIN history = {}
    BY DEF Init
  <1> QED BY <1>1, <1>2, <1>3 DEF Init, TypeOK

LEMMA TypeNext == TypeOK /\ [Next]_vars => TypeOK'
  <1> SUFFICES ASSUME TypeOK, [Next]_vars PROVE TypeOK'
    OBVIOUS
  <1>0. query.maxTicks \in Nat /\ ticks \in Nat
    BY QueriesAssumption DEF TypeOK
  <1>1. CASE Begin
    <2>1. fringe' = {Scored(Start, 0, <<"start", 0>>)} /\ history' = [i \in {0} |-> Start]
          /\ historySize' = 1 /\ query' = query /\ ticks' = ticks
      BY <1>1 DEF Begin
    <2>2. Node(Start) /\ Start.backpointer = 0 /\ ticks = 0 /\ query' = query
      BY <1>1, StartNode DEF TypeOK, Begin
    <2>3. \A i \in DOMAIN history' : Node(history'[i]) /\ history'[i].backpointer = 0
      BY <2>1, <2>2
    <2>4. \A s \in fringe' : Node(s.node) /\ s.node.backpointer \in DOMAIN history'
      BY <2>1, <2>2 DEF Scored
    <2>5. history' # <<>> /\ DOMAIN history' = 0 .. 0
      BY <2>1
    <2>6. pc' = "search" /\ totalTicks' = 0 /\ ticks' = 0 /\ query' \in Queries
      BY <1>1, <2>1, <2>2 DEF Begin, TypeOK
    <2>7. historySize' = 1 /\ DOMAIN history' = 0 .. historySize' - 1
      BY <2>1, <2>5
    <2>8. \A i \in DOMAIN history' : history'[i].backpointer < (IF i = 0 THEN 1 ELSE i)
      BY <2>3, <2>5
    <2> QED BY <1>0, <2>2, <2>3, <2>4, <2>5, <2>6, <2>7, <2>8 DEF TypeOK
  <1>2. ASSUME NEW s \in fringe, Tick(s) PROVE TypeOK'
    <2>1. /\ query' = query /\ pc = "search" /\ pc' = pc
          /\ ticks' = ticks + 1 /\ ticks < query.maxTicks /\ totalTicks' = totalTicks
      BY <1>2 DEF Tick, Searching
    <2>2. \A i \in DOMAIN history' :
            /\ Node(history'[i])
            /\ history'[i].backpointer < (IF i = 0 THEN 1 ELSE i)
      <3>1. Node(s.node) /\ s.node.backpointer < historySize
        BY <1>2, TickStep DEF TypeOK, Node
      <3>2. ASSUME NEW i \in DOMAIN history'
            PROVE  i \in DOMAIN history \/ i = historySize
        BY <1>2, TickStep
      <3> QED BY <1>2, <3>1, <3>2, TickStep DEF TypeOK
    <2>3. \A c \in fringe' : Node(c.node) /\ c.node.backpointer \in DOMAIN history'
      BY <1>2, TickStep DEF TypeOK
    <2>4. history' # <<>> /\ DOMAIN history' = 0 .. historySize' - 1 /\ historySize' = ticks' + 1
      BY <1>0, <1>2, <2>1, TickStep
    <2> QED BY <1>0, <2>1, <2>2, <2>3, <2>4 DEF TypeOK
  <1>3. ASSUME NEW s, SkipVisited(s) \/ CheckFringe(s) \/ EndSearch \/ Return \/ Refuse PROVE TypeOK'
    <2>1. UNCHANGED <<query, history, historySize, ticks>>
          /\ fringe' \subseteq fringe
      BY <1>3, OtherStep
    <2>2. /\ pc' \in {"search", "fringe", "done"}
          /\ totalTicks' = (IF pc' \in {"fringe", "done"} THEN ticks ELSE 0)
      BY <1>0, <1>3 DEF SkipVisited, CheckFringe, EndSearch, Return, Refuse, TypeOK
    <2> QED BY <2>1, <2>2 DEF TypeOK
  <1>4. CASE UNCHANGED vars
    BY <1>4 DEF vars, TypeOK
  <1> QED BY <1>1, <1>2, <1>3, <1>4 DEF Next

(* The types, the asserts on historySize (one entry per tick and the       *)
(* start, within the memory allocated) and on backpointers hold of every   *)
(* state of a search.                                                      *)
THEOREM TypeCorrect == Spec => []TypeOK
  BY TypeInit, TypeNext, PTL DEF Spec

-------------------------------------------------------------------------------
(* Truth: a node's value is forced back, step by step, on its parent, and  *)
(* in the end on the query.                                                *)

(* A legal step: in a world where the child's fact has the truth value of  *)
(* the child, the parent's fact has that of the parent.                    *)
LEMMA LegalStepSound ==
  ASSUME NEW c, NEW n, c.truth \in BOOLEAN, n.truth \in BOOLEAN, Legal(c, n),
         query.bad = Infinity, NEW b \in BOOLEAN, Respects(c.transition, c.truth, b)
  PROVE  b = n.truth
  <1>1. CASE c.transition = "NONE" /\ c.truth = n.truth
    BY <1>1 DEF Respects
  <1>2. CASE /\ c.truth = ReverseTransition(n.truth, c.transition)
             /\ c.transition \in ValidFrom(c.truth)
    <2>1. CASE c.truth = TRUE
      BY <1>2, <2>1 DEF ValidFrom, ReverseTransition, Respects
    <2>2. CASE c.truth = FALSE
      BY <1>2, <2>2 DEF ValidFrom, ReverseTransition, Respects
    <2> QED BY <2>1, <2>2
  <1> QED BY <1>1, <1>2 DEF Legal

TruthInv == TypeOK /\ TruthSound

LEMMA TruthInit == Init => TruthSound
  <1> SUFFICES ASSUME Init PROVE TruthSound
    OBVIOUS
  <1>1. fringe = {} /\ Visited = {}
    BY DEF Init, Visited
  <1> QED BY <1>1 DEF TruthSound

LEMMA TruthBegin == TypeOK /\ Begin => TruthSound'
  <1> SUFFICES ASSUME TypeOK, Begin PROVE TruthSound'
    OBVIOUS
  <1>1. /\ fringe' = {Scored(Start, 0, <<"start", 0>>)} /\ DOMAIN history' = {0}
        /\ Visited' = {} /\ query' = query
    BY DEF Begin, Visited
  <1>2. Start.transition = "NONE" /\ Start.backpointer = 0 /\ Start.truth = query.truth
    BY StartNode DEF TypeOK
  <1>3. ASSUME NEW v \in [DOMAIN history' -> BOOLEAN], NEW s \in fringe',
               Respects(s.node.transition, s.node.truth, v[s.node.backpointer])
        PROVE  v[0] = query.truth
    <2>1. s.node = Start
      BY <1>1 DEF Scored
    <2>2. Respects("NONE", query.truth, v[0])
      BY <1>2, <1>3, <2>1
    <2>3. query.truth = v[0]
      BY <2>2 DEF Respects
    <2> QED BY <2>3
  <1> QED BY <1>1, <1>3 DEF TruthSound

LEMMA TruthTick ==
  ASSUME TypeOK, TruthSound, NEW s \in fringe, Tick(s) PROVE TruthSound'
  <1> DEFINE k == historySize
  <1>0. query' = query
    BY DEF Tick
  <1> SUFFICES ASSUME query.bad = Infinity, NEW v \in [DOMAIN history' -> BOOLEAN], World(v)'
               PROVE  /\ \A h \in Visited' : v[h] = history'[h].truth => v[0] = query.truth
                      /\ \A c \in fringe' :
                           Respects(c.node.transition, c.node.truth, v[c.node.backpointer])
                             => v[0] = query.truth
    BY <1>0 DEF TruthSound
  <1>1. /\ k \in Nat \ {0} /\ DOMAIN history = 0 .. k - 1 /\ DOMAIN history' = 0 .. k
        /\ Visited = 1 .. k - 1 /\ Visited' = 1 .. k /\ history'[k] = s.node
        /\ \A i \in 0 .. k - 1 : history'[i] = history[i]
    BY TickStep DEF Visited
  <1> DEFINE w == [i \in DOMAIN history |-> v[i]]
  <1>2. w \in [DOMAIN history -> BOOLEAN] /\ \A i \in 0 .. k - 1 : w[i] = v[i]
    BY <1>1
  <1>3. \A h \in Visited : history[h].backpointer \in 0 .. k - 1
    BY <1>1 DEF TypeOK, Node
  <1>4. s.node.backpointer \in 0 .. k - 1 /\ Node(s.node)
    BY <1>1 DEF TypeOK
  <1>5. World(w)
    <2> SUFFICES ASSUME NEW h \in Visited
                 PROVE  Respects(history[h].transition, w[h], w[history[h].backpointer])
      BY DEF World
    <2>1. Respects(history'[h].transition, v[h], v[history'[h].backpointer])
      BY <1>1 DEF World
    <2>2. history'[h] = history[h] /\ w[h] = v[h]
          /\ w[history[h].backpointer] = v[history[h].backpointer]
      BY <1>1, <1>2, <1>3
    <2> QED BY <2>1, <2>2
  <1>6. /\ \A h \in Visited : w[h] = history[h].truth => w[0] = query.truth
        /\ \A u \in fringe :
             Respects(u.node.transition, u.node.truth, w[u.node.backpointer]) => w[0] = query.truth
    BY <1>2, <1>5 DEF TruthSound
  <1>a. w[0] = v[0]
    BY <1>1, <1>2
  <1> HIDE DEF w
  <1>7. ASSUME v[k] = s.node.truth PROVE v[0] = query.truth
    <2>1. Respects(s.node.transition, v[k], v[s.node.backpointer])
      BY <1>1 DEF World
    <2>2. Respects(s.node.transition, s.node.truth, w[s.node.backpointer])
      BY <1>2, <1>4, <1>7, <2>1, Zenon
    <2>3. w[0] = query.truth
      BY <1>6, <2>2, Zenon
    <2> QED BY <1>a, <2>3, Zenon
  <1>8. ASSUME NEW h \in Visited', v[h] = history'[h].truth PROVE v[0] = query.truth
    <2>1. CASE h = k
      BY <1>1, <1>7, <1>8, <2>1, Zenon
    <2>2. CASE h \in Visited
      <3>1. h \in 0 .. k - 1
        BY <1>1, <2>2
      <3>2. w[h] = history[h].truth
        BY <1>1, <1>2, <1>8, <3>1, Zenon
      <3>3. w[0] = query.truth
        BY <1>6, <2>2, <3>2, Zenon
      <3> QED BY <1>a, <3>3, Zenon
    <2> QED BY <1>1, <2>1, <2>2
  <1>9. ASSUME NEW c \in fringe',
               Respects(c.node.transition, c.node.truth, v[c.node.backpointer])
        PROVE  v[0] = query.truth
    <2>1. CASE c \in fringe
      <3>1. c.node.backpointer \in 0 .. k - 1
        BY <1>1, <2>1 DEF TypeOK
      <3>2. Respects(c.node.transition, c.node.truth, w[c.node.backpointer])
        BY <1>2, <1>9, <3>1, Zenon
      <3>3. w[0] = query.truth
        BY <1>6, <2>1, <3>2, Zenon
      <3> QED BY <1>a, <3>3, Zenon
    <2>2. CASE Node(c.node) /\ c.node.backpointer = k /\ Legal(c.node, s.node)
      <3>1. v[k] \in BOOLEAN /\ c.node.truth \in BOOLEAN /\ s.node.truth \in BOOLEAN
        BY <1>1, <1>4, <2>2 DEF Node
      <3>2. v[k] = s.node.truth
        BY <1>9, <2>2, <3>1, LegalStepSound
      <3> QED BY <1>7, <3>2
    <2> QED BY <2>1, <2>2, TickStep
  <1> QED BY <1>8, <1>9

LEMMA TruthOther ==
  ASSUME TruthSound, UNCHANGED <<query, history, historySize>>,
         fringe' \subseteq fringe
  PROVE  TruthSound'
  <1>1. query' = query /\ Visited' = Visited
    BY DEF Visited
  <1>2. \A v : World(v)' <=> World(v)
    BY <1>1 DEF World
  <1> QED BY <1>1, <1>2 DEF TruthSound

LEMMA TruthNext == TypeOK /\ TruthSound /\ [Next]_vars => TruthSound'
  <1> SUFFICES ASSUME TypeOK, TruthSound, [Next]_vars PROVE TruthSound'
    OBVIOUS
  <1>1. CASE Begin
    BY <1>1, TruthBegin
  <1>2. ASSUME NEW s \in fringe, Tick(s) PROVE TruthSound'
    BY <1>2, TruthTick
  <1>3. ASSUME NEW s, SkipVisited(s) \/ CheckFringe(s) \/ EndSearch \/ Return \/ Refuse
        PROVE  TruthSound'
    BY <1>3, OtherStep, TruthOther
  <1>4. CASE UNCHANGED vars
    BY <1>4, TruthOther DEF vars
  <1> QED BY <1>1, <1>2, <1>3, <1>4 DEF Next

(* Under strict costs, whatever the tree, the graph and the generated      *)
(* tables are: a fact that the search visits or is about to visit, if it   *)
(* really has the truth value the search gave it, gives the query the      *)
(* truth value that was assumed.                                           *)
THEOREM TruthIsSound == Spec => []TruthSound
  <1>1. Init => TruthInv
    BY TypeInit, TruthInit DEF TruthInv
  <1>2. TruthInv /\ [Next]_vars => TruthInv'
    BY TypeNext, TruthNext DEF TruthInv
  <1>3. TruthInv => TruthSound
    BY DEF TruthInv
  <1> QED BY <1>1, <1>2, <1>3, PTL DEF Spec

-------------------------------------------------------------------------------
(* Links: only the start has no parent, and every other node is a legal    *)
(* step away from its own.                                                 *)
Linked(n) ==
  /\ n.backpointer = 0 => n = Start
  /\ n.backpointer # 0 => Legal(n, Parent(n))

LinksRight ==
  /\ \A i \in DOMAIN history : Linked(history[i])
  /\ \A s \in fringe : Linked(s.node)

(* What is in the history stays there.                                     *)
Grows ==
  /\ query' = query
  /\ \A i \in DOMAIN history : i \in DOMAIN history' /\ history'[i] = history[i]

LEMMA LinkedGrows ==
  ASSUME Grows, NEW n, n.backpointer \in DOMAIN history, Linked(n) PROVE Linked(n)'
  <1>1. Parent(n)' = Parent(n) /\ Start' = Start
    BY DEF Grows, Parent, Start, NodeAt, Token, GovernorAt, tree
  <1>2. Legal(n, Parent(n)) => Legal(n, Parent(n))'
    BY <1>1 DEF Legal, Grows
  <1> QED BY <1>1, <1>2 DEF Linked

LEMMA StepGrows ==
  ASSUME TypeOK, [Next]_vars, ~Begin PROVE Grows
  <1>1. ASSUME NEW s \in fringe, Tick(s) PROVE Grows
    <2>1. query' = query
      BY <1>1 DEF Tick
    <2> QED BY <1>1, <2>1, TickStep DEF Grows
  <1>2. ASSUME NEW s, SkipVisited(s) \/ CheckFringe(s) \/ EndSearch \/ Return \/ Refuse
        PROVE  Grows
    BY <1>2, OtherStep DEF Grows
  <1>3. CASE UNCHANGED vars
    BY <1>3 DEF vars, Grows
  <1> QED BY <1>1, <1>2, <1>3 DEF Next

LEMMA LinksInit == Init => LinksRight
  BY DEF Init, LinksRight

LEMMA LinksNext == TypeOK /\ LinksRight /\ [Next]_vars => LinksRight'
  <1> SUFFICES ASSUME TypeOK, LinksRight, [Next]_vars PROVE LinksRight'
    OBVIOUS
  <1>1. CASE Begin
    <2>1. /\ fringe' = {Scored(Start, 0, <<"start", 0>>)} /\ history' = [i \in {0} |-> Start]
          /\ query' = query
      BY <1>1 DEF Begin
    <2>2. Start' = Start
      BY <2>1 DEF Start, NodeAt, Token, GovernorAt, tree
    <2>3. Start.backpointer = 0
      BY StartNode DEF TypeOK
    <2>4. Linked(Start)'
      BY <2>2, <2>3 DEF Linked
    <2> QED BY <2>1, <2>2, <2>4 DEF LinksRight, Scored
  <1>2. ASSUME NEW s \in fringe, Tick(s) PROVE LinksRight'
    <2>0. Grows
      <3>1. query' = query
        BY <1>2 DEF Tick
      <3> QED BY <1>2, <3>1, TickStep DEF Grows
    <2>1. ASSUME NEW n, n.backpointer \in DOMAIN history, Linked(n) PROVE Linked(n)'
      BY <2>0, <2>1, LinkedGrows
    <2>2. /\ s.node.backpointer \in DOMAIN history /\ Linked(s.node)
          /\ \A i \in DOMAIN history : history[i].backpointer \in DOMAIN history
      <3>1. \A i \in DOMAIN history : history[i].backpointer \in 0 .. historySize - 1
        BY <1>2, TickStep DEF TypeOK, Node
      <3> QED BY <1>2, <3>1, TickStep DEF TypeOK, LinksRight
    <2>3. ASSUME NEW i \in DOMAIN history' PROVE Linked(history[i])'
      <3>1. CASE i \in DOMAIN history
        BY <1>2, <2>1, <2>2, <3>1, TickStep DEF LinksRight
      <3>2. CASE i = historySize
        BY <1>2, <2>1, <2>2, <3>2, TickStep
      <3> QED BY <1>2, <3>1, <3>2, TickStep
    <2>4. ASSUME NEW c \in fringe' PROVE Linked(c.node)'
      <3>1. CASE c \in fringe
        BY <2>1, <3>1 DEF LinksRight, TypeOK
      <3>2. CASE c.node.backpointer = historySize /\ Legal(c.node, s.node)
        <4>1. historySize # 0 /\ Parent(c.node)' = s.node
          BY <1>2, <3>2, TickStep DEF Parent
        <4>2. Legal(c.node, s.node)'
          BY <2>0, <3>2 DEF Legal, Grows
        <4> QED BY <3>2, <4>1, <4>2 DEF Linked
      <3> QED BY <1>2, <3>1, <3>2, TickStep
    <2> QED BY <2>3, <2>4 DEF LinksRight
  <1>3. ASSUME NEW s, SkipVisited(s) \/ CheckFringe(s) \/ EndSearch \/ Return \/ Refuse
        PROVE  LinksRight'
    <2>1. UNCHANGED <<query, history, historySize, ticks>> /\ fringe' \subseteq fringe
      BY <1>3, OtherStep
    <2>2. \A n : Linked(n) => Linked(n)'
      BY <2>1 DEF Linked, Legal, Parent, Start, NodeAt, Token, GovernorAt, tree
    <2> QED BY <2>1, <2>2 DEF LinksRight
  <1>4. CASE UNCHANGED vars
    <2>1. UNCHANGED <<query, history, fringe>>
      BY <1>4 DEF vars
    <2>2. \A n : Linked(n) => Linked(n)'
      BY <2>1 DEF Linked, Legal, Parent, Start, NodeAt, Token, GovernorAt, tree
    <2> QED BY <2>1, <2>2 DEF LinksRight
  <1> QED BY <1>1, <1>2, <1>3, <1>4 DEF Next

-------------------------------------------------------------------------------
(* Paths                                                                   *)

(* From some node back to the start, along the links.                      *)
Elements(path) ==
  \A k \in 1 .. Len(path) : /\ Node(path[k]) /\ Linked(path[k])
                            /\ path[k].backpointer \in DOMAIN history

Steps(path) ==
  \A k \in 1 .. Len(path) - 1 : path[k].backpointer # 0 /\ path[k + 1] = Parent(path[k])

IsPath(path) ==
  /\ Len(path) \in Nat \ {0} /\ DOMAIN path = 1 .. Len(path)
  /\ Elements(path) /\ Steps(path)
  /\ path[Len(path)].backpointer = 0

LEMMA PathGrows ==
  ASSUME Grows, NEW path, IsPath(path) PROVE IsPath(path)'
  <1>1. ASSUME NEW k \in 1 .. Len(path)
        PROVE  /\ Node(path[k]) /\ Linked(path[k])' /\ path[k].backpointer \in DOMAIN history'
               /\ Parent(path[k])' = Parent(path[k])
    BY LinkedGrows DEF IsPath, Elements, Grows, Parent
  <1>2. Elements(path)'
    BY <1>1 DEF Elements
  <1>3. \A k \in 1 .. Len(path) - 1 : k \in 1 .. Len(path)
    BY DEF IsPath
  <1>4. Steps(path)'
    BY <1>1, <1>3 DEF IsPath, Steps
  <1> QED BY <1>2, <1>4 DEF IsPath

(* One more link.                                                          *)
LEMMA PathExtends ==
  ASSUME NEW n, NEW A, NEW path \in Seq(A), n \in A,
         Node(n), Linked(n), n.backpointer \in DOMAIN history,
         n.backpointer # 0, IsPath(path), path[1] = Parent(n)
  PROVE  IsPath(<<n>> \o path) /\ (<<n>> \o path)[1] = n
  <1> DEFINE long == <<n>> \o path
  <1>1. /\ Len(long) = Len(path) + 1 /\ Len(path) \in Nat \ {0} /\ DOMAIN long = 1 .. Len(long)
        /\ long[1] = n /\ \A k \in 2 .. Len(path) + 1 : long[k] = path[k - 1]
    BY DEF IsPath
  <1> HIDE DEF long
  <1>2. ASSUME NEW k \in 1 .. Len(long)
        PROVE  /\ Node(long[k]) /\ Linked(long[k]) /\ long[k].backpointer \in DOMAIN history
    <2>1. CASE k = 1
      BY <1>1, <2>1
    <2>2. CASE k # 1
      <3>1. k \in 2 .. Len(path) + 1 /\ k - 1 \in 1 .. Len(path)
        BY <1>1, <2>2
      <3> QED BY <1>1, <3>1 DEF IsPath, Elements
    <2> QED BY <2>1, <2>2
  <1>3. ASSUME NEW k \in 1 .. Len(long) - 1
        PROVE  long[k].backpointer # 0 /\ long[k + 1] = Parent(long[k])
    <2>1. CASE k = 1
      <3>1. 2 \in 2 .. Len(path) + 1
        BY <1>1
      <3>2. long[2] = path[1]
        BY <1>1, <3>1
      <3> QED BY <1>1, <2>1, <3>2
    <2>2. CASE k # 1
      <3>1. /\ k \in 2 .. Len(path) + 1 /\ k + 1 \in 2 .. Len(path) + 1
            /\ k - 1 \in 1 .. Len(path) - 1 /\ (k + 1) - 1 = (k - 1) + 1
        BY <1>1, <2>2
      <3>2. long[k] = path[k - 1] /\ long[k + 1] = path[(k - 1) + 1]
        BY <1>1, <3>1
      <3> QED BY <3>1, <3>2 DEF IsPath, Steps
    <2> QED BY <2>1, <2>2
  <1>4. long[Len(long)].backpointer = 0
    <2>1. Len(long) \in 2 .. Len(path) + 1 /\ Len(long) - 1 = Len(path)
      BY <1>1
    <2> QED BY <1>1, <2>1 DEF IsPath
  <1>5. Elements(long) /\ Steps(long)
    BY <1>2, <1>3 DEF Elements, Steps
  <1> QED BY <1>1, <1>4, <1>5 DEF IsPath, long

(* The nodes from each entry of the history back to the start.             *)
Chains(c) ==
  c = [i \in 0 .. historySize - 1 |->
         IF history[i].backpointer = 0 THEN <<history[i]>>
         ELSE <<history[i]>> \o c[history[i].backpointer]]

LEMMA ChainsExist ==
  ASSUME TypeOK PROVE \E c : Chains(c)
  <1> DEFINE A == {history[i] : i \in DOMAIN history}
             next(c, i) == IF history[i].backpointer = 0 THEN <<history[i]>>
                           ELSE <<history[i]>> \o c[history[i].backpointer]
             T == {k \in 0 .. historySize :
                     \E c \in [0 .. k - 1 -> Seq(A)] : \A i \in 0 .. k - 1 : c[i] = next(c, i)}
  <1>1. /\ historySize \in Nat /\ DOMAIN history = 0 .. historySize - 1
        /\ \A i \in DOMAIN history : history[i].backpointer \in Nat
                                     /\ history[i].backpointer < (IF i = 0 THEN 1 ELSE i)
    BY DEF TypeOK, Node
  <1>2. 0 \in T
    <2> DEFINE c == [i \in 0 .. 0 - 1 |-> <<>>]
    <2>1. c \in [0 .. 0 - 1 -> Seq(A)] /\ \A i \in 0 .. 0 - 1 : c[i] = next(c, i)
      OBVIOUS
    <2>2. 0 \in 0 .. historySize
      BY <1>1
    <2> HIDE DEF c, next, A
    <2> QED BY <2>1, <2>2
  <1>3. ASSUME NEW k \in 1 .. historySize, k - 1 \in T PROVE k \in T
    <2>1. (k - 1) - 1 = k - 2
      OBVIOUS
    <2>2. PICK c \in [0 .. k - 2 -> Seq(A)] : \A i \in 0 .. k - 2 : c[i] = next(c, i)
      BY <1>3, <2>1
    <2> DEFINE d == [i \in 0 .. k - 1 |-> IF i = k - 1 THEN next(c, i) ELSE c[i]]
    <2>3. next(c, k - 1) \in Seq(A)
      <3>1. k - 1 \in DOMAIN history /\ history[k - 1] \in A
        BY <1>1
      <3>2. history[k - 1].backpointer # 0 => history[k - 1].backpointer \in 0 .. k - 2
        BY <1>1, <3>1
      <3> HIDE DEF A
      <3> QED BY <3>1, <3>2
    <2>4. d \in [0 .. k - 1 -> Seq(A)]
      <3> HIDE DEF A, next
      <3> QED BY <2>3
    <2>5. ASSUME NEW i \in 0 .. k - 1 PROVE d[i] = next(d, i)
      <3>1. i \in DOMAIN history
        BY <1>1
      <3>2. history[i].backpointer # 0 => history[i].backpointer \in 0 .. k - 2
        BY <1>1, <3>1
      <3>3. history[i].backpointer # 0 => d[history[i].backpointer] = c[history[i].backpointer]
        BY <3>2
      <3>4. next(d, i) = next(c, i)
        <4> HIDE DEF d
        <4> QED BY <3>3, Zenon
      <3>5. d[i] = next(c, i)
        <4>1. CASE i = k - 1
          <5> HIDE DEF next
          <5> QED BY <4>1
        <4>2. CASE i \in 0 .. k - 2
          <5> HIDE DEF next
          <5> QED BY <2>2, <4>2
        <4> QED BY <4>1, <4>2
      <3> QED BY <3>4, <3>5
    <2>6. k \in 0 .. historySize
      BY <1>1
    <2> HIDE DEF d, next, A
    <2> QED BY <2>4, <2>5, <2>6
  <1>4. historySize \in T
    <2> HIDE DEF T
    <2>1. 0 .. historySize \subseteq T
      BY <1>1, <1>2, <1>3, IntervalInduction
    <2> QED BY <1>1, <2>1
  <1>5. PICK c \in [0 .. historySize - 1 -> Seq(A)] : \A i \in 0 .. historySize - 1 : c[i] = next(c, i)
    BY <1>4
  <1>6. Chains(c)
    BY <1>5 DEF Chains
  <1> QED BY <1>6

LEMMA AncestryIsPath ==
  ASSUME TypeOK, LinksRight, NEW n, Node(n), Linked(n), n.backpointer \in DOMAIN history
  PROVE  IsPath(Ancestry(n)) /\ Ancestry(n)[1] = n
  <1> DEFINE c == CHOOSE c : Chains(c)
  <1>1. Chains(c)
    BY ChainsExist, Zenon
  <1>2. Ancestry(n) = IF n.backpointer = 0 THEN <<n>> ELSE <<n>> \o c[n.backpointer]
    BY Zenon DEF Ancestry, Chains
  <1> HIDE DEF c
  <1>3. \A i \in 0 .. historySize - 1 :
          c[i] = IF history[i].backpointer = 0 THEN <<history[i]>>
                 ELSE <<history[i]>> \o c[history[i].backpointer]
    BY <1>1, Zenon DEF Chains
  <1>4. ASSUME NEW m, Node(m), Linked(m), m.backpointer = 0, m.backpointer \in DOMAIN history
        PROVE  IsPath(<<m>>) /\ <<m>>[1] = m
    <2>1. Len(<<m>>) = 1 /\ <<m>>[1] = m /\ DOMAIN <<m>> = 1 .. 1
      OBVIOUS
    <2>2. \A k \in 1 .. 1 : k = 1
      OBVIOUS
    <2>3. 1 .. 1 - 1 = {}
      OBVIOUS
    <2> DEFINE path == <<m>>
    <2> HIDE DEF path
    <2>4. path = <<m>> => Elements(path) /\ Steps(path)
      BY <1>4, <2>1, <2>2, <2>3 DEF Elements, Steps
    <2> QED BY <1>4, <2>1, <2>4 DEF IsPath, path
  <1>5. ASSUME NEW i \in 0 .. historySize - 1
        PROVE  /\ Node(history[i]) /\ Linked(history[i]) /\ history[i].backpointer \in DOMAIN history
               /\ history[i].backpointer # 0 => history[i].backpointer \in 0 .. i - 1
    BY DEF TypeOK, LinksRight, Node
  <1> DEFINE A == {history[j] : j \in DOMAIN history}
             Good(i) == c[i] \in Seq(A) /\ IsPath(c[i]) /\ c[i][1] = history[i]
             T == {k \in 0 .. historySize : \A i \in 0 .. k - 1 : Good(i)}
  <1>6. historySize \in Nat /\ DOMAIN history = 0 .. historySize - 1
    BY DEF TypeOK
  <1>7. ASSUME NEW i \in 0 .. historySize - 1, \A j \in 0 .. i - 1 : Good(j) PROVE Good(i)
    <2>1. history[i] \in A
      BY <1>6
    <2>2. CASE history[i].backpointer = 0
      <3>1. c[i] = <<history[i]>>
        BY <1>3, <2>2
      <3>2. <<history[i]>> \in Seq(A)
        BY <2>1
      <3> QED BY <1>4, <1>5, <2>2, <3>1, <3>2
    <2>3. CASE history[i].backpointer # 0
      <3> DEFINE b == history[i].backpointer
      <3>1. c[i] = <<history[i]>> \o c[b]
        BY <1>3, <2>3
      <3>2. b \in 0 .. i - 1
        BY <1>5, <2>3
      <3>3. c[b] \in Seq(A) /\ IsPath(c[b]) /\ c[b][1] = history[b]
        BY <1>7, <3>2
      <3>4. <<history[i]>> \o c[b] \in Seq(A)
        <4> HIDE DEF A, b
        <4> QED BY <2>1, <3>3
      <3>5. Parent(history[i]) = history[b]
        BY DEF Parent
      <3>6. IsPath(<<history[i]>> \o c[b]) /\ (<<history[i]>> \o c[b])[1] = history[i]
        <4> HIDE DEF A
        <4> QED BY <1>5, <2>1, <2>3, <3>3, <3>5, PathExtends
      <3> QED BY <3>1, <3>4, <3>6
    <2> QED BY <2>2, <2>3
  <1>8. 0 .. historySize \subseteq T
    <2>1. 0 \in T
      BY <1>6
    <2>2. ASSUME NEW k \in 1 .. historySize, k - 1 \in T PROVE k \in T
      <3>1. \A i \in 0 .. (k - 1) - 1 : Good(i)
        BY <2>2
      <3>2. k - 1 \in 0 .. historySize - 1
        BY <1>6
      <3>3. Good(k - 1)
        BY <1>7, <3>1, <3>2
      <3> HIDE DEF Good
      <3>4. \A i \in 0 .. k - 1 : Good(i)
        <4>1. \A i \in 0 .. k - 1 : i = k - 1 \/ i \in 0 .. (k - 1) - 1
          OBVIOUS
        <4> QED BY <3>1, <3>3, <4>1
      <3> QED BY <1>6, <3>4
    <2> HIDE DEF T
    <2> QED BY <1>6, <2>1, <2>2, IntervalInduction
  <1>9. ASSUME n.backpointer # 0 PROVE IsPath(<<n>> \o c[n.backpointer]) /\ (<<n>> \o c[n.backpointer])[1] = n
    <2> DEFINE b == n.backpointer
               B == A \cup {n}
    <2>1. historySize \in T /\ b \in 0 .. historySize - 1
      <3> HIDE DEF T
      <3> QED BY <1>6, <1>8
    <2>2. c[b] \in Seq(A) /\ IsPath(c[b]) /\ c[b][1] = Parent(n)
      BY <2>1 DEF Parent
    <2>3. c[b] \in Seq(B)
      <3> HIDE DEF A, b
      <3> QED BY <2>2
    <2>4. n \in B
      OBVIOUS
    <2> HIDE DEF B
    <2> QED BY <1>9, <2>2, <2>3, <2>4, PathExtends
  <1> QED BY <1>2, <1>4, <1>9, Zenon

-------------------------------------------------------------------------------
(* The paths returned                                                      *)

First(a) == paths[a].nodeSequence[1]

Reports ==
  \A a \in DOMAIN paths :
    IsPath(paths[a].nodeSequence) /\ Known(First(a)) /\ ~Degenerate(First(a))

ReportsOnce ==
  \A a, b \in DOMAIN paths : First(a).factHash = First(b).factHash => a = b

PathsRight == paths \in Seq(Range(paths)) /\ Reports /\ ReportsOnce

LEMMA AppendAnything ==
  ASSUME NEW s, s \in Seq(Range(s)), NEW e
  PROVE  LET longer == Append(s, e)
         IN  /\ longer \in Seq(Range(longer))
             /\ Len(s) \in Nat /\ DOMAIN s = 1 .. Len(s) /\ DOMAIN longer = 1 .. Len(s) + 1
             /\ longer[Len(s) + 1] = e
             /\ \A a \in DOMAIN s : longer[a] = s[a] /\ a \in DOMAIN longer
  <1> DEFINE A == Range(s) \cup {e}
             longer == Append(s, e)
  <1>1. s \in Seq(A)
    <2>1. Range(s) \subseteq A
      OBVIOUS
    <2> HIDE DEF A
    <2> QED BY <2>1
  <1>2. /\ longer \in Seq(A)
        /\ Len(s) \in Nat /\ DOMAIN s = 1 .. Len(s) /\ Len(longer) = Len(s) + 1
        /\ DOMAIN longer = 1 .. Len(s) + 1 /\ longer[Len(s) + 1] = e
        /\ \A a \in 1 .. Len(s) : longer[a] = s[a]
    <2> HIDE DEF A
    <2>1. e \in A
      BY DEF A
    <2> QED BY <1>1, <2>1
  <1> HIDE DEF longer
  <1>3. longer \in Seq(Range(longer))
    <2>1. \A a \in 1 .. Len(longer) : longer[a] \in Range(longer)
      BY <1>2 DEF Range
    <2> HIDE DEF A
    <2> QED BY <1>2, <2>1
  <1>4. \A a \in DOMAIN s : a \in DOMAIN longer
    BY <1>2
  <1> QED BY <1>2, <1>3, <1>4 DEF longer

LEMMA ReportsGrow ==
  ASSUME Grows, NEW path, IsPath(path), Known(path[1]), ~Degenerate(path[1])
  PROVE  IsPath(path)' /\ Known(path[1])' /\ ~Degenerate(path[1])'
  BY PathGrows DEF Grows, Known, Degenerate, Tokens, tree

LEMMA PathsSame ==
  ASSUME Grows, PathsRight, paths' = paths PROVE PathsRight'
  <1>1. ASSUME NEW a \in DOMAIN paths
        PROVE  (IsPath(paths[a].nodeSequence) /\ Known(First(a)) /\ ~Degenerate(First(a)))'
    BY ReportsGrow DEF PathsRight, Reports, First
  <1> QED BY <1>1 DEF PathsRight, Reports, ReportsOnce, First

LEMMA PathsRegister ==
  ASSUME TypeOK, LinksRight, PathsRight, Grows, NEW s \in fringe, RegisterVisited(s)
  PROVE  PathsRight'
  <1> DEFINE n == s.node
  <1>1. CASE Known(n) /\ ~Found(n) /\ ~Degenerate(n)
    <2>1. PICK path : path = Ancestry(n)
      OBVIOUS
    <2> DEFINE p == [nodeSequence |-> path, cost |-> s.cost]
    <2>0. PICK l : l = Len(paths) + 1
      OBVIOUS
    <2>2. paths' = Append(paths, p)
      BY <1>1, <2>1 DEF RegisterVisited
    <2>3. /\ paths' \in Seq(Range(paths'))
          /\ Len(paths) \in Nat /\ DOMAIN paths = 1 .. Len(paths) /\ DOMAIN paths' = 1 .. l
          /\ paths'[l] = p
          /\ \A a \in DOMAIN paths : paths'[a] = paths[a]
      <3>1. paths \in Seq(Range(paths))
        BY DEF PathsRight
      <3> HIDE DEF p
      <3> QED BY <2>0, <2>2, <3>1, AppendAnything
    <2>4. IsPath(path) /\ path[1] = n
      BY <2>1, AncestryIsPath DEF TypeOK, LinksRight
    <2>5. IsPath(path)' /\ Known(path[1])' /\ ~Degenerate(path[1])'
      BY <1>1, <2>4, ReportsGrow
    <2>6. paths'[l].nodeSequence = path
      BY <2>3
    <2>7. \A a \in DOMAIN paths' : a \in DOMAIN paths \/ a = l
      BY <2>0, <2>3
    <2>8. ASSUME NEW a \in DOMAIN paths
          PROVE  (IsPath(paths[a].nodeSequence) /\ Known(First(a)) /\ ~Degenerate(First(a)))'
      BY <2>3, ReportsGrow DEF PathsRight, Reports, First
    <2>9. Reports'
      BY <2>5, <2>6, <2>7, <2>8 DEF Reports, First
    <2>10. ASSUME NEW a \in DOMAIN paths PROVE First(a)'.factHash # n.factHash
      <3>1. Head(paths[a].nodeSequence).factHash # n.factHash
        BY <1>1 DEF Found, Range
      <3> QED BY <2>3, <3>1 DEF First
    <2>11. ReportsOnce'
      <3> SUFFICES ASSUME NEW a \in DOMAIN paths', NEW b \in DOMAIN paths',
                          First(a)'.factHash = First(b)'.factHash
                   PROVE  a = b
        BY DEF ReportsOnce
      <3>1. First(l)' = n
        BY <2>4, <2>6 DEF First
      <3>2. \A d \in DOMAIN paths : First(d)' = First(d)
        BY <2>3 DEF First
      <3> QED BY <2>7, <2>10, <3>1, <3>2 DEF PathsRight, ReportsOnce
    <2> QED BY <2>3, <2>9, <2>11 DEF PathsRight
  <1>2. CASE ~(Known(n) /\ ~Found(n) /\ ~Degenerate(n))
    BY <1>2, PathsSame DEF RegisterVisited
  <1> QED BY <1>1, <1>2

LEMMA PathsInit == Init => PathsRight
  BY DEF Init, PathsRight, Reports, ReportsOnce, Range

NotBegun == pc = "begin" => history = <<>>

LEMMA NotBegunNext == NotBegun /\ [Next]_vars => NotBegun'
  BY DEF NotBegun, Next, vars, Refuse, Begin, EndSearch, Return, Tick, SkipVisited, CheckFringe

LEMMA PathsNext == TypeOK /\ NotBegun /\ LinksRight /\ PathsRight /\ [Next]_vars => PathsRight'
  <1> SUFFICES ASSUME TypeOK, NotBegun, LinksRight, PathsRight, [Next]_vars PROVE PathsRight'
    OBVIOUS
  <1>1. CASE Begin
    <2>1. history = <<>> /\ DOMAIN history = {} /\ query' = query
      BY <1>1 DEF Begin, NotBegun
    <2>2. Grows
      BY <2>1 DEF Grows
    <2> QED BY <1>1, <2>2, PathsSame DEF Begin
  <1>2. CASE ~Begin
    <2>1. Grows
      BY <1>2, StepGrows
    <2>2. ASSUME NEW s \in fringe, Tick(s) \/ CheckFringe(s) PROVE PathsRight'
      BY <2>1, <2>2, PathsRegister DEF Tick, CheckFringe
    <2>3. ASSUME NEW s, SkipVisited(s) \/ EndSearch \/ Return \/ Refuse \/ UNCHANGED vars
          PROVE  PathsRight'
      <3>1. paths' = paths
        BY <2>3 DEF SkipVisited, EndSearch, Return, Refuse, vars
      <3> QED BY <2>1, <3>1, PathsSame
    <2> QED BY <1>2, <2>2, <2>3 DEF Next
  <1> QED BY <1>1, <1>2

PathsInv == TypeOK /\ NotBegun /\ LinksRight /\ PathsRight

LEMMA PathsInvariant == Spec => []PathsInv
  <1>1. Init => PathsInv
    BY TypeInit, LinksInit, PathsInit DEF PathsInv, NotBegun, Init
  <1>2. PathsInv /\ [Next]_vars => PathsInv'
    BY TypeNext, NotBegunNext, LinksNext, PathsNext DEF PathsInv
  <1> QED BY <1>1, <1>2, PTL DEF Spec

(* Every path of a response, whatever the limits are and however ties in   *)
(* the heap are broken, starts at a fact that is known, true and of at     *)
(* least two words, is the only one that does, and leads back to the query *)
(* one popped node at a time (registerVisited of SynSearchSingleThreaded). *)
THEOREM MatchesAreSound == Spec => []MatchesSound
  <1>1. PathsInv => MatchesSound
    <2> SUFFICES ASSUME PathsInv PROVE MatchesSound
      OBVIOUS
    <2>1. ASSUME NEW a \in DOMAIN paths, NEW b \in DOMAIN paths,
                 paths[a].nodeSequence[1].factHash = paths[b].nodeSequence[1].factHash
          PROVE  a = b
      BY <2>1 DEF PathsInv, PathsRight, ReportsOnce, First
    <2>2. ASSUME NEW a \in DOMAIN paths
          PROVE  LET path == paths[a].nodeSequence
                 IN  /\ path[1].truth /\ path[1].factHash \in query.kb
                     /\ Cardinality(Tokens(tree) \ path[1].deleted) >= 2
                     /\ Last(path) = Start
                     /\ \A k \in 1 .. Len(path) - 1 :
                          path[k + 1] = IF path[k].backpointer = 0 THEN Start ELSE Parent(path[k])
      <3> DEFINE path == paths[a].nodeSequence
                 left == Tokens(tree) \ path[1].deleted
      <3>1. IsPath(path) /\ Known(path[1]) /\ ~Degenerate(path[1])
        BY DEF PathsInv, PathsRight, Reports, First
      <3>2. Cardinality(left) >= 2
        <4>1. IsFiniteSet(Tokens(tree))
          BY QueriesAssumption DEF PathsInv, TypeOK, tree
        <4>2. Cardinality(left) \in Nat
          BY <4>1, FS_Difference, FS_CardinalityType
        <4>3. ~(Cardinality(left) < 2)
          BY <3>1 DEF Degenerate
        <4> HIDE DEF left
        <4> QED BY <4>2, <4>3
      <3> HIDE DEF path
      <3>3. Last(path) = Start
        <4>1. Len(path) \in 1 .. Len(path)
          BY <3>1 DEF IsPath
        <4> QED BY <3>1, <4>1 DEF IsPath, Elements, Linked, Last
      <3>4. \A k \in 1 .. Len(path) - 1 :
              path[k + 1] = IF path[k].backpointer = 0 THEN Start ELSE Parent(path[k])
        BY <3>1 DEF IsPath, Steps
      <3> QED BY <3>1, <3>2, <3>3, <3>4 DEF Known, path
    <2> QED BY <2>1, <2>2 DEF MatchesSound
  <1> QED BY <1>1, PathsInvariant, PTL

-------------------------------------------------------------------------------
(* What a path proves                                                      *)

After(path, k, before) ==
  {c \in BOOLEAN : \E p \in before : Respects(path[k - 1].transition, p, c)}

Possible(path, f) ==
  f = [k \in DOMAIN path |-> IF k = 1 THEN {TRUE} ELSE After(path, k, f[k - 1])]

LEMMA PossibleExists ==
  ASSUME NEW path, Len(path) \in Nat \ {0}, DOMAIN path = 1 .. Len(path)
  PROVE  \E f : Possible(path, f)
  <1> DEFINE n == Len(path) - 1
             S == SUBSET BOOLEAN
             g == [p \in (1 .. n) \X S |-> After(path, p[1] + 1, p[2])]
  <1>1. g \in [(1 .. n) \X S -> S]
    BY DEF After
  <1>2. PICK f \in [0 .. n -> S] : Unfolds(f, n, {TRUE}, g)
    <2>1. n \in Nat /\ {TRUE} \in S
      OBVIOUS
    <2> HIDE DEF g, S, n
    <2> QED BY <1>1, <2>1, RecursionExists
  <1> DEFINE h == [k \in DOMAIN path |-> f[k - 1]]
  <1>3. ASSUME NEW k \in 1 .. Len(path)
        PROVE  h[k] = IF k = 1 THEN {TRUE} ELSE After(path, k, h[k - 1])
    <2>1. k - 1 \in 0 .. n
      OBVIOUS
    <2>2. f[k - 1] = IF k - 1 = 0 THEN {TRUE} ELSE g[<<k - 1, f[(k - 1) - 1]>>]
      <3> HIDE DEF g
      <3> QED BY <1>2, <2>1 DEF Unfolds
    <2>3. CASE k = 1
      BY <2>2, <2>3
    <2>4. CASE k # 1
      <3>1. k - 1 \in 1 .. n /\ (k - 1) - 1 \in 0 .. n /\ (k - 1) + 1 = k
        BY <2>4
      <3>2. f[(k - 1) - 1] \in S
        BY <3>1
      <3>3. g[<<k - 1, f[(k - 1) - 1]>>] = After(path, (k - 1) + 1, f[(k - 1) - 1])
        <4> HIDE DEF S
        <4> QED BY <3>1, <3>2
      <3>4. h[k - 1] = f[(k - 1) - 1] /\ h[k] = f[k - 1]
        BY <2>4
      <3> HIDE DEF h, g
      <3> QED BY <2>2, <2>4, <3>1, <3>3, <3>4
    <2> QED BY <2>3, <2>4
  <1>4. Possible(path, h)
    <2>1. h = [k \in DOMAIN path |-> IF k = 1 THEN {TRUE} ELSE After(path, k, h[k - 1])]
      BY <1>3
    <2> QED BY <2>1 DEF Possible
  <1> QED BY <1>4

LEMMA PathProves ==
  ASSUME TypeOK, query.bad = Infinity, NEW path, IsPath(path), path[1].truth
  PROVE  Consequences(path) \subseteq {query.truth}
  <1> DEFINE f == CHOOSE f : Possible(path, f)
             n == Len(path) - 1
             T == {k \in 0 .. n : f[k + 1] \subseteq {path[k + 1].truth}}
  <1>1. Possible(path, f)
    BY PossibleExists, Zenon DEF IsPath
  <1>2. Consequences(path) = f[Len(path)]
    BY Zenon DEF Consequences, Possible, After
  <1> HIDE DEF f
  <1>3. n \in Nat /\ DOMAIN path = 1 .. Len(path) /\ n + 1 = Len(path)
    BY DEF IsPath
  <1>4. \A k \in 1 .. Len(path) : f[k] = IF k = 1 THEN {TRUE} ELSE After(path, k, f[k - 1])
    BY <1>1, <1>3, Zenon DEF Possible
  <1>5. 0 \in T
    <2>1. 1 \in 1 .. Len(path) /\ path[1].truth \in BOOLEAN
      BY <1>3 DEF IsPath, Elements, Node
    <2>2. f[1] = {TRUE} /\ path[1].truth = TRUE
      BY <1>4, <2>1
    <2>3. 0 \in 0 .. n /\ 0 + 1 = 1
      BY <1>3
    <2>4. f[1] \subseteq {path[1].truth}
      BY <2>2, Zenon
    <2> QED BY <2>3, <2>4
  <1>6. ASSUME NEW k \in 1 .. n, k - 1 \in T PROVE k \in T
    <2>1. /\ k \in 1 .. Len(path) /\ k + 1 \in 1 .. Len(path) /\ (k - 1) + 1 = k
          /\ (k + 1) - 1 = k /\ k + 1 # 1
      BY <1>3
    <2>2. f[k] \subseteq {path[k].truth}
      BY <1>6, <2>1
    <2>3. f[k + 1] = After(path, k + 1, f[k])
      BY <1>4, <2>1
    <2>4. /\ path[k].truth \in BOOLEAN /\ path[k + 1].truth \in BOOLEAN
          /\ Legal(path[k], path[k + 1])
      BY <2>1 DEF IsPath, Elements, Steps, Linked, Node
    <2>5. ASSUME NEW c \in f[k + 1] PROVE c = path[k + 1].truth
      <3>1. c \in BOOLEAN /\ \E p \in f[k] : Respects(path[k].transition, p, c)
        BY <2>1, <2>3 DEF After
      <3>2. Respects(path[k].transition, path[k].truth, c)
        BY <2>2, <3>1
      <3> QED BY <2>4, <3>1, <3>2, LegalStepSound
    <2> QED BY <1>3, <2>5
  <1>7. n \in T
    <2> HIDE DEF T
    <2>1. 0 .. n \subseteq T
      BY <1>3, <1>5, <1>6, IntervalInduction
    <2> QED BY <1>3, <2>1
  <1>8. path[Len(path)].truth = query.truth
    <2>1. Len(path) \in 1 .. Len(path)
      BY <1>3
    <2>2. path[Len(path)] = Start
      BY <2>1 DEF IsPath, Elements, Linked
    <2> QED BY <2>2, StartNode DEF TypeOK
  <1> QED BY <1>2, <1>3, <1>7, <1>8

(* Under strict costs, if the premise a path starts with is true, then     *)
(* taking the transitions of the path one after the other leaves the query *)
(* no truth value but the one that was assumed of it.                      *)
THEOREM PremisesProve == Spec => []PremiseProves
  <1>1. PathsInv => PremiseProves
    <2> SUFFICES ASSUME PathsInv, query.bad = Infinity, NEW a \in DOMAIN paths
                 PROVE  Consequences(paths[a].nodeSequence) \subseteq {query.truth}
      BY DEF PremiseProves
    <2>1. IsPath(paths[a].nodeSequence) /\ Known(paths[a].nodeSequence[1])
      BY DEF PathsInv, PathsRight, Reports, First
    <2> QED BY <2>1, PathProves DEF PathsInv, Known
  <1> QED BY <1>1, PathsInvariant, PTL
===============================================================================
