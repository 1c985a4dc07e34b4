------------------------------- MODULE SynSearch -------------------------------
(***************************************************************************)
(* The best-first search of SynSearchSingleThreaded.cc: one call of        *)
(* SynSearch(), from its arguments to its syn_search_response.             *)
(*                                                                         *)
(* The search starts at the query and looks for a premise: it mutates the  *)
(* current word along the edges of the graph, deletes dependents, or moves *)
(* to the next word, and looks up the hash of every fact it visits in the  *)
(* knowledge base.                                                         *)
(***************************************************************************)
EXTENDS DepTree

CONSTANTS
  Queries,              \* the calls considered: a set of records, below
  MAX_BRANCHOUT,        \* mutations taken from one node
  SEARCH_CYCLE_MEMORY,  \* ancestors remembered by the cycle check
  SEARCH_FULL_MEMORY,   \* TRUE: remember every (fact, token) instead
  MaxDependents,        \* dependents considered for deletion (8)
  MaxFringe,            \* largest fringe dequeue() accepts (10,000,000)
  TickLimit             \* maxTicks is refused from here on (2^25)

(***************************************************************************)
(* A call is a record                                                      *)
(*   tree, truth            input, assumedInitialTruth                     *)
(*   kb                     the union of kb and auxKB                      *)
(*   graph                  word -> sequence of the edges into it, each    *)
(*                          [source, sourceSense, sinkSense, type, cost]   *)
(*   insertion              dependencyInsertToLexicalFunction, by label    *)
(*   marking                characterizeQuantifier, by word                *)
(*   small, ok, fishy, bad  the arguments of createStrictCosts             *)
(*   maxTicks, checkFringe  syn_search_options: costThreshold and          *)
(*                          stopWhenResultFound are never read             *)
(***************************************************************************)
VARIABLES
  query,       \* the call
  pc,          \* "begin", "search", "fringe" (checking it) or "done"
  fringe,      \* the elements of the heap: [node, cost, step]
  history,     \* history[0 .. historySize - 1]: the nodes popped
  historySize,
  ticks,
  memory,      \* memory[0 .. SEARCH_CYCLE_MEMORY - 1], never cleared
  memorySize,
  fullMemory,  \* the (factHash, tokenIndex) pairs expanded
  paths,       \* response.paths
  totalTicks   \* response.totalTicks
vars == <<query, pc, fringe, history, historySize, ticks, memory, memorySize,
          fullMemory, paths, totalTicks>>

tree == query.tree

(***************************************************************************)
(* A SearchNode.  transition is incomingFeatures.transitionTaken ("NONE"   *)
(* for 7); words is not in the code: it records the words of the fact the  *)
(* node stands for, which the code has only in the form of factHash.       *)
(***************************************************************************)
SameNode(a, b) ==   \* syn_path_data::operator==
  /\ a.factHash = b.factHash /\ a.deleted = b.deleted /\ a.index = b.index
  /\ a.truth = b.truth /\ a.token = b.token /\ a.governor = b.governor

Token(i) == [word |-> tree.word[i], sense |-> tree.sense[i]]

GovernorAt(i) ==    \* tree.word(tree.governor(i)), past the array for the root
  IF tree.governor[i] = TREE_ROOT THEN tree.stray ELSE tree.word[tree.governor[i]]

NodeAt(i, governor) ==
  [factHash |-> Hash(tree), index |-> i, truth |-> query.truth, deleted |-> {},
   token |-> Token(i), governor |-> governor, backpointer |-> 0,
   allQuantifiersSeen |-> FALSE, markings |-> Markings(tree),
   transition |-> "NONE", words |-> tree.word]

Start ==
  IF Quantifiers(tree) # {}
  THEN NodeAt(tree.quantifiers[1].token, GovernorAt(tree.quantifiers[1].token))
  ELSE NodeAt(Root(tree), TREE_ROOT_WORD)

Blank ==            \* SearchNode()
  [factHash |-> {<<"blank">>}, index |-> 255, truth |-> FALSE, deleted |-> {1, 3, 5},
   token |-> [word |-> TREE_ROOT_WORD, sense |-> 0], governor |-> TREE_ROOT_WORD,
   backpointer |-> 0, allQuantifiersSeen |-> FALSE, markings |-> <<>>,
   transition |-> "NONE", words |-> <<>>]

-------------------------------------------------------------------------------
(* Steps of the search out of a node n that is entered in the history at h *)

(* Mutant: the cost is looked up by the truth value the step ends in.     *)
StepCostFromEnd(lexical, n, rel) ==
  AddCost(lexical, TransitionCost(query.ok, query.bad, n.truth, rel))

StepCost(lexical, n, rel) ==
  AddCost(lexical, TransitionCost(query.ok, query.bad, ReverseTransition(n.truth, rel), rel))

(* Mutations.                                                              *)
EdgesInto(n) == query.graph[n.token.word]

MutationRelation(n, e) ==
  ProjectLexicalRelation(tree, n.index, n.markings, EdgeToLexicalFunction(e.type))

MutationCost(n, e) ==
  StepCost(MutationLexicalCost(query.small, query.fishy, e.type), n, MutationRelation(n, e))

MayMutate(n, e) ==
  /\ e.sourceSense # 0 => e.sinkSense = n.token.sense
  /\ e.type \in LocationEdges => n.index \in tree.locations
  /\ IF e.type \in QuantifierEdges
     THEN /\ IsQuantifier(tree, n.index)
          /\ tree.word[n.index] = n.token.word
          /\ LET q == QuantifierIndex(tree, n.index)
             IN  n.markings[q] = tree.quantifiers[q].mono
     ELSE ~IsQuantifier(tree, n.index)
  /\ MutationCost(n, e) # Infinity

EdgesTaken(n) ==
  LET may == {k \in DOMAIN EdgesInto(n) : MayMutate(n, EdgesInto(n)[k])}
  IN  {k \in may : Cardinality({j \in may : j < k}) < MAX_BRANCHOUT}

MutateQuantifier(n, markings) ==
  [n EXCEPT !.markings = markings,
            !.factHash = SymDiff(@, SymDiff(HashQuantifiers(n.markings),
                                            HashQuantifiers(markings)))]

Mutation(n, h, e) ==
  LET child == [n EXCEPT
        !.factHash = UpdateHashFromMutation(tree, @, n.index, n.token.word,
                                            n.governor, e.source),
        !.truth = ReverseTransition(@, MutationRelation(n, e)),
        !.token = [word |-> e.source, sense |-> e.sourceSense],
        !.backpointer = h,
        !.transition = MutationRelation(n, e),
        !.words = [@ EXCEPT ![n.index] = e.source]]
  IN  IF IsQuantifier(tree, n.index)
      THEN MutateQuantifier(child,
             [child.markings EXCEPT ![QuantifierIndex(tree, n.index)] = query.marking[e.source]])
      ELSE child

(* Deletions.                                                              *)
DeletionRelation(n, d) ==
  ProjectLexicalRelation(tree, n.index, n.markings, query.insertion[tree.relation[d]])

(* Mutant: a deletion costs the same whatever its transition.             *)
DeletionCostAlike(n, d) == query.small

DeletionCost(n, d) == StepCost(query.small, n, DeletionRelation(n, d))

DependentsDeleted(n) ==
  {d \in Dependents(tree, n.index, MaxDependents) :
     d \notin n.deleted /\ DeletionCost(n, d) # Infinity}

Deletion(n, h, d) ==
  LET mask == DeleteMask(tree, d)
  IN  [n EXCEPT
        !.factHash = UpdateHashFromDeletions(tree, @, d, tree.word[d], n.token.word, mask),
        !.truth = ReverseTransition(@, DeletionRelation(n, d)),
        !.deleted = @ \cup mask,
        !.backpointer = h,
        !.markings = IF IsQuantifier(tree, d)
                     THEN [@ EXCEPT ![QuantifierIndex(tree, d)] = Cleared] ELSE @,
        !.transition = DeletionRelation(n, d)]

(* Index moves.                                                            *)
(* Mutant: an index move points to its grandparent.                       *)
MovedPastParent(n, h, i) ==
  [n EXCEPT !.index = i, !.token = Token(i), !.governor = GovernorAt(i),
            !.transition = "NONE"]

Moved(n, h, i) ==
  [n EXCEPT !.index = i, !.token = Token(i), !.governor = GovernorAt(i),
            !.backpointer = h, !.transition = "NONE"]

NextQuantifier(i) ==
  LET later == {j \in Tokens(tree) : IsQuantifier(tree, j) /\ j > i}
  IN  IF later = {} THEN Root(tree) ELSE Min(later)

(* The token after the node's first place in the topological order, unless   *)
(* the node deleted it.                                                      *)
NextInOrder(n) ==
  LET order == TopologicalOrder(tree)
      at    == {p \in DOMAIN order : order[p] = n.index}
  IN  {i \in Tokens(tree) \ n.deleted :
         at # {} /\ Min(at) < Len(order) /\ order[Min(at) + 1] = i}

IndexMoves(n, h) ==
  IF ~IsQuantifier(tree, n.index)
  THEN {Moved(n, h, i) : i \in NextInOrder(n)}
  ELSE LET child == Moved(n, h, NextQuantifier(n.index))
       IN  IF child.index # Root(tree) THEN {child}
           ELSE IF n.allQuantifiersSeen THEN {}
           ELSE {[child EXCEPT !.allQuantifiersSeen = TRUE]}

(* The cycle check.  memory[i] is written only when memory[i - 1] has a    *)
(* parent, and otherwise keeps what an earlier iteration left in it.       *)
MemoryAfter(n) ==
  LET m[i \in 0 .. SEARCH_CYCLE_MEMORY - 1] ==
        IF i = 0 THEN history[n.backpointer]
        ELSE IF m[i - 1].backpointer # 0 THEN history[m[i - 1].backpointer]
        ELSE memory[i]
  IN  m

(* Mutant: only the parent is compared.                                   *)
MemorySizeOne(m) == 1

MemorySizeAfter(m) ==
  1 + Max({0} \cup {i \in 1 .. SEARCH_CYCLE_MEMORY - 1 : m[i - 1].backpointer # 0})

CycleChecked == ~SEARCH_FULL_MEMORY /\ SEARCH_CYCLE_MEMORY > 0

(* Mutant: the cycle check compares the words of the tokens only.         *)
RememberedToken(child) ==
  CycleChecked /\ \E i \in 0 .. memorySize' - 1 :
                    child.token = memory'[i].token

Remembered(child) ==
  CycleChecked /\ \E i \in 0 .. memorySize' - 1 : SameNode(child, memory'[i])

(* Everything an iteration pushes.  step is not in the code: it keeps two  *)
(* equal elements apart that two steps out of one node push.               *)
Scored(n, c, step) == [node |-> n, cost |-> c, step |-> step]

Mutations(n, h) ==
  {k \in EdgesTaken(n) : ~Remembered(Mutation(n, h, EdgesInto(n)[k]))}

PushedMutation(n, h, k) ==
  LET e == EdgesInto(n)[k]
  IN  Scored(Mutation(n, h, e), ScaleCost(MutationCost(n, e), e.cost), <<"mutation", k>>)

PushedDeletion(n, h, d) ==
  Scored(Deletion(n, h, d), DeletionCost(n, d), <<"deletion", d>>)

Pushed(s, h) ==
  {PushedMutation(s.node, h, k) : k \in Mutations(s.node, h)}
  \cup {PushedDeletion(s.node, h, d) : d \in DependentsDeleted(s.node)}
  \cup {Scored(m, s.cost, <<"move", m.index>>) : m \in IndexMoves(s.node, h)}

-------------------------------------------------------------------------------
(* registerVisited                                                         *)
Ancestry(n) ==
  LET chain[i \in 0 .. historySize - 1] ==
        IF history[i].backpointer = 0 THEN <<history[i]>>
        ELSE <<history[i]>> \o chain[history[i].backpointer]
  IN  IF n.backpointer = 0 THEN <<n>> ELSE <<n>> \o chain[n.backpointer]

(* Mutant: a fact is known if it has the truth value assumed of the query. *)
KnownAsAssumed(n) == n.truth = query.truth /\ n.factHash \in query.kb

Known(n) == n.truth /\ n.factHash \in query.kb

Degenerate(n) == Cardinality(Tokens(tree) \ n.deleted) < 2

(* Mutant: a fact is compared with the end of the paths found, the query. *)
FoundAtEnd(n) == \E p \in Range(paths) : Last(p.nodeSequence).factHash = n.factHash

Found(n) == \E p \in Range(paths) : Head(p.nodeSequence).factHash = n.factHash

RegisterVisited(s) ==
  paths' = IF Known(s.node) /\ ~Found(s.node) /\ ~Degenerate(s.node)
           THEN Append(paths, [nodeSequence |-> Ancestry(s.node), cost |-> s.cost])
           ELSE paths

-------------------------------------------------------------------------------
ASSUME QueriesAssumption ==
  \A q \in Queries :
    q.truth \in BOOLEAN /\ q.maxTicks \in Nat /\ IsFiniteSet(Tokens(q.tree))

(* A query is a tree: its tokens are numbered from 0, one of them is the   *)
(* root, none is below itself, and its quantifiers are tokens.             *)
ASSUME TreesAssumption ==
  \A q \in Queries :
    LET t == q.tree
    IN  /\ Tokens(t) = 0 .. Cardinality(Tokens(t)) - 1
        /\ TREE_ROOT \notin Tokens(t)
        /\ \E i \in Tokens(t) : t.governor[i] = TREE_ROOT
        /\ \A i \in Tokens(t) : /\ t.governor[i] \in Tokens(t) \cup {TREE_ROOT}
                               /\ t.governor[i] \notin DeleteMask(t, i)
        /\ t.word \in [Tokens(t) -> Range(t.word)]
        /\ t.quantifiers \in Seq(Range(t.quantifiers))
        /\ \A m \in Range(t.quantifiers) : m.token \in Tokens(t)

(* The vocabulary is that of the graph.                                    *)
ASSUME GraphsAssumption ==
  \A q \in Queries :
    /\ \A i \in Tokens(q.tree) : q.tree.word[i] \in DOMAIN q.graph
    /\ \A w \in DOMAIN q.graph :
         /\ q.graph[w] \in Seq(Range(q.graph[w]))
         /\ \A e \in Range(q.graph[w]) : e.source \in DOMAIN q.graph

ASSUME MemoryAssumption == SEARCH_CYCLE_MEMORY \in Nat

ASSUME LimitsAssumption ==
  MAX_BRANCHOUT \in Nat /\ MaxDependents \in Nat /\ MaxFringe \in Nat \ {0}

Init == /\ query \in Queries
        /\ pc = "begin"
        /\ fringe = {}
        /\ history = <<>> /\ historySize = 0 /\ ticks = 0
        /\ memory = [i \in 0 .. SEARCH_CYCLE_MEMORY - 1 |-> Blank] /\ memorySize = 0
        /\ fullMemory = {}
        /\ paths = <<>> /\ totalTicks = 0

(* "Max number of ticks is too large": an empty response.                  *)
Refuse == /\ pc = "begin" /\ query.maxTicks >= TickLimit
          /\ pc' = "done"
          /\ UNCHANGED <<query, fringe, history, historySize, ticks, memory,
                         memorySize, fullMemory, paths, totalTicks>>

(* Enqueue the first element; it is also the first of the history.         *)
Begin == /\ pc = "begin" /\ query.maxTicks < TickLimit
         /\ pc' = "search"
         /\ fringe' = {Scored(Start, 0, <<"start", 0>>)}
         /\ history' = [i \in {0} |-> Start] /\ historySize' = 1
         /\ UNCHANGED <<query, ticks, memory, memorySize, fullMemory, paths, totalTicks>>

(* KNHeap::deleteMin: any element of least cost.                           *)
Popped == {s \in fringe : \A u \in fringe : s.cost <= u.cost}

(* Mutant: one tick too many.                                             *)
SearchingOnceMore == /\ ticks <= query.maxTicks
                     /\ fringe # {}
                     /\ Cardinality(fringe) <= MaxFringe

(* Mutant: the size of the fringe is not checked.                         *)
SearchingUnbounded == ticks < query.maxTicks /\ fringe # {}

Searching == /\ ticks < query.maxTicks
             /\ fringe # {}
             /\ Cardinality(fringe) <= MaxFringe

(* One iteration of the search loop.                                       *)
Tick(s) ==
  /\ pc = "search" /\ Searching /\ s \in Popped
  /\ IF SEARCH_FULL_MEMORY
     THEN /\ <<s.node.factHash, s.node.index>> \notin fullMemory
          /\ fullMemory' = fullMemory \cup {<<s.node.factHash, s.node.index>>}
     ELSE UNCHANGED fullMemory
  /\ IF CycleChecked
     THEN memory' = MemoryAfter(s.node) /\ memorySize' = MemorySizeAfter(memory')
     ELSE UNCHANGED <<memory, memorySize>>
  /\ RegisterVisited(s)
  /\ history' = [i \in 0 .. historySize |-> IF i = historySize THEN s.node ELSE history[i]]
  /\ historySize' = historySize + 1
  /\ ticks' = ticks + 1
  /\ fringe' = (fringe \ {s}) \cup Pushed(s, historySize)
  /\ UNCHANGED <<query, pc, totalTicks>>

(* Mutant: a fact is dropped even if it was visited at another token.     *)
SkipVisitedFact(s) ==
  /\ pc = "search" /\ Searching /\ s \in Popped
  /\ SEARCH_FULL_MEMORY /\ \E f \in fullMemory : f[1] = s.node.factHash
  /\ fringe' = fringe \ {s}
  /\ UNCHANGED <<query, pc, history, historySize, ticks, memory, memorySize,
                 fullMemory, paths, totalTicks>>

(* Mutant: a duplicate visit is counted.                                  *)
SkipVisitedCounting(s) ==
  /\ pc = "search" /\ Searching /\ s \in Popped
  /\ SEARCH_FULL_MEMORY /\ <<s.node.factHash, s.node.index>> \in fullMemory
  /\ fringe' = fringe \ {s}
  /\ ticks' = ticks + 1
  /\ UNCHANGED <<query, pc, history, historySize, memory, memorySize,
                 fullMemory, paths, totalTicks>>

(* Mutant: a duplicate visit is passed over and stays on the heap.        *)
SkipVisitedInPlace(s) ==
  /\ pc = "search" /\ Searching /\ s \in Popped
  /\ SEARCH_FULL_MEMORY /\ <<s.node.factHash, s.node.index>> \in fullMemory
  /\ UNCHANGED vars

(* SEARCH_FULL_MEMORY: a duplicate visit is dropped before it is counted.  *)
SkipVisited(s) ==
  /\ pc = "search" /\ Searching /\ s \in Popped
  /\ SEARCH_FULL_MEMORY /\ <<s.node.factHash, s.node.index>> \in fullMemory
  /\ fringe' = fringe \ {s}
  /\ UNCHANGED <<query, pc, history, historySize, ticks, memory, memorySize,
                 fullMemory, paths, totalTicks>>

EndSearch ==
  /\ pc = "search" /\ ~Searching
  /\ totalTicks' = ticks
  /\ pc' = IF query.checkFringe /\ paths = <<>> THEN "fringe" ELSE "done"
  /\ UNCHANGED <<query, fringe, history, historySize, ticks, memory, memorySize,
                 fullMemory, paths>>

(* Check the fringe for known facts.                                       *)
CheckFringe(s) ==
  /\ pc = "fringe" /\ s \in Popped
  /\ fringe' = fringe \ {s}
  /\ RegisterVisited(s)
  /\ UNCHANGED <<query, pc, history, historySize, ticks, memory, memorySize,
                 fullMemory, totalTicks>>

Return ==
  /\ pc = "fringe" /\ fringe = {}
  /\ pc' = "done"
  /\ UNCHANGED <<query, fringe, history, historySize, ticks, memory, memorySize,
                 fullMemory, paths, totalTicks>>

Next == \/ Refuse \/ Begin \/ EndSearch \/ Return
        \/ \E s \in fringe : Tick(s) \/ SkipVisited(s) \/ CheckFringe(s)

Spec == Init /\ [][Next]_vars

(* The call is a plain sequential function: it keeps taking steps.         *)
FairSpec == Spec /\ WF_vars(Next)

-------------------------------------------------------------------------------
(* Properties                                                              *)

Visited == 1 .. historySize - 1    \* the popped nodes: history[0] is Start

Parent(n) == history[n.backpointer]

(* How the fact a node states (the premise) bears on its parent's (the     *)
(* conclusion) once their transition is taken at its word.                 *)
Respects(rel, premise, conclusion) ==
  CASE rel = "EQUIVALENT"   -> premise = conclusion
    [] rel = "FORWARD"      -> premise => conclusion
    [] rel = "REVERSE"      -> conclusion => premise
    [] rel = "NEGATION"     -> premise # conclusion
    [] rel = "ALTERNATION"  -> ~(premise /\ conclusion)
    [] rel = "COVER"        -> premise \/ conclusion
    [] rel = "INDEPENDENCE" -> TRUE
    [] rel = "NONE"         -> premise = conclusion

(* A world gives every fact visited a truth value that respects the        *)
(* transitions taken.                                                      *)
World(v) == \A h \in Visited : Respects(history[h].transition, v[h], v[history[h].backpointer])

Node(n) ==
  DOMAIN n = DOMAIN Blank /\ n.truth \in BOOLEAN /\ n.backpointer \in Nat

(* Types, and the asserts on historySize and on backpointers: the history  *)
(* holds the start and one node per tick, which fits the maxTicks + 2      *)
(* nodes allocated, and every node points to an older entry.               *)
TypeOK ==
  /\ query \in Queries
  /\ pc \in {"begin", "search", "fringe", "done"}
  /\ ticks \in 0 .. query.maxTicks /\ (pc = "begin" => ticks = 0)
  /\ totalTicks = (IF pc \in {"fringe", "done"} THEN ticks ELSE 0)
  /\ historySize = (IF history = <<>> THEN 0 ELSE ticks + 1)
  /\ DOMAIN history = 0 .. historySize - 1
  /\ \A i \in DOMAIN history :
       /\ Node(history[i])
       /\ history[i].backpointer < (IF i = 0 THEN 1 ELSE i)
  /\ \A s \in fringe : Node(s.node) /\ s.node.backpointer \in DOMAIN history

(* Every path of a response starts at a known true fact of at least two    *)
(* words, reported once, and leads back to the query one step at a time.   *)
MatchesSound ==
  /\ \A a, b \in DOMAIN paths :
       paths[a].nodeSequence[1].factHash = paths[b].nodeSequence[1].factHash => a = b
  /\ \A a \in DOMAIN paths :
       LET path == paths[a].nodeSequence
       IN  /\ path[1].truth /\ path[1].factHash \in query.kb
           /\ Cardinality(Tokens(tree) \ path[1].deleted) >= 2
           /\ Last(path) = Start
           /\ \A k \in 1 .. Len(path) - 1 :
                path[k + 1] = IF path[k].backpointer = 0 THEN Start ELSE Parent(path[k])

(* Under strict costs the truth value of a node settles the query, in      *)
(* every world: if the fact visited, or waiting in the fringe, has the     *)
(* truth value that the search gave it, the query has the one assumed.     *)
TruthSound ==
  query.bad = Infinity =>
    \A v \in [DOMAIN history -> BOOLEAN] :
      World(v) =>
        /\ \A h \in Visited : v[h] = history[h].truth => v[0] = query.truth
        /\ \A s \in fringe :
             Respects(s.node.transition, s.node.truth, v[s.node.backpointer])
               => v[0] = query.truth

(* The same of the paths returned: the values that the query can have if   *)
(* the premise is true, one step of the path after the other.              *)
Consequences(path) ==
  LET possible[k \in DOMAIN path] ==
        IF k = 1 THEN {TRUE}
        ELSE LET before == possible[k - 1]
             IN  {c \in BOOLEAN : \E p \in before : Respects(path[k - 1].transition, p, c)}
  IN  possible[Len(path)]

PremiseProves ==
  query.bad = Infinity =>
    \A a \in DOMAIN paths : Consequences(paths[a].nodeSequence) \subseteq {query.truth}

(* The children the loop considers for history[h], those that the cycle    *)
(* check throws away included.                                             *)
Children(n, h) ==
  {Mutation(n, h, EdgesInto(n)[k]) : k \in EdgesTaken(n)}
  \cup {Deletion(n, h, d) : d \in DependentsDeleted(n)}
  \cup IndexMoves(n, h)

Successors(h) == Children(history[h], h)

(* When the fringe runs dry everything reachable has been visited: what    *)
(* the cycle check throws away equals a node the search goes through.      *)
Exhaustive ==
  pc = "search" /\ fringe = {} =>
    \A h \in Visited : \A c \in Successors(h) :
      \E j \in DOMAIN history : SameNode(c, history[j])

(* With SEARCH_FULL_MEMORY: the same, up to the fact and the token.        *)
ExhaustiveByFact ==
  pc = "search" /\ fringe = {} =>
    \A h \in Visited : \A c \in Successors(h) :
      \E j \in Visited : /\ history[j].factHash = c.factHash
                         /\ history[j].index = c.index

(* A search that returns with nothing left on the fringe has reported      *)
(* every known fact one step from a visited node, the timed-out search     *)
(* that only checks its fringe included.                                   *)
NothingMissed ==
  pc = "done" /\ fringe = {} =>
    \A h \in Visited : \A c \in Successors(h) :
      c.truth /\ c.factHash \in query.kb /\ Cardinality(Tokens(tree) \ c.deleted) >= 2
        => \E a \in DOMAIN paths : paths[a].nodeSequence[1].factHash = c.factHash

(* No mutation goes back to one of the ancestors in its cycle memory.      *)
Ancestors(n, depth) ==
  LET up[k \in 0 .. depth] ==
        IF k = 0 THEN <<n>>
        ELSE LET below == up[k - 1]
             IN  IF Last(below).backpointer = 0 THEN below
                 ELSE Append(below, Parent(Last(below)))
  IN  Tail(up[depth])

Mutated(n) == n.transition # "NONE" /\ n.deleted = Parent(n).deleted

NoShortCycle ==
  \A h \in Visited :
    Mutated(history[h]) =>
      \A a \in Range(Tail(Ancestors(history[h], SEARCH_CYCLE_MEMORY + 1))) :
        ~SameNode(history[h], a)

(* The hash of a fact is exact if it is the one Tree::hash gives that fact.  *)
Exact(n) == n.factHash = HashOfFact(tree, n.words, n.deleted, n.markings)

(* A step is plain if the parent's word and governor are those of the fact *)
(* it states and the words that the update takes from the tree are too; no *)
(* quantifier is deleted, and nothing below the token deleted was before.  *)
AsInTree(n, d) == n.words[d] = tree.word[d] \/ tree.relation[d] = "op"

PlainStep(n, parent) ==
  LET deleted == n.deleted \ parent.deleted
  IN  /\ parent.token.word = parent.words[parent.index]
      /\ n.words # parent.words =>
           /\ parent.governor = GovernorWord(tree, parent.words, parent.index)
           /\ \A d \in Tokens(tree) : tree.governor[d] = parent.index =>
                                     d \notin parent.deleted /\ AsInTree(parent, d)
      /\ \A d \in deleted : ~IsQuantifier(tree, d) /\ parent.words[d] = tree.word[d]
      /\ \A d \in parent.deleted : tree.governor[d] \notin deleted

(* The incremental hash updates are exact as long as every step is plain.  *)
HashExactIfPlain ==
  \A h \in Visited :
    LET chain == Ancestors(history[h], historySize)
        path  == <<history[h]>> \o chain
    IN  (\A k \in 1 .. Len(chain) : PlainStep(path[k], path[k + 1])) => Exact(history[h])

(* The fringe outgrows the limit of dequeue() by one expansion at most.   *)
FringeBounded ==
  Cardinality(fringe) <= MaxFringe + MAX_BRANCHOUT + MaxDependents

(* The call returns.                                                       *)
Terminates == <>(pc = "done")

-------------------------------------------------------------------------------
(* What the documentation says                                             *)

(* "returning the new hash as computed from the old hash and the deletion  *)
(* mask": the hash of every visited fact is that of the fact.              *)
FactHashExact == \A h \in Visited : Exact(history[h])
===============================================================================
