# NaturalLI in TLA+

NaturalLI decides whether a hypothesis follows from premises by natural logic.
It searches backwards from the hypothesis: it replaces words along the edges of
a lexical graph, deletes dependents of the parse tree, and looks up each fact
it meets among the premises. This directory models that search, the natural
logic under it, the containers it runs on, the files and trees it is given, the
soft alignments that guide it, the bridge to the Java annotator and the front
ends; TLC checks small instances and TLAPS proves twenty-nine theorems for every
instance.

Paths below are relative to the repository's `src/` directory of C++ and Java
sources. The models describe the default build of `configure.ac`
(`MAX_FACT_LENGTH` 255, `MAX_QUERY_LENGTH` 39, `MAX_QUANTIFIER_COUNT` 6,
`SEARCH_CYCLE_MEMORY` 3, `SEARCH_FULL_MEMORY` 0, `MAX_FUZZY_MATCHES` 0,
`MAX_BRANCHOUT` 100, `VOCABULARY_ENTROPY` 24), and `SEARCH_FULL_MEMORY` 1 where
a run says so. `Alignment` also models the scores of search nodes, which exist
only if `MAX_FUZZY_MATCHES` is not 0.

## Inventory

| Component | Source | State | Operations | Modules |
|---|---|---|---|---|
| Natural logic tables | `SynSearch.h` 46-75, `SynSearch.cc` 1219-1542 | none | lexical relation of an edge, `project`, `reverseTransition`, `createStrictCosts`, `mutationCost`, `insertionCost` | `NatLog`, `Projection` |
| Dependency tree | `SynSearch.h`, `SynSearch.cc` 57-767 | words, governors, relations, quantifiers and a cache of their scopes (fixed once parsed) | the constructor from CoNLL lines, navigation, delete masks, topological order, `projectLexicalRelation`, `hash`, `updateHashFromMutation`, `updateHashFromDeletions` | `DepTree`, `Conll` |
| Search | `SynSearchSingleThreaded.cc` | heap, history, cycle or full memory, results, ticks | start, tick (mutate, delete, move), skip, end, fringe check | `SynSearch` |
| Soft alignments | `SynSearch.cc` 770-1178, `SynSearchSingleThreaded.cc` 253-331 | alignments, tokens done with; the score of a node | `alignToPremise` (twelve passes), `score`, `printFeatures`, `updateScore` | `Alignment` |
| Priority queue | `knheap/knheap.h` | insertion heap, delete buffers, levels of loser trees | `insert`, `deleteMin`, and all they call | `BinaryHeap`, `LoserTree`, `KNHeap`, `PriorityQueue` |
| B-tree | `btree.h` | nodes, root, rightmost leaf, size | insertion with and without a hint, three erasures, iteration, searches, copy, clear | `BTreeNode`, `BTree`, `SortedSet` |
| Mutation graph | `Graph.cc` | arrays of edges, words, deletions not allowed | `readGraph`, `incomingEdgesFast`, `containsDeletion` | `Graph` |
| Compressed input | `GZip.cc` | two buffers, the inflate stream | `hasNext`, `next` | `GZip` |
| Knowledge base | `HashTree.cc`, `WriteKB.cc`, `FactDB.cc` | a pipe, a chunk, a file, a set of hashes | hash trees, write chunks, read chunks | `KnowledgeBase` |
| Java bridge | `JavaBridge.cc`, `CBridge.java` | mutex, two pipes, local counters of a call, what the child has to print | lock, write mode, write sentence, read, unlock; child: read, print | `JavaBridge`, `Annotator` |
| Front ends | `NaturalLIIO.cc`, `NaturalLIStandalone.cc`, `NaturalLISearch.cc` | the lines of an example, costs and options, failure count, socket buffer | read a line, take a directive, annotate, search twice, judge, print | `FrontEnd` |
| Sentence processing | `ProcessPremise.java`, `ProcessQuery.java`, `QRewrite.java`, `WSD.java` | none | sentence to trees | only its effect on the bridge |
| Featurizer | `NaturalLIFeaturize.cc` | none | align two trees, print the counts | the counts: `Alignment` |
| Entailment classifiers, old search, text output, generated tables | `entail/`, `Search.cc`, `Utils.cc`, `Makefile.am` | | | not modelled |

How they interact: the graph and the knowledge base are read once, through the
compressed reader and into B-trees. A front end reads an example, calls the
bridge once for each premise and once for the query (each REPL and each
connection is a thread, and the threads share one Java child), builds trees
from the CoNLL lines it gets back, puts the hashes of the premises' trees into
a B-tree, aligns the query to the premises, and calls `SynSearch` twice,
assuming the query true and then false. The search keeps its fringe in a
`KNHeap`, calls the tables for the cost and the truth value of every step, and
the tree for the hash. The better of the two searches is the verdict.

What is hard, and what makes it correct:

* the tables are written out case by case. They are right if a relation still
  holds after it is carried through the quantifiers in scope, and if a step with
  a finite strict cost forces the truth value the search goes on with;
* the search runs over a mutable history with backpointers, two kinds of
  duplicate checks and three limits. It is right if what it reports is proved by
  the steps to it, and if nothing within its limits is missed;
* fact hashes, and the scores of alignments, are kept incrementally, from words
  and marks that may have changed since. A stale word makes a wrong hash, and a
  premise is silently missed;
* the heap moves elements between a binary heap, buffers and loser trees that
  rely on each other's order; the B-tree splits, merges and rebalances under
  the iterators it returns. They are right if what is observed is a priority
  queue and a set;
* two buffers, a block structure and a trailer lie under a row of the graph
  file, and chunks under a hash of the knowledge base. Reading is right if no
  place where something ends changes what is read;
* the constructor of a tree fills fixed arrays and narrow bit fields line by
  line from variables that outlive the line;
* the bridge's framing depends on counting newlines, and a response that ends
  differently shifts or blocks every later call;
* three reading loops share one input format but not one implementation, and
  they meet lines that do not fit, broken connections, and sentences that
  cannot be read.

`PROJECT.json` lists each hazard at its line with the properties that look at
it.

## Modules

`NatLog` holds the tables. A cost is a natural number or `Infinity`; strict
costs are those of `createStrictCosts` with the arguments as parameters.

`Projection` checks `NatLog` against sets. A step passes two denotations through
any function of the class that a quantifier's marker names (monotone, additive,
multiplicative and their antitone duals), next to the relation that
`project()` computes. `ProjectionSound` says the relation holds of the results,
`ProjectionTight` that no stronger one would, `TransitionSound` that the
backwards automaton and the strict costs let through exactly the inferences
that are valid.

`DepTree` is the tree. A hash is the set of the things XORed into it, so that
XOR is symmetric difference: collisions are left out, but cancellation (two
equal quantifiers, an edge taken out that was never there) is as in the code.
A delete mask is a set of tokens, which is faithful up to 32 of them (the code
shifts in 32 bits). `HashOfFact` is the reference: the hash of a fact computed
from its words; the code has only the incremental updates.

`SynSearch` is one call of `SynSearch()`. `Begin` makes the start node;
`Tick` is one round of `searchLoop`: pop a node of least cost, enter it in the
history, look it up, refresh the cycle memory (stale entries of the array
included), push mutations, deletions and index moves; `SkipVisited` drops a
duplicate before it is counted (full memory); `EndSearch`, `CheckFringe` and
`Return` are the end of the call; `Refuse` is the check of `maxTicks`. The heap
is a set of pushes, each a node with its cost and its `step`, and any push of
least cost may be popped. `step` says which edge, deletion or index move made
the push; the code has no such field, and it only tells two pushes of equal nodes
apart. A node has one field that the code has not, `words`, the words of the
fact it stands for: no action reads it except to carry it along, the hash
properties compare with it. The fields `costThreshold` and `stopWhenResultFound`
of the options are absent because nothing reads them. Feature vectors are left
out. That the heap gives back what was pushed, once and in order, is what
`PriorityQueue` promises, and the sets of hashes are what `SortedSet` promises.

`Alignment` is `alignToPremise` and the search nodes that carry a score. Each of
the ten matching passes is one action `Pass`, which goes over the tokens of the
hypothesis (`MatchToken`) as the macro `ALIGN_MATCH_LOOP` does; `Finish` is the constrained match, the unaligned
words and the start node. Reads of `premiseForHypothesis` before and behind the
array find any value (`stray`). Words are numbers, because a target is kept in
`VOCABULARY_ENTROPY` bits. A score is the counts that the code weighs and adds,
so `score()` and `printFeatures()` are one operator, and `updateScore()` changes
the counts. `Mutate`, `MutateQuantifier` and `Delete` are the steps of the
search that touch a score; the order in which they visit tokens is that of
`SynSearch` in the code and any order here.

`BinaryHeap`, `LoserTree` and `KNHeap` are `knheap.h`. A segment is the
sequence of what is left of it, and the sentinel behind it is its end; a
buffer is the sequence from its min pointer on. The array, the tree of
winners and losers, the stack of free leaves, doubling and compaction, and the
merges of two, three and four sequences are as in the code. The code's copies
of one merge are one operator with a parameter: `multiMergeUnrolled3` to `10`
unroll the same loop for a number of levels, of which the runs reach those up to
5, and the three merges of `emptyInsertHeap` are one.
`PriorityQueue` is the promise: `deleteMin` takes an element of least key, each
element once. Values are opaque.

`BTreeNode` and `BTree` are `btree.h` as a set: nodes with addresses, parents
and positions, the root that is a leaf or a header with the size and the
rightmost leaf, `rebalance_or_split`, `try_merge_or_rebalance`, `try_shrink`,
iterators and the searches. Swapping values one place at a time is an operation
on the sequence of a node's values; assertions that fail set `broken`.
`SortedSet` is the promise.

`GZip` is the reader of compressed files. A file is the sequence of what its
blocks decompress to, and whether it was cut off; a row is one character that
stands for it, with padding to its length. `inflate` delivers as much as fits;
it ends the stream in the call that delivers the last character, unless the
trailer is in a later block. A line that fills the buffer, which `next()` writes
past the end of `lastLine`, ends in `undefined`. `Graph` reads the three files into arrays that grow,
sorts them, and ends in an exit on a row that it refuses. `KnowledgeBase` is
`hash_tree` and `write_kb` at the two ends of a pipe, and then `readKB`.

`Conll` is the constructor of `Tree`, one action per line, with the variables
of the constructor as state (`Unwritten` before the first write), bit fields
that truncate, and the cache of quantifiers in scope with its end marks. What
it builds is a tree of `DepTree`, and its cache is compared with `InScope` and
`Outermost` of `DepTree`, which all other modules use. Where the code writes
behind its arrays or reads a variable it never wrote, `parsing` is `undefined`
and the model stops.

`JavaBridge` is `annotate()` for several threads with the loop of
`CBridge.java`. A line with its newline is one symbol of a pipe, and so is the
newline of a blank line.
`Annotator` is what `JavaBridge.h` promises; `JavaBridge` implements it,
with `asked` as the refinement mapping, if no sentence fails.

`FrontEnd` is the two `repl()`s and `handleConnection()`, from lines to
responses. A line is its kind, label and text; what the annotator returns is
`Answer` of `Annotator`, and what a search may return is bounded by what
`SynSearch` is shown to keep (`TruthSound`): with hard costs and true premises
no proof of what is false. A confidence is a rank, with the places where the
code's floating point makes a difference as parameters: from `WeakFrom` on
(cost 3.9) an `UNK` passes, from `LostFrom` on (about 37) adding the confidence
to 0.5 gives 0.5, from `OverflowFrom` on (about 88.7) the confidence is 0.
An uninitialised `expectUnknown` of a connection is either value. A line cut
short by the buffer keeps its name; a connection that breaks in the middle of a
line, which leaves a mixture of two lines in the buffer, is not modelled.
The process ends where the code throws or dereferences the first element
of an empty vector (`Crash`).

`MCSynSearch`, `MCJavaBridge`, `MCFrontEnd`, `MCKNHeap`, `MCBTree`,
`MCContainers`, `MCAlignment` and `MCLoading` give the instances.
`MCContainers` puts the two containers side by side, and `MCLoading` the graph,
the trees, the knowledge base and the alignments: a behaviour is one of a single
part and leaves the others alone.
`SynSearchProofs`, `SynSearchCoverage`, `ProjectionProofs`, `JavaBridgeProofs`,
`GraphProofs`, `LoadingProofs` and `FrontEndProofs` hold the theorems, and
`Foundations` the lemmas they share. Operators whose comment begins with `Mutant` are plausible errors in the definition below them; none is used by a
specification. Each shows that some property would notice that error.

## Runs

| Run | Shows | Bounds, and why they are enough |
|---|---|---|
| `Search` | on calls of the unit tests, calls that time out and calls that run dry, for every order of ties: types, asserted ticks and paths, soundness of paths and truth values, completeness, cycle checks, hashes along plain paths | sentences of 2 to 5 words, one or two quantifiers of five kinds, every edge type that `EdgeToLexicalFunction` distinguishes by relation, cyclic graphs; 8 ticks where ties abound, 60 or 1000 where the search ends by itself. A step depends on one node, its tree and its cycle memory of 3, so paths of up to 8 steps meet every case of it |
| `SearchFullMemory` | the other duplicate check, and the other ticks that the tests assert for it | the calls above that run dry |
| `SearchLimits` | the fringe's bound and termination | limits of 4 nodes, 2 edges, 1 dependent and 40 ticks, so that each is reached and one call is refused |
| `MCProjection` | the tables | a universe of two elements: each relation is told from the others there; two quantifiers deep, and the result of one is again a relation that the next starts from |
| `Bridge` | with healthy sentences the promise is kept and every call returns; with others the responses stay apart | two threads, two sentences each, trees of 1 to 3 lines with a limit of 4, so that a tree is too long; failures before, between and behind trees, an empty tree, a premise without trees. Where a sentence is not healthy the promise asks nothing more |
| `FrontEnd` | examples, verdicts, labels | five texts, sessions of up to two examples with every label, ends with and without a blank line, two kinds of directives that change verdicts, a line and a tree too long, a premise and a query that cannot be read, a bare label, a connection that breaks; a connection takes 3 lines; costs in each of the ranges below |
| `Containers` | the heap is a priority queue, the B-tree a set | heaps with buffers and levels of 1 to 8, 4 to 32 leaves and 2 or 3 levels, up to 40 elements in five streams, with up to 3 turns between insertion and deletion, so that every level overflows, every tree doubles and is compacted. B-trees with 3 and 4 values per node: any operations on 5 keys, and 24 keys (three levels) in and out in 16 pairs of orders |
| `Loading` | the graph, the trees, the knowledge base are what the files say; alignments | a buffer of 4 characters and lines that fill it; every way to cut a file at most twice, to break it off, and to put the trailer in a block of its own; capacities of 4. One quantifier with every pair of spans over five places, two with many, three with room for two. Chunks of 2 and up to 6 trees. All pairs of 40 short and of 17 longer sentences, those of `TestSynSearch.cc` included, each with up to 2 steps of a search if the tests align them: a step touches one alignment |
| `StaleGovernor` | *violated*: the hash of a fact is exact | two mutations |
| `BridgeStuck` | *violated*: every call returns | one failing sentence |
| `LongSpans` | *violated*: scopes are those declared, in every sentence that a tree has room for | 36 words, the arrays and bit fields of the code |
| `UnalignedCounted` | *violated*: a word left without a target is counted as one | the pairs of `Loading`, `INVALID_WORD` and the bits of the code |

What the passing runs show of the search deserves a word. `MatchesSound`,
`PremiseProves` and `TruthSound` say that an answer is justified by the steps
that lead to it *as the code records them*. Whether the fact found is the
premise depends on the hash, and `HashExactIfPlain` marks how far that goes:
the hash is exact as long as every step is *plain*, that is, the node's word and
governor are those of the fact, and neither deleted nor mutated dependents nor
a deleted quantifier take part (`PlainStep`). Outside of that `FactHashExact` fails, in five
ways; `StaleGovernor` shows one, and the finding in `PROJECT.json` names the
others:

1. an index move takes the governor's word from the query (`SynSearch.cc` 238);
2. for the root it reads a word beyond the tree's array (the same line);
3. edges of deleted dependents re-enter the hash (642);
4. a deleted quantifier stays in the hash (274);
5. quantifiers are mutated before their governors (`SynSearchSingleThreaded.cc`
   382), although `SynSearch.h` 632 asks for top-to-bottom.

In each case the search goes on with a hash of no fact and misses the premise.

Of the bridge: if a sentence fails, the child ends the response with two
newlines and the reader waits for three, with the mutex held, so every other
thread waits too. A premise that fails behind its first tree leaves that tree
in the caller's hands as if it were all.

Of the front ends: `NoCarryOver` holds for all input, so damage stays within an
example, but within it lines that do not fit are treated as follows. A line of
254 characters or more becomes the query and ends the input; a tree too long is
passed over, and if it was the query the last premise takes its place; the
257th line of a connection is dropped, and the 256th becomes the query; if a
connection breaks, its last line is taken again until there are 256. A query
that cannot be read is false with certainty, so it passes if `FALSE` is
expected. A premise without trees, and a label without text, end the process.
The comments of the README are comments in the REPLs only: a server takes the
line for a premise (`NaturalLIIO.cc` 940), so `ExamplesAnswered` does not claim
them of a connection. The exit status is the number of failures modulo 256
(`NaturalLIStandalone.cc` 45); no property is about it.

Of the containers: every path that the runs reach is right. The heap, the loser
trees and the buffers are in order after each call, each within itself and
among each other (`OrderRight`). The heap's count of elements, kept apart from
what it counts, agrees at every step (`SizesRight`), and none of the assertions
of `knheap.h` and `btree.h` fails.

Of what is loaded: `NothingLost` holds for every way to cut a file, and a file
that was broken off ends the program instead of passing for a shorter one. A
tree is what its lines declare (`TreeRight`, `ScopesRight`) on two conditions.
First, its lines are well formed: a quantifier is registered only at its ninth
column, and a marker the code does not know ("assuming flat", `SynSearch.cc`
325) leaves the one that an earlier line stored, or what was never written.
Second, every end of a span fits in the 5 bits of its field (`SynSearch.h`
375): in longer sentences, which `MAX_QUERY_LENGTH` admits, an end of 32 or
more is stored modulo 32 and the quantifier is lost to the words of its object
(`LongSpans`).

Of alignments: each keyphrase gets one, no word of the premise is used twice,
as many equal words are matched as there are, and words are left over on both
sides only if two or more are on each (`AlignmentRight`), whatever the reads
beyond `premiseForHypothesis` find; and the pairs of the tests come out as
asserted (`AlignsAsTested`). Three of the conditions do nothing: pass 3.1 looks for the
partners of words that have none, the branch of pass 3.2 for two words that
align is empty, and the third way to match in pass 2.3 asks for "of" at the
place of the word that is matched (`SynSearch.cc` 888). `updateScore()` keeps
the score of the tree while words are mutated under one truth value
(`ScoreTracksTree`); after a deletion, which names the governor instead of what
is deleted, or a change of truth or of a quantifier's marks, which change the
matches of other words, it does not. And a word without a partner is never
recognised as one, because `INVALID_WORD` has 25 bits and a target 24
(`UnalignedCounted`): with `VOCABULARY_ENTROPY` 25 that property holds. This
reaches the default build through `NaturalLIFeaturize`.

## Fairness

Only `SearchLimits` and the bridge use fairness. A call of the search is a
sequential function, so it keeps taking steps (`WF_vars(Next)`); whether it ends
is then a matter of its counters: with full memory a round need not count a
tick. The Java child and each thread are scheduled (`WF` each). A thread makes
finitely many calls, so a thread that waits for the mutex gets it once the
others are done: weak fairness is enough, and no fairness of `std::mutex` is
assumed. The counterexample of `BridgeStuck` is one under the same fairness.

## Proofs

Each theorem holds for every value of the constants that satisfies the named
assumptions of its modules. Those are `InfinityAssumption` (`Infinity` is not a
number), `UniverseAssumption` and `CountAssumption` (a finite, nonempty universe),
`QueriesAssumption` (a call assumes a Boolean truth value, has a number of ticks
and a finite tree), `TreesAssumption` (that tree is one: its tokens are numbered
from 0, it has a root, no token is below itself, quantifiers are tokens, as
the annotator's output is; the C++ takes governors as they come),
`GraphsAssumption` (its words and the sources of edges are of the graph's
vocabulary, which the code asserts), `LimitsAssumption` (limits are
numbers), `MemoryAssumption`, `ProgramsAssumption`,
`NoneAssumption` and `NewlineAssumption` (programs are sequences of sentences, a
short one has one tree of one line, a newline is not a line), `ChunkAssumption` and
`CorporaAssumption`, `BufferSizeAssumption`, `GraphAssumption`, `LinesAssumption`, `FilesAssumption`,
`ConllAssumption` and `ResponsesAssumption`, `PairsAssumption` and
`WordsAssumption` (a tree's tokens are numbered from 0, and words fit in the
`VOCABULARY_ENTROPY` bits that `tagged_word` has for them and are neither
`INVALID_WORD` nor what is left of it in those bits), `CostsAssumption` (costs are numbers, the three places where
confidence gives out come in their order, a search may find nothing),
`MaxFactsAssumption` and `SessionsAssumption`: the types of the inputs, and no
bound on their number or size. TLC evaluates each of them.

`Foundations` has what the proofs share. The induction theorems of the library
take an operator, which no installed prover instantiates. `WFMin` takes a
set instead; from it follow induction over sets of naturals, the existence of
greatest and least elements, and that a recursive function satisfies its equation
(`Unfolds`). So what the recursive functions of these modules compute is proved
for every input: the walk to the start, the ancestors of a node, a response as the
concatenation of its lines, the line that a reader makes of characters, the
quantifiers in scope from the nearest on, a pass over the tokens of a sentence.

**Search** (`SynSearchProofs`, `SynSearchCoverage`)

* `TypeCorrect`: `TypeOK` is inductive. It is more than typing: the history holds
  the start and one node per tick, and every node points to an older entry, so the
  walk to the start that rebuilds a path ends. The work is in `PushedChild`: every
  element pushed is a node whose backpointer is the entry just made.
* `TruthIsSound`: under strict costs, in every world that respects the transitions
  taken, the truth value of a node visited or waiting settles the query. It is
  inductive next to `TypeOK`: a node just popped was sound while it waited
  (`TruthTick`), and a child has a finite cost, so its transition is legal
  (`StepCostFinite`) and a legal step carries the truth value over
  (`LegalStepSound`). For visited nodes alone it is not inductive.
* `MatchesAreSound` and `PremisesProve`, from `PathsInv`. `LinksRight` says that
  every node but the start is one legal step away from its parent; links survive
  because the history only grows (`LinkedGrows`). `PathsRight` says of each path
  reported what `MatchesSound` does. The walk that builds a path is a recursive
  function over the history, so that it goes from parent to parent and ends in
  the start is by induction on the entry. `PremisesProve` then composes legal steps
  along the path.
* `SearchIsExhaustive` and `NothingIsMissed`, from `CycleInv`. A child that the
  cycle check throws away equals an entry of the array `memory`, and the array
  may hold entries that earlier iterations left. The invariant `Holds(memory)` says
  why that does no harm: each slot is blank or holds an entry of the history,
  stale ones included. So every child of a visited node has been visited or waits
  (`GoesEverywhere`), and it is settled, that is, reported if it is known, or
  waits (`NothingLeft`); with an empty fringe nothing waits. `NothingLeft`
  covers the timed-out search, whose fringe is checked without being visited.
* `FullMemoryIsExhaustive`: with full memory what is thrown away is a fact and a
  token that a visited node has (`RemembersFacts`).
* `NoShortCycles`: with `CycleInv`, that what `memory` holds after its refresh are
  the ancestors of the popped node as far as it has them, by induction on the slot.
  `NoCycles` speaks of the fringe too, because a child is checked when pushed and
  visited later, and of chains of parents as functions (`Climbs`), which a
  growing history leaves alone.
* `FringeStaysBounded` and `HashIsExactIfPlain`, from `NodesRight`: every node is
  well formed (its token is one of the tree, its word one of the graph, the root is not
  deleted) and is a child of the entry that its backpointer leads to. The fringe
  grows by what one expansion pushes, which is counted (`PushedFew`): the first few
  of a set of numbers are few (`FirstFew`), and there is one index move at most.
* `HashIsExactIfPlain` climbs from a node to the start along backpointers, which
  decrease (`ChainReached`), and comes back step by step (`PlainStepReaches`) with
  `PlainlyReached`: the hash is the XOR of the fact's edges and quantifiers, the
  current token is not deleted, and no quantifier is. `XorSplit`, by the parity
  of cardinalities, splits the XOR into the edges that a step touches and the rest:
  for a mutation the edge into the token and those out of it (`MutationHash`), for
  a deletion those of the mask (`DeletionHash`), which contains with a token
  everything below it and nothing else (`MaskIs`).

`SearchIsExhaustive`, `NothingIsMissed` and `NoShortCycles` assume
`~SEARCH_FULL_MEMORY`, and `FullMemoryIsExhaustive` assumes
`SEARCH_FULL_MEMORY`: the two builds of the code.

**Tables** (`ProjectionProofs`): `ProjectionIsSound`, `ProjectionIsTight` and
`TransitionIsSound`, for every universe; the run has two elements. The invariant
adds to `ProjectionSound` that `x` and `y` are denotations. Soundness goes marker
by marker and relation by relation through `UpExclusion` and `DownExclusion`.
Tightness needs functions that refute every stronger relation: the identity, the
complement and the two constants suffice (`Attained`).

**Bridge** (`JavaBridgeProofs`): `BridgeInv` says where in the response of its
own sentence the reader is (`Place`): waiting for it, behind a line of a tree, or
behind the last tree; and that what is still to be read is the rest of that
response, with at most one newline of an earlier, unhealthy response ahead of it
(`Leftover`). With it the invariants follow: `BridgeIsQuiescent` and
`CallsNeverMix`, which holds of failing sentences too. `BridgeKeepsPromise` is the
refinement: the initial states of the bridge are ones of `Annotator`, and each step
is the answer to a call or a stutter.

**Graph** (`GraphProofs`): `GraphIsWhole` and `EdgesInOrder`. Below the rows is a
reader of characters: its output holds the piece of the text that ends where the
stream has come to, and has an unread character unless the text is at its end
(`IsFilled`). `NextLineReads` concludes that what `next()` returns at a place where
a line begins is that line, wherever the text is cut. `GraphInv` has one part for
each pass over a file: the reader is behind some row and what has been taken are
the rows up to it (`CountedTo`, `KnownTo`, `ListedTo`, `DeletedTo`), if the file is
whole; a pass over a file that was broken off is never left. That the arrays of edges
never fill (`ArraysRight`) is one more part, and sorting them keeps their rows
(`SortedKeeps`).

**Trees** (`LoadingProofs`): `TreeIsRight` and `ScopesAreRight`. `ConllInv` says, of a
response whose lines are well formed and whose spans fit: while lines are read, the
tree is the one that the lines so far declare (`TreeOf`), so that each line adds
what it declares by itself (`FieldsRead`, `TreeAppend`); while the cache is filled,
the lists of the tokens so far are in it (`IsListed`), and writing the list
of the next token touches at most the place behind their marks (`SlotBounds`). The
theorem about the scopes then needs that a list is sorted by distance and complete
(`NearestFirstProperties`), and that its mark, if it has room for one, is the first value that
`foreachQuantifier` stops at (`ForeachReads`).

**Knowledge base** (`LoadingProofs`): `KnowledgeBaseIsWhole`. The invariant
`KBInv` counts the trees that were hashed and says where their hashes are now: in
the pipe, the chunk, the file or the set (`HashedUpTo`), and that a stage begins
when the one before has nothing left (`StagesRight`).

**Alignments** (`LoadingProofs`): `AlignmentIsRight` and `ScoreIsTracked`. `AlignInv`
says that after any number of passes the partners found so far are a matching of
keyphrases, one to one, with one alignment for each that records it (`IsFound`),
which adding a pair keeps (`AlignKeeps`). The first three passes pair equal words
only; after the third no word is left that has an equal left (`IsSettled`), so that
each word has all its occurrences paired with equals on one of the sides
(`BestAfterExact`). What follows only adds pairs (`Extends`), so it stays so. When
all passes are done, `EachAlignedOnce` and `BestFirst` follow by bijections: between
alignments with a target, partners, and the words of the premise they use
(`FoundSizes`). The score is three cardinalities, and a mutation moves at most one
alignment from one of the sets to another, by what `UpdateScore` adds and
subtracts (`ScoreFollows`).

**Front ends** (`FrontEndProofs`): `FrontInv` has four parts.

* The state (`StateRight`, which `FrontEndTypeCorrect` states as `TypeOK`).
* Every line of output is due (`AllDue`): `VerdictIsSound`, `CheapestDecidesGuess`
  and `PrefixAgrees`. The work is in the arithmetic of the confidences
  (`ConfidenceRight`): the best confidence that either search reports is that of
  its cheapest path, unless it overflows, and which search is better decides the
  guess.
* The example at hand is among the sentences between two places of the session
  with no blank line between them (`BlockRight`), of which the last is the line
  read last: `ExamplesNeverMix`, for all input.
* Of ordinary input (`OrderRight`), while a front end reads, every example that a
  blank line has closed is answered, and the example at hand is the open one
  (`Cut` of the lines so far); while it answers, what is answered and what is at
  hand are together what is due by then; at the end everything is answered. A
  connection that stops reading because its arrays are full has all of its
  example, because an open example only grows (`OpenGrows`) and that of ordinary
  input fits. With it: `EveryExampleIsAnswered`. `Cut` is a recursive function
  over the places of a session; that it exists is proved by induction
  (`CutsExist`).

Only model-checked:

* liveness under fairness, which is out of the prover's reach: `Terminates`,
  `HealthyCallsReturn`;
* `TestExpectations` and `AlignsAsTested`, what the unit tests assert of their own
  inputs;
* the containers and their refinements (`OrderRight`, `SizesRight`, `Implements`,
  `Verified`, `ReadsRight`, `ImplementsSet`).

## Not modelled

* Trees with more lines than `MAX_QUERY_LENGTH`, whose rest is written behind the
  arrays (`Conll` ends there), and delete masks of more than 32 tokens, whose
  shifts are undefined.
* Hash collisions, and the 55 bits of a hash in the full memory.
* A dead Java child: `read()` returning 0 or -1 loops or blocks with the mutex
  held, the state `BridgeStuck` ends in. Forking it.
* Accepting connections, and the destruction of graph and bridge while detached
  threads run (`NaturalLIStandalone.cc` 42).
* `BidirectionalGraph`, which no program of the build uses; its constructor
  (`Graph.cc` 131-134) indexes its arrays by position. The mock graph of the
  tests.
* What a line of a graph file that fills the buffer does to the memory behind
  `lastLine` (`GZip.cc` 168): `Graph` ends in `undefined` there. Columns within a
  row.
* The byte that `populateQuantifiersInScope` clears 255 bytes behind the start of
  `valid`, an array of six, when nothing is left to list (`SynSearch.cc` 543).
* The multiset operations, statistics and dumps of `btree.h`.
* The alignment directive (`NaturalLIIO.cc` 132-197), the weights of a score, and
  the record of the closest alignment met
  (`SynSearchSingleThreaded.cc` 484-512).
* A quantifier reworded to one with the same marks, and mutated again when the
  search comes back to it (`SynSearchSingleThreaded.cc` 202): `SynSearch` does
  so, and no property forbids it.
* Soft guesses, feature vectors, `toString`, JSON; the entailment classifiers
  and the NLP library; `Search.cc`, which is not built.

Each is among the hazards or the components of `PROJECT.json`, or detail of one.

## Plan

Done, in this order: `NatLog` and `Projection`; `DepTree` and `SynSearch` with
their theorems; `Annotator` and `JavaBridge`; `FrontEnd`; the containers with
the abstract specifications that `SynSearch` takes them for; `GZip`, `Graph`,
`KnowledgeBase` and `Conll`; `Alignment`; the proofs above.

Next:

1. Proofs: that the heap's count agrees with what it counts.
2. An abstract search (visit facts, report known ones) that `SynSearch`
   implements, and the front ends as threads over the bridge, with the
   end-of-input race.
3. The alignment directive, and the search of `SynSearch` with scores.
