------------------------------- MODULE Alignment -------------------------------
(***************************************************************************)
(* Soft alignments: how close a hypothesis is to a premise                 *)
(* (Tree::alignToPremise, class AlignmentSimilarity), and how the search   *)
(* keeps that score (SynSearchSingleThreaded.cc, MAX_FUZZY_MATCHES > 0).   *)
(*                                                                         *)
(* Trees are those of DepTree, with a posTag for each token; the members   *)
(* of a pair are the arguments.  Words are numbers, as in the code,        *)
(* because an alignment keeps its target in VOCABULARY_ENTROPY bits.       *)
(*                                                                         *)
(* Pass 3.1 (SynSearch.cc 942-967) looks for the partners of words that    *)
(* are still unaligned.  They have none, so it aligns nothing.             *)
(***************************************************************************)
EXTENDS DepTree

CONSTANTS Pairs,              \* [hypothesis, premise, steps]: the calls, and how many
                              \* steps of a search keep the score up to date
          BE, WOF,            \* the words "be" and "of"
          INVALID_WORD,
          VOCABULARY_ENTROPY, \* the bits of a target
          SamePrefix,         \* the pairs of words whose glosses strncmp() calls equal
          NewWords, NewMarks  \* what the search puts in the place of a word, of marks

TargetValues == 2 ^ VOCABULARY_ENTROPY

(* The target of an alignment that has none.                               *)
NoTarget == INVALID_WORD % TargetValues

(* Tokens are numbered from 0.  A word is a target, and not the one that   *)
(* stands for none.                                                        *)
ASSUME PairsAssumption ==
  \A t \in {c.hypothesis : c \in Pairs} \cup {c.premise : c \in Pairs} :
    /\ Cardinality(Tokens(t)) \in Nat /\ t.word \in [0 .. Cardinality(Tokens(t)) - 1 -> Nat]
    /\ \A i \in Tokens(t) : t.word[i] < TargetValues /\ t.word[i] \notin {INVALID_WORD, NoTarget}

ASSUME WordsAssumption ==
  /\ TargetValues \in Nat \ {0} /\ INVALID_WORD \in Nat
  /\ INVALID_WORD \notin NewWords

VARIABLES pair,        \* the call
          pass,        \* the passes done: 11 if all are
          found,       \* premiseForHypothesis, the tokens done with, the alignments
          unaligned,   \* unalignedPremiseWords
          node         \* the search node: its score, and the fact that it stands for
alignVars == <<pair, pass, found, unaligned, node>>

None == -1

Aligned == pass = 11

IsContent(t, i) == t.posTag[i] \in {"n", "v", "j"}

Keyphrases(t) == {i \in Tokens(t) : IsContent(t, i) /\ t.word[i] # BE}

(* Tree::polarityAt                                                        *)
PolarityAt(t, marks, i) ==
  LET rel == ProjectLexicalRelation(t, i, marks, "FORWARD")
  IN  CASE rel = "FORWARD"      -> "UP"
        [] rel = "REVERSE"      -> "DOWN"
        [] rel = "INDEPENDENCE" -> "FLAT"
        [] OTHER                -> "INVALID"

Polarity(t, i) == PolarityAt(t, Markings(t), i)

(* An alignment_instance: the target is a bit field.                       *)
Instance(index, target, polarity) ==
  [index |-> index, target |-> target % TargetValues, targetPolarity |-> polarity]

-------------------------------------------------------------------------------
(* The passes.  A premise token may be aligned if it is a content word,    *)
(* and is done with if it is "be", once it has been looked at.             *)
hyp  == pair.hypothesis
prem == pair.premise

NoPairs == [of |-> [h \in Tokens(pair.hypothesis) |-> None],
            hyp |-> {}, prem |-> {}, alignments |-> <<>>]

(* Mutant: the premise's token can be aligned again.                       *)
AlignKeeping(f, h, p) ==
  [f EXCEPT !.of[h] = p, !.hyp = @ \cup {h},
            !.alignments = Append(@, Instance(h, prem.word[p], Polarity(prem, p)))]

(* Mutant: the target is the hypothesis' own word.                         *)
AlignToItself(f, h, p) ==
  [f EXCEPT !.of[h] = p, !.hyp = @ \cup {h}, !.prem = @ \cup {p},
            !.alignments = Append(@, Instance(h, hyp.word[h], Polarity(prem, p)))]

Align(f, h, p) ==
  [f EXCEPT !.of[h] = p, !.hyp = @ \cup {h}, !.prem = @ \cup {p},
            !.alignments = Append(@, Instance(h, prem.word[p], Polarity(prem, p)))]

(* What the passes ask of two tokens.  The read of premiseForHypothesis    *)
(* before its first and behind its last element finds any value, stray.    *)
Partner(f, h, stray) == IF h \in Tokens(hyp) THEN f.of[h] ELSE stray

WordAt(t, i) == IF i \in Tokens(t) THEN t.word[i] ELSE INVALID_WORD

Last2(t, i, n) == i < Cardinality(Tokens(t)) - n

Matching(k, stray, f, h, p) ==
  LET sameWord == prem.word[p] = hyp.word[h]
      sameTag  == prem.posTag[p] = hyp.posTag[h]
      at(d)    == Partner(f, h + d, stray)
  IN  \/ k = 1 /\ sameWord /\ sameTag /\ Polarity(prem, p) = Polarity(hyp, h)     \* 1.1
      \/ k = 2 /\ sameWord /\ sameTag                                            \* 1.2
      \/ k = 3 /\ sameWord                                                       \* 1.3
      \/ k = 4 /\ (sameWord \/ {prem.word[p], hyp.word[h]} \in SamePrefix)        \* 1.4
      \/ k = 5 /\ Last2(hyp, h, 1) /\ Last2(prem, p, 1)                          \* 2.1
               /\ at(1) = p + 1 /\ sameTag
      \/ k = 6 /\ h > 0 /\ p > 0 /\ at(-1) = p - 1 /\ sameTag                     \* 2.2
      \/ k = 7 /\ Last2(hyp, h, 2) /\ WordAt(hyp, h - 1) = WOF                   \* 2.3
               /\ \/ p > 0 /\ at(-2) = p - 1
                  \/ Last2(prem, p, 1) /\ at(-2) = p + 1
                  \/ /\ Last2(prem, p, 2) /\ at(-2) = p - 2
                     /\ WordAt(prem, p - 2) = WOF
      \/ k = 8 /\ p > 1 /\ WordAt(prem, p - 1) = WOF                             \* 2.4
               /\ \/ h > 0 /\ at(-1) = p - 2
                  \/ Last2(prem, h, 1) /\ at(1) = p - 2
      \/ k = 9 /\ Last2(prem, p, 2) /\ WordAt(prem, p + 1) = WOF                 \* 2.5
               /\ Last2(hyp, h, 1) /\ at(1) = p + 2
      \/ k = 10 /\ Last2(prem, p, 2) /\ WordAt(prem, p + 1) = WOF                \* 2.6
                /\ Last2(hyp, h, 2) /\ WordAt(hyp, h + 1) = WOF
                /\ at(2) = p + 2

(* One round of the outer loop of ALIGN_MATCH_LOOP.                        *)
MatchToken(k, stray, f, h) ==
  LET open == {p \in Tokens(prem) \ f.prem : IsContent(prem, p)}
      ps   == {p \in open : prem.word[p] # BE /\ Matching(k, stray, f, h, p)}
      seen == {p \in open : \A q \in ps : p < q}
      g    == [f EXCEPT !.prem = @ \cup {p \in seen : prem.word[p] = BE}]
  IN  IF h \in f.hyp THEN f
      ELSE IF hyp.word[h] = BE THEN [f EXCEPT !.hyp = @ \cup {h}]
      ELSE IF ~IsContent(hyp, h) THEN f
      ELSE IF ps = {} THEN g
      ELSE Align(g, h, Min(ps))

MatchPass(k, stray, f) ==
  LET matched[n \in 0 .. Cardinality(Tokens(hyp))] ==
        IF n = 0 THEN f ELSE MatchToken(k, stray, matched[n - 1], n - 1)
  IN  matched[Cardinality(Tokens(hyp))]

Pass ==
  /\ pass < 10
  /\ \E stray \in {None} \cup Tokens(prem) :
       found' = MatchPass(pass + 1, stray, found)
  /\ pass' = pass + 1
  /\ UNCHANGED <<pair, unaligned, node>>

(* Pass 3.2: what is left is aligned if one side has one word left.  The   *)
(* branch for two is empty (SynSearch.cc 977-978).                         *)
Constrained(f) ==
  LET hs == Keyphrases(hyp) \ f.hyp
      ps == Keyphrases(prem) \ f.prem
  IN  IF hs # {} /\ ps # {} /\ (Cardinality(hs) = 1 \/ Cardinality(ps) = 1)
      THEN Align(f, Min(hs), Min(ps)) ELSE f

(* Pass 4: what is left after that gets an alignment with no target.       *)
LeaveToken(f, h) ==
  IF h \in Keyphrases(hyp) \ f.hyp
  THEN [f EXCEPT !.hyp = @ \cup {h},
                 !.alignments = Append(@, Instance(h, INVALID_WORD, Polarity(hyp, h)))]
  ELSE f

Unaligned(f) ==
  LET left[n \in 0 .. Cardinality(Tokens(hyp))] ==
        IF n = 0 THEN f ELSE LeaveToken(left[n - 1], n - 1)
  IN  left[Cardinality(Tokens(hyp))]

-------------------------------------------------------------------------------
(* The score is a weighted sum; only the counts are kept here.             *)
PolarityMatches(a, b, truth) ==
  (a = "UP" /\ b = "UP") \/ (IF truth THEN a = b ELSE a # b)

Matched(a, word, polarity, truth) ==
  word = a.target /\ PolarityMatches(polarity, a.targetPolarity, truth)

(* AlignmentSimilarity::score, of a tree with these words and marks.       *)
Score(t, alignments, premise, word, marks, truth) ==
  LET exact   == {i \in DOMAIN alignments :
                    Matched(alignments[i], word[alignments[i].index],
                            PolarityAt(t, marks, alignments[i].index), truth)}
      deleted == {i \in DOMAIN alignments \ exact : alignments[i].target = INVALID_WORD}
      inexact == DOMAIN alignments \ (exact \cup deleted)
  IN  [aligned      |-> Cardinality(exact),
       alignable    |-> Cardinality(exact \cup inexact),
       inexact      |-> Cardinality(inexact),
       unPremise    |-> premise,
       unConclusion |-> Cardinality(deleted)]

(* Mutant: an exact match that is lost still counts as aligned.            *)
UpdateScoreKeeping(score, alignments, i, old, new, oldPolarity, newPolarity, oldTruth, newTruth) ==
  LET mine == {a \in Range(alignments) : a.index = i}
  IN  IF \E a \in mine : ~Matched(a, old, oldPolarity, oldTruth) /\ Matched(a, new, newPolarity, newTruth)
      THEN [score EXCEPT !.aligned = @ + 1, !.inexact = @ - 1] ELSE score

(* AlignmentSimilarity::updateScore                                        *)
UpdateScore(score, alignments, i, old, new, oldPolarity, newPolarity, oldTruth, newTruth) ==
  LET mine     == {a \in Range(alignments) : a.index = i}
      was(a)   == Matched(a, old, oldPolarity, oldTruth)
      is(a)    == Matched(a, new, newPolarity, newTruth)
      isLost   == \E a \in mine : was(a) /\ ~is(a)
      isGained == \E a \in mine : ~was(a) /\ is(a)
      isDelete == new = INVALID_WORD
  IN  IF isLost /\ isDelete
      THEN [score EXCEPT !.aligned = @ - 1, !.alignable = @ - 1, !.unPremise = @ + 1]
      ELSE IF isLost THEN [score EXCEPT !.aligned = @ - 1, !.inexact = @ + 1]
      ELSE IF isGained /\ isDelete THEN [score EXCEPT !.unConclusion = @ - 1]
      ELSE IF isGained THEN [score EXCEPT !.aligned = @ + 1, !.inexact = @ - 1]
      ELSE score

(* The start node of a search that assumes truth.                          *)
StartNode(alignments, premise, truth) ==
  [score |-> Score(hyp, alignments, premise, hyp.word, Markings(hyp), truth),
   word |-> hyp.word, marks |-> Markings(hyp), truth |-> truth, deleted |-> {},
   at |-> None, left |-> {}, steps |-> 0, plain |-> TRUE]

(* The end of alignToPremise, and the start of a search with it.           *)
Finish ==
  /\ pass = 10
  /\ LET f == Constrained(found)
         n == Cardinality(Keyphrases(prem) \ f.prem)
     IN  /\ found' = Unaligned(f)
         /\ unaligned' = n
         /\ \E truth \in BOOLEAN : node' = StartNode(Unaligned(f).alignments, n, truth)
  /\ pass' = 11
  /\ UNCHANGED pair

-------------------------------------------------------------------------------
(* The search.  It visits each token once (a quantifier perhaps twice,     *)
(* but no alignment is one), moves to none that is deleted, and mutates or *)
(* deletes at the token it visits.  The order of the visits is SynSearch's *)
(* and any order here.                                                     *)
Visit(i) ==
  /\ Aligned /\ node.steps < pair.steps
  /\ i \notin node.left \cup node.deleted

(* A child at token i: its score is told of i's word and its polarity.     *)
Child(i, word, marks, deleted, truth, new, plain) ==
  [score |-> UpdateScore(node.score, found.alignments, i, node.word[i], new,
                         PolarityAt(hyp, node.marks, i), PolarityAt(hyp, marks, i), node.truth, truth),
   word |-> word, marks |-> marks, truth |-> truth, deleted |-> deleted,
   at |-> i, left |-> IF node.at \in {i, None} THEN node.left ELSE node.left \cup {node.at},
   steps |-> node.steps + 1, plain |-> plain]

Mutate(i, w, truth) ==
  /\ Visit(i) /\ ~IsQuantifier(hyp, i) /\ w # node.word[i]
  /\ node' = Child(i, [node.word EXCEPT ![i] = w], node.marks, node.deleted, truth, w,
                   node.plain /\ truth = node.truth)
  /\ UNCHANGED <<pair, pass, found, unaligned>>

(* A quantifier is mutated: its marks change with its word.                *)
MutateQuantifier(q, w, m, truth) ==
  LET i == hyp.quantifiers[q].token
  IN  /\ Visit(i) /\ w # node.word[i]
      /\ node' = Child(i, [node.word EXCEPT ![i] = w], [node.marks EXCEPT ![q] = m],
                       node.deleted, truth, w, FALSE)
      /\ UNCHANGED <<pair, pass, found, unaligned>>

(* Dependent d is deleted, and if it is a quantifier its marks are cleared. *)
(* The score is told of the governor.                                      *)
Delete(d, truth) ==
  LET i     == hyp.governor[d]
      marks == IF IsQuantifier(hyp, d)
               THEN [node.marks EXCEPT ![QuantifierIndex(hyp, d)] = Cleared] ELSE node.marks
  IN  /\ Visit(i) /\ i # TREE_ROOT /\ d \notin node.deleted
      /\ node' = Child(i, node.word, marks, node.deleted \cup DeleteMask(hyp, d), truth,
                       INVALID_WORD, FALSE)
      /\ UNCHANGED <<pair, pass, found, unaligned>>

AlignInit ==
  /\ pair \in Pairs
  /\ pass = 0
  /\ found = NoPairs
  /\ unaligned = 0
  /\ node = <<>>

AlignNext ==
  \/ Pass
  \/ Finish
  \/ \E i \in Tokens(hyp), w \in NewWords, truth \in BOOLEAN : Mutate(i, w, truth)
  \/ \E q \in Quantifiers(hyp), w \in NewWords, m \in NewMarks, truth \in BOOLEAN :
       MutateQuantifier(q, w, m, truth)
  \/ \E d \in Tokens(hyp), truth \in BOOLEAN : Delete(d, truth)

AlignSpec == AlignInit /\ [][AlignNext]_alignVars

-------------------------------------------------------------------------------
(* Properties of a finished alignment                                      *)
Targets == {a \in Range(found.alignments) : a.target # NoTarget}

TimesTarget(w) == Cardinality({a \in Targets : a.target = w})

Times(t, w) == Cardinality({i \in Keyphrases(t) : t.word[i] = w})

(* Every keyphrase of the hypothesis has one alignment, and nothing else   *)
(* has; no word of the premise is a target more often than it is there,    *)
(* and what is no target is counted as unaligned.                          *)
EachAlignedOnce ==
  /\ IsInjective([k \in DOMAIN found.alignments |-> found.alignments[k].index])
  /\ {a.index : a \in Range(found.alignments)} = Keyphrases(hyp)
  /\ \A a \in Targets : TimesTarget(a.target) <= Times(prem, a.target)
  /\ unaligned = Cardinality(Keyphrases(prem)) - Cardinality(Targets)

(* As many equal words are aligned as there are, whatever else was tried   *)
(* for them, and words are left over on both sides only if there are two   *)
(* or more on each.                                                        *)
BestFirst ==
  /\ \A w \in Range(hyp.word) \ {BE} :
       Cardinality({a \in Targets : a.target = w /\ hyp.word[a.index] = w})
         = IF Times(hyp, w) < Times(prem, w) THEN Times(hyp, w) ELSE Times(prem, w)
  /\ LET alone == Len(found.alignments) - Cardinality(Targets)
     IN  alone > 0 /\ unaligned > 0 => alone > 1 /\ unaligned > 1

(* Alignments are one for each keyphrase, the best first                   *)
(* (SynSearch.cc 772-1026).                                                *)
AlignmentRight == Aligned => EachAlignedOnce /\ BestFirst

(* updateScore() leads to what score() would say of the tree reached, as   *)
(* long as words are mutated under one truth value.  After a deletion (its *)
(* index is the governor's), a change of truth or a quantifier's mutation  *)
(* (they change other words' polarities) it does not.                      *)
ScoreTracksTree ==
  Aligned /\ node.plain =>
    node.score = Score(hyp, found.alignments, unaligned, node.word, node.marks, node.truth)

(* Words of the hypothesis that pass 4 leaves unaligned are counted as     *)
(* "unaligned hypothesis" (SynSearch.cc 1068-1070), which printFeatures    *)
(* prints as count_unalignable_conclusion.  INVALID_WORD has 25 bits and a *)
(* target 24, so that none is recognised.                                  *)
UnalignedCounted ==
  Aligned /\ node.steps = 0 =>
    node.score.unConclusion = Len(found.alignments) - Cardinality(Targets)
===============================================================================
