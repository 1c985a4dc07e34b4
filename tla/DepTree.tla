-------------------------------- MODULE DepTree --------------------------------
(***************************************************************************)
(* A dependency tree and the hash of the fact it states (class Tree).      *)
(*                                                                         *)
(* A tree t is a record                                                    *)
(*   word, sense  functions of the token indices 0 .. n-1                  *)
(*   governor     the index of a token's governor, or TREE_ROOT            *)
(*   relation     the label of the arc into a token                        *)
(*   quantifiers  a sequence of [token, subj, obj, mono]: subj and obj are *)
(*                spans <<begin, end>> (end excluded) and mono is the      *)
(*                quantifier_monotonicity                                  *)
(*   locations    the tokens flagged as locations                          *)
(*   stray        the word read from data[TREE_ROOT], which lies beyond    *)
(*                the array and inside the tree object                     *)
(*                                                                         *)
(* Hashes.  A 64-bit hash is the XOR of the FNV hashes of some items, so   *)
(* two XORs of the same item cancel.  A hash is represented by the set of  *)
(* items that occur in it an odd number of times, and XOR by symmetric     *)
(* difference: equal sets have equal hashes, and the converse assumes that *)
(* FNV does not collide.                                                   *)
(***************************************************************************)
EXTENDS NatLog, Integers, FiniteSets, SequencesExt

CONSTANTS TREE_ROOT,       \* the governor index of the root token
          TREE_ROOT_WORD   \* the word governing the root token

Tokens(t) == DOMAIN t.word

(* Tree::root: the first token governed by TREE_ROOT.                      *)
Root(t) == Min({i \in Tokens(t) : t.governor[i] = TREE_ROOT})

(* Tree::dependents: the first max tokens governed by i.                   *)
Dependents(t, i, max) ==
  LET all == {d \in Tokens(t) : t.governor[d] = i}
  IN  {d \in all : Cardinality({e \in all : e < d}) < max}

(* Tree::createDeleteMask: a token and everything below it.  The mask is   *)
(* 32 bits wide and each bit is named by its token: trees of up to 32      *)
(* tokens.                                                                 *)
DeleteMask(t, i) ==
  LET below[k \in 0 .. Cardinality(Tokens(t))] ==
        IF k = 0 THEN {i}
        ELSE LET mask == below[k - 1]
             IN  mask \cup {j \in Tokens(t) : t.governor[j] \in mask}
  IN  below[Cardinality(Tokens(t))]

(* Tree::topologicalSort(buffer): depth first from the root, the last      *)
(* dependent first.  The 255 that ends the buffer is the end of the        *)
(* sequence.                                                               *)
TopologicalOrder(t) ==
  LET visit[k \in 0 .. Cardinality(Tokens(t))] ==
        IF k = 0 THEN [buffer |-> <<>>, stack |-> <<Root(t)>>]
        ELSE LET v == visit[k - 1]
             IN  IF v.stack = <<>> THEN v
                 ELSE [buffer |-> Append(v.buffer, Last(v.stack)),
                       stack  |-> Front(v.stack)
                                  \o SetToSortSeq(Dependents(t, Last(v.stack), 255), <)]
  IN  visit[Cardinality(Tokens(t))].buffer

-------------------------------------------------------------------------------
(* Quantifiers                                                             *)
Quantifiers(t) == DOMAIN t.quantifiers

IsQuantifier(t, i) == \E q \in Quantifiers(t) : t.quantifiers[q].token = i

(* Tree::quantifierIndex, of a token that is a quantifier.                 *)
QuantifierIndex(t, i) == Min({q \in Quantifiers(t) : t.quantifiers[q].token = i})

(* quantifier_monotonicity::clear: all bits zero.                          *)
Cleared == [subjMono |-> "UP", subjType |-> "BOTH", objMono |-> "UP", objType |-> "BOTH"]

InSpan(span, i) == span[1] <= i /\ i < span[2]

SpanDistance(span, i) ==
  IF i - span[1] < span[2] - i THEN i - span[1] ELSE span[2] - i

(* Tree::populateQuantifiersInScope: the quantifiers with token i in one   *)
(* of their spans, by the distance of i from the end of that span.         *)
InScope(t, i) == {q \in Quantifiers(t) : InSpan(t.quantifiers[q].subj, i)
                                          \/ InSpan(t.quantifiers[q].obj, i)}

ScopeDistance(t, q, i) ==
  SpanDistance(IF InSpan(t.quantifiers[q].subj, i) THEN t.quantifiers[q].subj
                                                   ELSE t.quantifiers[q].obj, i)

Outermost(t, i, S) ==
  CHOOSE q \in S : \A p \in S \ {q} :
    \/ ScopeDistance(t, p, i) < ScopeDistance(t, q, i)
    \/ ScopeDistance(t, p, i) = ScopeDistance(t, q, i) /\ p < q

(* Tree::projectLexicalRelation: project through every quantifier in       *)
(* scope, nearest first, with the node's markings of that quantifier.      *)
ProjectLexicalRelation(t, i, markings, rel) ==
  LET through[S \in SUBSET InScope(t, i)] ==
        IF S = {} THEN rel
        ELSE LET q == Outermost(t, i, S)
                 m == markings[q]
             IN  IF InSpan(t.quantifiers[q].subj, i)
                 THEN Project(m.subjMono, m.subjType, through[S \ {q}])
                 ELSE Project(m.objMono, m.objType, through[S \ {q}])
  IN  through[InScope(t, i)]

-------------------------------------------------------------------------------
(* Hashes                                                                  *)
(* The XOR of item(i) for every i in S.                                    *)
XorOver(S, item(_)) ==
  {x \in UNION {item(i) : i \in S} : Cardinality({i \in S : x \in item(i)}) % 2 = 1}

(* hashEdge(edgeInto(i, word, governor)): operators hash to zero, and      *)
(* negation hashes as a determiner.                                        *)
HashEdge(t, i, word, governor) ==
  IF t.relation[i] = "op" THEN {}
  ELSE {<<"edge", governor,
          IF t.relation[i] = "neg" THEN "det" ELSE t.relation[i], word>>}

(* edgeInto(i, word) and edgeInto(i): with the tree's own governor.        *)
GovernorWord(t, word, i) ==
  IF t.governor[i] = TREE_ROOT THEN TREE_ROOT_WORD ELSE word[t.governor[i]]

HashEdgeOf(t, i) == HashEdge(t, i, t.word[i], GovernorWord(t, t.word, i))

(* hashQuantifiers: an empty slot and an existential are not hashed.       *)
Existential(m) ==
  /\ m.subjMono = "UP" /\ m.subjType \in {"ADDITIVE", "BOTH"}
  /\ \/ m.objMono = "FLAT"
     \/ m.objMono = "UP" /\ m.objType \in {"ADDITIVE", "BOTH"}

HashMarking(m) == IF m = Cleared \/ Existential(m) THEN {} ELSE {<<"quantifier", m>>}

HashQuantifiers(markings) ==
  XorOver(DOMAIN markings, LAMBDA q : HashMarking(markings[q]))

Markings(t) == [q \in Quantifiers(t) |-> t.quantifiers[q].mono]

(* Tree::hash                                                              *)
Hash(t) == SymDiff(XorOver(Tokens(t), LAMBDA i : HashEdgeOf(t, i)),
               HashQuantifiers(Markings(t)))

(* Tree::updateHashFromMutation                                            *)
UpdateHashFromMutation(t, hash, i, oldWord, governor, newWord) ==
  LET outgoing(w) == XorOver({d \in Tokens(t) : t.governor[d] = i},
                             LAMBDA d : HashEdge(t, d, t.word[d], w))
      incoming(w) == HashEdge(t, i, w, governor)
  IN  SymDiff(hash, SymDiff(SymDiff(incoming(oldWord), incoming(newWord)),
                    SymDiff(outgoing(oldWord), outgoing(newWord))))

(* Mutant: only the edge into the deleted token is taken out.             *)
UpdateHashFromOneDeletion(t, hash, i, word, governor, deletions) ==
  SymDiff(hash, HashEdge(t, i, word, governor))

(* Tree::updateHashFromDeletions                                           *)
UpdateHashFromDeletions(t, hash, i, word, governor, deletions) ==
  SymDiff(hash, XorOver(deletions, LAMBDA j : IF j = i THEN HashEdge(t, i, word, governor)
                                                   ELSE HashEdgeOf(t, j)))

(* The fact a tree states once its words are replaced by word, the tokens  *)
(* in deleted are gone and its quantifiers are marked by markings: what    *)
(* Tree::hash would return for that tree.                                  *)
HashOfFact(t, word, deleted, markings) ==
  SymDiff(XorOver(Tokens(t) \ deleted,
              LAMBDA i : HashEdge(t, i, word[i], GovernorWord(t, word, i))),
      HashQuantifiers([q \in {p \in Quantifiers(t) : t.quantifiers[p].token \notin deleted}
                         |-> markings[q]]))
===============================================================================
