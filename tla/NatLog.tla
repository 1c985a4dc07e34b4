-------------------------------- MODULE NatLog --------------------------------
(***************************************************************************)
(* The natural logic tables of NaturalLI: lexical relations, the           *)
(* projection of a relation through a quantifier, the finite-state         *)
(* transition that search runs backwards, and the cost vectors built by    *)
(* createStrictCosts.  Everything here is a pure function of its           *)
(* arguments; the #define'd byte codes of Types.h are strings.             *)
(***************************************************************************)
EXTENDS Naturals

CONSTANT Infinity   \* std::numeric_limits<float>::infinity() as a cost
ASSUME InfinityAssumption == Infinity \notin Nat

(* The seven relations (FUNCTION_xxx).                                     *)
Relations == {"EQUIVALENT", "FORWARD", "REVERSE", "NEGATION",
              "ALTERNATION", "COVER", "INDEPENDENCE"}

Monotonicities  == {"UP", "DOWN", "FLAT"}
QuantifierTypes == {"NONE", "ADDITIVE", "MULTIPLICATIVE", "BOTH"}

(* Edge types of the mutation graph that carry a lexical relation.         *)
QuantifierEdges == {"QUANTUP", "QUANTDOWN", "QUANTNEGATE", "QUANTREWORD"}
LocationEdges   == {"MERONYM", "HOLONYM"}
EdgeTypes == {"HYPERNYM", "HYPONYM", "ANTONYM", "SYNONYM", "NN", "SIMILAR",
              "VENTAIL"} \cup LocationEdges \cup QuantifierEdges

(* The relation between the source (premise side) and the sink of an edge. *)
EdgeToLexicalFunction(type) ==
  CASE type \in {"HYPERNYM", "HOLONYM", "QUANTUP", "VENTAIL"} -> "FORWARD"
    [] type \in {"HYPONYM", "MERONYM", "QUANTDOWN"}           -> "REVERSE"
    [] type = "ANTONYM"                                       -> "ALTERNATION"
    [] type = "QUANTNEGATE"                                   -> "NEGATION"
    [] type \in {"SYNONYM", "NN", "SIMILAR", "QUANTREWORD"}   -> "EQUIVALENT"

-------------------------------------------------------------------------------
(* Projection.  An argument position is monotone, antitone or neither, and *)
(* may in addition distribute over union (additive) or intersection        *)
(* (multiplicative).  Entailment keeps or swaps its direction; the         *)
(* exclusion relations survive only as far as the position distributes.    *)
Swap(rel) == CASE rel = "FORWARD" -> "REVERSE" [] rel = "REVERSE" -> "FORWARD"

(* Mutant: the two exclusions are swapped.                                *)
UpExclusionSwapped(type, rel) ==
  CASE type = "BOTH" -> rel
    [] type = "ADDITIVE" /\ rel \in {"NEGATION", "COVER"} -> "ALTERNATION"
    [] type = "MULTIPLICATIVE" /\ rel \in {"NEGATION", "ALTERNATION"} -> "COVER"
    [] OTHER -> "INDEPENDENCE"

UpExclusion(type, rel) ==
  CASE type = "BOTH" -> rel
    [] type = "ADDITIVE" /\ rel \in {"NEGATION", "COVER"} -> "COVER"
    [] type = "MULTIPLICATIVE" /\ rel \in {"NEGATION", "ALTERNATION"}
         -> "ALTERNATION"
    [] OTHER -> "INDEPENDENCE"

(* Mutant: an antitone position loses every exclusion.                    *)
DownExclusionLost(type, rel) == "INDEPENDENCE"

DownExclusion(type, rel) ==
  CASE type = "BOTH" -> [NEGATION    |-> "NEGATION",
                         ALTERNATION |-> "COVER",
                         COVER       |-> "ALTERNATION"][rel]
    [] type = "ADDITIVE" /\ rel \in {"NEGATION", "COVER"} -> "ALTERNATION"
    [] type = "MULTIPLICATIVE" /\ rel \in {"NEGATION", "ALTERNATION"}
         -> "COVER"
    [] OTHER -> "INDEPENDENCE"

Project(mono, type, rel) ==
  CASE rel = "EQUIVALENT" -> "EQUIVALENT"
    [] rel = "INDEPENDENCE" \/ (mono = "FLAT" /\ rel # "EQUIVALENT")
         -> "INDEPENDENCE"
    [] mono = "UP" /\ rel \in {"FORWARD", "REVERSE"} -> rel
    [] mono = "DOWN" /\ rel \in {"FORWARD", "REVERSE"} -> Swap(rel)
    [] mono = "UP" /\ rel \in {"NEGATION", "ALTERNATION", "COVER"}
         -> UpExclusion(type, rel)
    [] mono = "DOWN" /\ rel \in {"NEGATION", "ALTERNATION", "COVER"}
         -> DownExclusion(type, rel)

-------------------------------------------------------------------------------
(* The transition of the natural logic automaton run backwards: the truth  *)
(* of the premise-side fact given that of the conclusion-side fact.        *)
ReverseTransition(endState, rel) ==
  IF rel \in {"NEGATION", "ALTERNATION", "COVER"} THEN ~endState ELSE endState

(* Costs are naturals (hundredths) or Infinity.                            *)
Cost == Nat \cup {Infinity}

AddCost(a, b) == IF a = Infinity \/ b = Infinity THEN Infinity ELSE a + b

(* Multiplying by an edge cost, only done to finite costs.                 *)
ScaleCost(a, factor) == a * factor

(* createStrictCosts: the lexical cost of a mutation, and the transition   *)
(* cost indexed by the truth of the fact the transition begins in.         *)
MutationLexicalCost(small, fishy, type) ==
  IF type \in {"VENTAIL", "NN"} THEN fishy ELSE small

(* Mutant: alternation and cover are swapped.                             *)
ValidFromSwapped(begin) ==
  IF begin THEN {"EQUIVALENT", "FORWARD", "NEGATION", "COVER"}
           ELSE {"EQUIVALENT", "REVERSE", "NEGATION", "ALTERNATION"}

ValidFrom(begin) ==
  IF begin THEN {"EQUIVALENT", "FORWARD", "NEGATION", "ALTERNATION"}
           ELSE {"EQUIVALENT", "REVERSE", "NEGATION", "COVER"}

TransitionCost(ok, bad, begin, rel) == IF rel \in ValidFrom(begin) THEN ok ELSE bad
===============================================================================
