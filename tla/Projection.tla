------------------------------ MODULE Projection ------------------------------
(***************************************************************************)
(* What the tables of NatLog promise, against a set semantics.             *)
(*                                                                         *)
(* A lexical item denotes a set; a lexical relation between the premise's  *)
(* word and the conclusion's word is a relation between two sets.          *)
(* projectLexicalRelation carries that relation outwards, one quantifier   *)
(* in scope at a time, and mutationCost / insertionCost then run the       *)
(* automaton backwards over the result.  Here the two denotations x and y  *)
(* really are passed through an arbitrary function of each quantifier's    *)
(* class, next to the relation that the code computes.                     *)
(***************************************************************************)
EXTENDS NatLog, FiniteSets

CONSTANTS Universe,             \* the elements denotations are made of
          MAX_QUANTIFIER_COUNT  \* quantifiers a tree can register
ASSUME UniverseAssumption == IsFiniteSet(Universe) /\ Universe # {}
ASSUME CountAssumption    == MAX_QUANTIFIER_COUNT \in Nat

VARIABLES x, y,    \* denotations on the premise and on the conclusion side
          rel,     \* outputRelation
          seen     \* quantifiers projected through so far
vars == <<x, y, rel, seen>>

Denotation == SUBSET Universe

(* What it means for each relation to hold between two denotations.        *)
Holds(r, a, b) ==
  CASE r = "EQUIVALENT"   -> a = b
    [] r = "FORWARD"      -> a \subseteq b
    [] r = "REVERSE"      -> b \subseteq a
    [] r = "NEGATION"     -> a \cap b = {} /\ a \cup b = Universe
    [] r = "ALTERNATION"  -> a \cap b = {}
    [] r = "COVER"        -> a \cup b = Universe
    [] r = "INDEPENDENCE" -> TRUE

(* The classes of functions named by a monotonicity and a quantifier type. *)
Monotone(f) == \A a, b \in Denotation : a \subseteq b => f[a] \subseteq f[b]
Antitone(f) == \A a, b \in Denotation : a \subseteq b => f[b] \subseteq f[a]
Additive(f) == /\ f[Universe] = Universe
               /\ \A a, b \in Denotation : f[a \cup b] = f[a] \cup f[b]
Multiplicative(f) == /\ f[{}] = {}
                     /\ \A a, b \in Denotation : f[a \cap b] = f[a] \cap f[b]
AntiAdditive(f) == /\ f[Universe] = {}
                   /\ \A a, b \in Denotation : f[a \cup b] = f[a] \cap f[b]
AntiMultiplicative(f) ==
  /\ f[{}] = Universe
  /\ \A a, b \in Denotation : f[a \cap b] = f[a] \cup f[b]

InClass(mono, type, f) ==
  /\ mono = "UP" => /\ Monotone(f)
                    /\ type \in {"ADDITIVE", "BOTH"} => Additive(f)
                    /\ type \in {"MULTIPLICATIVE", "BOTH"} => Multiplicative(f)
  /\ mono = "DOWN" =>
       /\ Antitone(f)
       /\ type \in {"ADDITIVE", "BOTH"} => AntiAdditive(f)
       /\ type \in {"MULTIPLICATIVE", "BOTH"} => AntiMultiplicative(f)

(* The markers stringToMonotonicity accepts: nonmonotone has no type.      *)
Markers == ({"UP", "DOWN"} \X QuantifierTypes) \cup {<<"FLAT", "NONE">>}

Class == [m \in Markers |->
            {f \in [Denotation -> Denotation] : InClass(m[1], m[2], f)}]

-------------------------------------------------------------------------------
(* A mutation edge (EdgeToLexicalFunction) or the insertion of a dependent *)
(* (any relation, from a generated table) relates two words.               *)
Init == /\ x \in Denotation /\ y \in Denotation
        /\ rel \in Relations /\ Holds(rel, x, y)
        /\ seen = 0

(* One round of the loop of projectLexicalRelation.                        *)
Through(m) == /\ seen < MAX_QUANTIFIER_COUNT
              /\ \E f \in Class[m] : x' = f[x] /\ y' = f[y]
              /\ rel' = Project(m[1], m[2], rel)
              /\ seen' = seen + 1

Next == \E m \in Markers : Through(m)

Spec == Init /\ [][Next]_vars

-------------------------------------------------------------------------------
(* project() never claims too much: whatever functions the quantifiers in  *)
(* scope denote, as long as each is in the class its marker names, the     *)
(* relation returned by projectLexicalRelation holds of the results.       *)
ProjectionSound == Holds(rel, x, y)

Stronger(r, s) ==   \* r strictly implies s, for all denotations
  /\ r # s
  /\ \A a, b \in Denotation : Holds(r, a, b) => Holds(s, a, b)

(* project() never claims too little: no relation that strictly implies    *)
(* the one it returns holds for every function of the marker's class.      *)
ProjectionTight ==
  \A m \in Markers, r \in Relations :
    Stronger(r, Project(m[1], m[2], rel)) =>
      \E f \in Class[m], a, b \in Denotation :
        Holds(rel, a, b) /\ ~Holds(r, f[a], f[b])

(* The truth value and price of a backwards step agree with the meaning of *)
(* the projected relation: when strict costs let a step through, the value *)
(* found for the premise forces the value assumed of the conclusion, in    *)
(* every world; when they price it out, some world refutes that inference. *)
TransitionSound ==
  \A end \in BOOLEAN :
    LET begin == ReverseTransition(end, rel)
        forced(a, b) == \A w \in Universe : (w \in a) = begin => (w \in b) = end
    IN  IF TransitionCost(0, Infinity, begin, rel) # Infinity
        THEN forced(x, y)
        ELSE \E a, b \in Denotation : Holds(rel, a, b) /\ ~forced(a, b)
===============================================================================
