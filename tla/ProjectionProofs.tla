---------------------------- MODULE ProjectionProofs ----------------------------
(***************************************************************************)
(* Theorems about the tables of NatLog, for every universe: what           *)
(* projectLexicalRelation returns holds of the projected denotations, is   *)
(* the strongest relation that does, and the transitions that strict costs *)
(* allow are exactly the valid inferences.                                 *)
(***************************************************************************)
EXTENDS Projection, TLAPS

-------------------------------------------------------------------------------
(* Projection through one quantifier                                       *)

(* The tables, row by row.                                                 *)
LEMMA HoldsRows ==
  ASSUME NEW a, NEW b
  PROVE  /\ Holds("EQUIVALENT", a, b) <=> a = b
         /\ Holds("FORWARD", a, b) <=> a \subseteq b
         /\ Holds("REVERSE", a, b) <=> b \subseteq a
         /\ Holds("NEGATION", a, b) <=> a \cap b = {} /\ a \cup b = Universe
         /\ Holds("ALTERNATION", a, b) <=> a \cap b = {}
         /\ Holds("COVER", a, b) <=> a \cup b = Universe
         /\ Holds("INDEPENDENCE", a, b)
  BY Zenon DEF Holds

LEMMA UpRows ==
  /\ \A r : UpExclusion("BOTH", r) = r /\ UpExclusion("NONE", r) = "INDEPENDENCE"
  /\ UpExclusion("ADDITIVE", "NEGATION") = "COVER"
  /\ UpExclusion("ADDITIVE", "COVER") = "COVER"
  /\ UpExclusion("ADDITIVE", "ALTERNATION") = "INDEPENDENCE"
  /\ UpExclusion("MULTIPLICATIVE", "NEGATION") = "ALTERNATION"
  /\ UpExclusion("MULTIPLICATIVE", "ALTERNATION") = "ALTERNATION"
  /\ UpExclusion("MULTIPLICATIVE", "COVER") = "INDEPENDENCE"
  BY DEF UpExclusion

LEMMA DownRows ==
  /\ DownExclusion("BOTH", "NEGATION") = "NEGATION"
  /\ DownExclusion("BOTH", "ALTERNATION") = "COVER"
  /\ DownExclusion("BOTH", "COVER") = "ALTERNATION"
  /\ \A r : DownExclusion("NONE", r) = "INDEPENDENCE"
  /\ DownExclusion("ADDITIVE", "NEGATION") = "ALTERNATION"
  /\ DownExclusion("ADDITIVE", "COVER") = "ALTERNATION"
  /\ DownExclusion("ADDITIVE", "ALTERNATION") = "INDEPENDENCE"
  /\ DownExclusion("MULTIPLICATIVE", "NEGATION") = "COVER"
  /\ DownExclusion("MULTIPLICATIVE", "ALTERNATION") = "COVER"
  /\ DownExclusion("MULTIPLICATIVE", "COVER") = "INDEPENDENCE"
  BY DEF DownExclusion

LEMMA ProjectType ==
  ASSUME NEW m \in Markers, NEW r \in Relations PROVE Project(m[1], m[2], r) \in Relations
  BY DEF Markers, QuantifierTypes, Relations, Project, UpExclusion, DownExclusion, Swap

(* What a function's class gives for two denotations that exclude each     *)
(* other or cover the universe.                                            *)
LEMMA UpClass ==
  ASSUME NEW f \in [Denotation -> Denotation], NEW type \in QuantifierTypes,
         InClass("UP", type, f), NEW a \in Denotation, NEW b \in Denotation
  PROVE  /\ a \subseteq b => f[a] \subseteq f[b]
         /\ type \in {"ADDITIVE", "BOTH"} /\ a \cup b = Universe => f[a] \cup f[b] = Universe
         /\ type \in {"MULTIPLICATIVE", "BOTH"} /\ a \cap b = {} => f[a] \cap f[b] = {}
  BY DEF InClass, Monotone, Additive, Multiplicative

LEMMA DownClass ==
  ASSUME NEW f \in [Denotation -> Denotation], NEW type \in QuantifierTypes,
         InClass("DOWN", type, f), NEW a \in Denotation, NEW b \in Denotation
  PROVE  /\ a \subseteq b => f[b] \subseteq f[a]
         /\ type \in {"ADDITIVE", "BOTH"} /\ a \cup b = Universe => f[a] \cap f[b] = {}
         /\ type \in {"MULTIPLICATIVE", "BOTH"} /\ a \cap b = {} => f[a] \cup f[b] = Universe
  BY DEF InClass, Antitone, AntiAdditive, AntiMultiplicative

LEMMA ProjectUpSound ==
  ASSUME NEW f \in [Denotation -> Denotation], NEW type \in QuantifierTypes,
         InClass("UP", type, f), NEW a \in Denotation, NEW b \in Denotation,
         NEW r \in Relations, Holds(r, a, b)
  PROVE  Holds(Project("UP", type, r), f[a], f[b])
  <1>1. CASE r \in {"EQUIVALENT", "INDEPENDENCE"}
    BY <1>1 DEF Holds, Project
  <1>2. CASE r \in {"FORWARD", "REVERSE"}
    BY <1>2, UpClass DEF Holds, Project
  <1>3. CASE r \in {"NEGATION", "ALTERNATION", "COVER"}
    <2>1. Project("UP", type, r) = UpExclusion(type, r)
      BY <1>3 DEF Project
    <2>2. /\ r \in {"NEGATION", "COVER"} => a \cup b = Universe
          /\ r \in {"NEGATION", "ALTERNATION"} => a \cap b = {}
      BY <1>3 DEF Holds
    <2>3. CASE type \in {"NONE", "BOTH"}
      BY <1>3, <2>1, <2>2, <2>3, UpClass, UpRows, HoldsRows
    <2>4. CASE type = "ADDITIVE"
      BY <1>3, <2>1, <2>2, <2>4, UpClass, UpRows, HoldsRows
    <2>5. CASE type = "MULTIPLICATIVE"
      BY <1>3, <2>1, <2>2, <2>5, UpClass, UpRows, HoldsRows
    <2> QED BY <2>3, <2>4, <2>5 DEF QuantifierTypes
  <1> QED BY <1>1, <1>2, <1>3 DEF Relations

LEMMA ProjectDownSound ==
  ASSUME NEW f \in [Denotation -> Denotation], NEW type \in QuantifierTypes,
         InClass("DOWN", type, f), NEW a \in Denotation, NEW b \in Denotation,
         NEW r \in Relations, Holds(r, a, b)
  PROVE  Holds(Project("DOWN", type, r), f[a], f[b])
  <1>1. CASE r \in {"EQUIVALENT", "INDEPENDENCE"}
    BY <1>1 DEF Holds, Project
  <1>2. CASE r \in {"FORWARD", "REVERSE"}
    BY <1>2, DownClass DEF Holds, Project, Swap
  <1>3. CASE r \in {"NEGATION", "ALTERNATION", "COVER"}
    <2>1. Project("DOWN", type, r) = DownExclusion(type, r)
      BY <1>3 DEF Project
    <2>2. /\ r \in {"NEGATION", "COVER"} => a \cup b = Universe
          /\ r \in {"NEGATION", "ALTERNATION"} => a \cap b = {}
      BY <1>3 DEF Holds
    <2>3. CASE type \in {"NONE", "BOTH"}
      BY <1>3, <2>1, <2>2, <2>3, DownClass, DownRows, HoldsRows
    <2>4. CASE type = "ADDITIVE"
      BY <1>3, <2>1, <2>2, <2>4, DownClass, DownRows, HoldsRows
    <2>5. CASE type = "MULTIPLICATIVE"
      BY <1>3, <2>1, <2>2, <2>5, DownClass, DownRows, HoldsRows
    <2> QED BY <2>3, <2>4, <2>5 DEF QuantifierTypes
  <1> QED BY <1>1, <1>2, <1>3 DEF Relations

LEMMA ProjectSound ==
  ASSUME NEW m \in Markers, NEW f \in Class[m], NEW a \in Denotation, NEW b \in Denotation,
         NEW r \in Relations, Holds(r, a, b)
  PROVE  Holds(Project(m[1], m[2], r), f[a], f[b])
  <1>1. f \in [Denotation -> Denotation] /\ InClass(m[1], m[2], f)
    BY DEF Class
  <1>2. CASE m[1] \in {"UP", "DOWN"}
    <2>1. m[2] \in QuantifierTypes
      BY DEF Markers, QuantifierTypes
    <2> QED BY <1>1, <1>2, <2>1, ProjectUpSound, ProjectDownSound
  <1>3. CASE m[1] = "FLAT"
    <2>1. Project(m[1], m[2], r) = IF r = "EQUIVALENT" THEN "EQUIVALENT" ELSE "INDEPENDENCE"
      BY <1>3 DEF Project
    <2> QED BY <2>1 DEF Holds
  <1> QED BY <1>2, <1>3 DEF Markers

-------------------------------------------------------------------------------
(* Soundness                                                               *)
ProjectionInv ==
  /\ x \in Denotation /\ y \in Denotation /\ rel \in Relations
  /\ ProjectionSound

LEMMA ProjectionInvariant == Spec => []ProjectionInv
  <1>1. Init => ProjectionInv
    BY DEF Init, ProjectionInv, ProjectionSound
  <1>2. ProjectionInv /\ [Next]_vars => ProjectionInv'
    <2> SUFFICES ASSUME ProjectionInv, [Next]_vars PROVE ProjectionInv'
      OBVIOUS
    <2>1. ASSUME NEW m \in Markers, Through(m) PROVE ProjectionInv'
      <3>1. PICK f \in Class[m] : x' = f[x] /\ y' = f[y]
        BY <2>1 DEF Through
      <3>2. f \in [Denotation -> Denotation]
        BY DEF Class
      <3>3. x' \in Denotation /\ y' \in Denotation
        BY <3>1, <3>2 DEF ProjectionInv
      <3>4. rel' = Project(m[1], m[2], rel) /\ rel' \in Relations
        BY <2>1, ProjectType DEF Through, ProjectionInv
      <3>5. Holds(rel', x', y')
        BY <3>1, <3>4, ProjectSound DEF ProjectionInv, ProjectionSound
      <3> QED BY <3>3, <3>4, <3>5 DEF ProjectionInv, ProjectionSound
    <2>2. CASE UNCHANGED vars
      BY <2>2 DEF vars, ProjectionInv, ProjectionSound
    <2> QED BY <2>1, <2>2 DEF Next
  <1> QED BY <1>1, <1>2, PTL DEF Spec

(* Whatever universe the words speak of, however many quantifiers are in   *)
(* scope and whatever they denote, projectLexicalRelation claims no more   *)
(* than what holds.                                                        *)
THEOREM ProjectionIsSound == Spec => []ProjectionSound
  <1>1. ProjectionInv => ProjectionSound
    BY DEF ProjectionInv
  <1> QED BY <1>1, ProjectionInvariant, PTL
-------------------------------------------------------------------------------
(* Tightness.  The least and the greatest denotation tell the relations    *)
(* apart, and four functions that every class has some of carry them to    *)
(* where they do.                                                          *)
Extremes == {{}, Universe}

Id   == [d \in Denotation |-> d]
Flip == [d \in Denotation |-> Universe \ d]
Void == [d \in Denotation |-> {}]
Full == [d \in Denotation |-> Universe]

LEMMA ExtremesDiffer ==
  {} \in Denotation /\ Universe \in Denotation /\ {} # Universe
  BY UniverseAssumption DEF Denotation

LEMMA Applied ==
  /\ Id \in [Denotation -> Denotation] /\ Flip \in [Denotation -> Denotation]
  /\ Void \in [Denotation -> Denotation] /\ Full \in [Denotation -> Denotation]
  /\ Id[{}] = {} /\ Id[Universe] = Universe /\ Flip[{}] = Universe /\ Flip[Universe] = {}
  /\ Void[{}] = {} /\ Void[Universe] = {} /\ Full[{}] = Universe /\ Full[Universe] = Universe
  BY DEF Id, Flip, Void, Full, Denotation

LEMMA ClassMembers ==
  /\ \A t \in QuantifierTypes : Id \in Class[<<"UP", t>>] /\ Flip \in Class[<<"DOWN", t>>]
  /\ \A t \in {"NONE", "MULTIPLICATIVE"} : Void \in Class[<<"UP", t>>] /\ Full \in Class[<<"DOWN", t>>]
  /\ \A t \in {"NONE", "ADDITIVE"} : Full \in Class[<<"UP", t>>] /\ Void \in Class[<<"DOWN", t>>]
  /\ {Id, Flip, Void, Full} \subseteq Class[<<"FLAT", "NONE">>]
  <1>1. ASSUME NEW mono \in {"UP", "DOWN"}, NEW t \in QuantifierTypes,
               NEW f \in [Denotation -> Denotation], InClass(mono, t, f)
        PROVE  f \in Class[<<mono, t>>]
    BY <1>1 DEF Class, Markers
  <1>2. ASSUME NEW f \in [Denotation -> Denotation] PROVE f \in Class[<<"FLAT", "NONE">>]
    BY DEF Class, Markers, InClass
  <1>3. \A t \in QuantifierTypes : InClass("UP", t, Id)
    BY DEF InClass, Id, Monotone, Additive, Multiplicative, Denotation
  <1>4. \A t \in QuantifierTypes : InClass("DOWN", t, Flip)
    BY DEF InClass, Flip, Antitone, AntiAdditive, AntiMultiplicative, Denotation
  <1>5. \A t \in {"NONE", "MULTIPLICATIVE"} : InClass("UP", t, Void) /\ InClass("DOWN", t, Full)
    BY DEF InClass, Void, Full, Monotone, Multiplicative, Antitone, AntiMultiplicative, Denotation
  <1>6. \A t \in {"NONE", "ADDITIVE"} : InClass("UP", t, Full) /\ InClass("DOWN", t, Void)
    BY DEF InClass, Void, Full, Monotone, Additive, Antitone, AntiAdditive, Denotation
  <1>7. {"NONE", "MULTIPLICATIVE"} \subseteq QuantifierTypes
        /\ {"NONE", "ADDITIVE"} \subseteq QuantifierTypes
    BY DEF QuantifierTypes
  <1> QED BY <1>1, <1>2, <1>3, <1>4, <1>5, <1>6, <1>7, Applied

(* Every relation but independence is refuted by two extremes.             *)
LEMMA Refuted ==
  ASSUME NEW r \in Relations, r # "INDEPENDENCE"
  PROVE  \E c, d \in Extremes : ~Holds(r, c, d)
  BY ExtremesDiffer, HoldsRows DEF Relations, Extremes

(* What strictly implies what.                                             *)
LEMMA StrongerPairs ==
  ASSUME NEW r \in Relations, NEW s \in Relations, Stronger(r, s)
  PROVE  \/ s = "INDEPENDENCE"
         \/ r = "EQUIVALENT" /\ s \in {"FORWARD", "REVERSE"}
         \/ r = "NEGATION" /\ s \in {"ALTERNATION", "COVER"}
  <1>1. \A a, b \in Denotation : Holds(r, a, b) => Holds(s, a, b)
    BY DEF Stronger
  <1>2. /\ Holds(r, {}, {}) => Holds(s, {}, {})
        /\ Holds(r, {}, Universe) => Holds(s, {}, Universe)
        /\ Holds(r, Universe, {}) => Holds(s, Universe, {})
        /\ Holds(r, Universe, Universe) => Holds(s, Universe, Universe)
    BY <1>1, ExtremesDiffer
  <1>3. r # s
    BY DEF Stronger
  <1> QED BY <1>2, <1>3, ExtremesDiffer, HoldsRows DEF Relations

(* Where a relation is lost, every pair of extremes can come out.          *)
LEMMA Attained ==
  ASSUME NEW m \in Markers, NEW r \in Relations, Project(m[1], m[2], r) = "INDEPENDENCE",
         NEW c \in Extremes, NEW d \in Extremes
  PROVE  \E f \in Class[m], a, b \in Denotation : Holds(r, a, b) /\ f[a] = c /\ f[b] = d
  <1>1. r # "EQUIVALENT" /\ (m[1] \in {"UP", "DOWN"} => r \notin {"FORWARD", "REVERSE"})
    BY DEF Project, Swap
  <1>2. \/ r = "FORWARD" /\ Holds(r, {}, Universe)
        \/ r = "REVERSE" /\ Holds(r, Universe, {})
        \/ /\ r \in {"NEGATION", "ALTERNATION", "COVER", "INDEPENDENCE"}
           /\ Holds(r, {}, Universe) /\ Holds(r, Universe, {})
           /\ r \in {"ALTERNATION", "INDEPENDENCE"} => Holds(r, {}, {})
           /\ r \in {"COVER", "INDEPENDENCE"} => Holds(r, Universe, Universe)
    BY <1>1, HoldsRows DEF Relations
  <1>3. CASE m = <<"FLAT", "NONE">>
    BY <1>2, <1>3, Applied, ClassMembers, ExtremesDiffer DEF Extremes
  <1>4. ASSUME NEW t \in QuantifierTypes, m = <<"UP", t>>
        PROVE  \E f \in Class[m], a, b \in Denotation : Holds(r, a, b) /\ f[a] = c /\ f[b] = d
    <2>1. \/ r = "INDEPENDENCE"
          \/ r \in {"NEGATION", "ALTERNATION", "COVER"} /\ UpExclusion(t, r) = "INDEPENDENCE"
      BY <1>1, <1>4 DEF Project, Relations
    <2>2. \/ r = "INDEPENDENCE" \/ t = "NONE"
          \/ t = "ADDITIVE" /\ r = "ALTERNATION"
          \/ t = "MULTIPLICATIVE" /\ r = "COVER"
      <3>1. CASE t = "BOTH"
        BY <2>1, <3>1, UpRows
      <3>2. CASE t = "ADDITIVE"
        BY <2>1, <3>2, UpRows
      <3>3. CASE t = "MULTIPLICATIVE"
        BY <2>1, <3>3, UpRows
      <3> QED BY <3>1, <3>2, <3>3 DEF QuantifierTypes
    <2> QED BY <1>1, <1>2, <1>4, <2>2, Applied, ClassMembers, ExtremesDiffer DEF Extremes
  <1>5. ASSUME NEW t \in QuantifierTypes, m = <<"DOWN", t>>
        PROVE  \E f \in Class[m], a, b \in Denotation : Holds(r, a, b) /\ f[a] = c /\ f[b] = d
    <2>1. \/ r = "INDEPENDENCE"
          \/ r \in {"NEGATION", "ALTERNATION", "COVER"} /\ DownExclusion(t, r) = "INDEPENDENCE"
      BY <1>1, <1>5 DEF Project, Relations
    <2>2. \/ r = "INDEPENDENCE" \/ t = "NONE"
          \/ t = "ADDITIVE" /\ r = "ALTERNATION"
          \/ t = "MULTIPLICATIVE" /\ r = "COVER"
      <3>1. CASE t = "BOTH"
        BY <2>1, <3>1, DownRows
      <3>2. CASE t = "ADDITIVE"
        BY <2>1, <3>2, DownRows
      <3>3. CASE t = "MULTIPLICATIVE"
        BY <2>1, <3>3, DownRows
      <3> QED BY <3>1, <3>2, <3>3 DEF QuantifierTypes
    <2> QED BY <1>1, <1>2, <1>5, <2>2, Applied, ClassMembers, ExtremesDiffer DEF Extremes
  <1> QED BY <1>3, <1>4, <1>5 DEF Markers

LEMMA Tight ==
  ASSUME NEW m \in Markers, NEW r \in Relations, NEW s \in Relations,
         Stronger(r, Project(m[1], m[2], s))
  PROVE  \E f \in Class[m], a, b \in Denotation : Holds(s, a, b) /\ ~Holds(r, f[a], f[b])
  <1> DEFINE p == Project(m[1], m[2], s)
  <1>1. p \in Relations /\ r # p
    BY ProjectType DEF Stronger
  <1>2. CASE p = "INDEPENDENCE"
    <2>1. PICK c \in Extremes, d \in Extremes : ~Holds(r, c, d)
      BY <1>1, <1>2, Refuted
    <2>2. PICK f \in Class[m], a \in Denotation, b \in Denotation :
            Holds(s, a, b) /\ f[a] = c /\ f[b] = d
      BY <1>2, <2>1, Attained
    <2> QED BY <2>1, <2>2
  <1>3. CASE r = "EQUIVALENT" /\ p \in {"FORWARD", "REVERSE"}
    <2>1. s \in {"FORWARD", "REVERSE"} /\ \E t \in QuantifierTypes : m \in {<<"UP", t>>, <<"DOWN", t>>}
      <3>1. m[1] # "FLAT"
        BY <1>3 DEF Project
      <3>2. s \in {"FORWARD", "REVERSE"}
        BY <1>3 DEF Project, UpExclusion, DownExclusion, Relations, Markers
      <3> QED BY <3>1, <3>2 DEF Markers
    <2>2. PICK f \in {Id, Flip} : f \in Class[m]
      BY <2>1, ClassMembers
    <2>3. ~Holds("EQUIVALENT", f[{}], f[Universe]) /\ ~Holds("EQUIVALENT", f[Universe], f[{}])
      BY <2>2, Applied, ExtremesDiffer, HoldsRows
    <2>4. Holds("FORWARD", {}, Universe) /\ Holds("REVERSE", Universe, {})
      BY HoldsRows
    <2> QED BY <1>3, <2>1, <2>2, <2>3, <2>4, ExtremesDiffer
  <1>4. CASE r = "NEGATION" /\ p \in {"ALTERNATION", "COVER"}
    <2>1. m[1] \in {"UP", "DOWN"} /\ m[2] \in QuantifierTypes
          /\ s \in {"NEGATION", "ALTERNATION", "COVER"}
      <3>1. m[1] # "FLAT" /\ m[2] \in QuantifierTypes
        BY <1>4 DEF Project, Markers, QuantifierTypes
      <3>2. s \in {"NEGATION", "ALTERNATION", "COVER"}
        BY <1>4, <3>1 DEF Project, Relations, Markers, Swap
      <3> QED BY <3>1, <3>2 DEF Markers
    <2>2. m = <<m[1], m[2]>>
      BY DEF Markers
    <2>3. p = IF m[1] = "UP" THEN UpExclusion(m[2], s) ELSE DownExclusion(m[2], s)
      BY <2>1 DEF Project
    <2>4. Holds("NEGATION", {}, Universe)
          /\ ~Holds("NEGATION", {}, {}) /\ ~Holds("NEGATION", Universe, Universe)
      BY HoldsRows, ExtremesDiffer
    <2>5. CASE m[2] = "BOTH"
      <3>1. s # "NEGATION"
        BY <1>4, <2>3, <2>5, UpRows, DownRows
      <3>2. PICK f \in {Id, Flip} : f \in Class[m]
        BY <2>1, <2>2, ClassMembers
      <3>3. ~Holds("NEGATION", f[{}], f[{}]) /\ ~Holds("NEGATION", f[Universe], f[Universe])
        BY <2>4, <3>2, Applied
      <3>4. Holds("ALTERNATION", {}, {}) /\ Holds("COVER", Universe, Universe)
        BY HoldsRows
      <3> QED BY <1>4, <2>1, <3>1, <3>2, <3>3, <3>4, ExtremesDiffer
    <2>6. CASE m[2] \in {"NONE", "ADDITIVE", "MULTIPLICATIVE"}
      <3>1. PICK f \in {Void, Full} : f \in Class[m]
        BY <2>1, <2>2, <2>6, ClassMembers
      <3>2. ~Holds("NEGATION", f[{}], f[Universe])
        BY <2>4, <3>1, Applied
      <3>3. Holds(s, {}, Universe)
        BY <2>1, HoldsRows
      <3> QED BY <1>4, <3>1, <3>2, <3>3, ExtremesDiffer
    <2> QED BY <2>1, <2>5, <2>6 DEF QuantifierTypes
  <1> QED BY <1>1, <1>2, <1>3, <1>4, StrongerPairs

(* Whatever universe the words speak of, projectLexicalRelation claims no  *)
(* less than what holds: any relation that implies the one it returns      *)
(* fails of some function of the class and some words.                     *)
THEOREM ProjectionIsTight == Spec => []ProjectionTight
  <1>1. ProjectionInv => ProjectionTight
    BY Tight DEF ProjectionInv, ProjectionTight
  <1> QED BY <1>1, ProjectionInvariant, PTL

-------------------------------------------------------------------------------
(* The automaton                                                           *)
Forced(a, b, begin, end) == \A w \in Universe : (w \in a) = begin => (w \in b) = end

LEMMA ForcedRows ==
  ASSUME NEW a \in Denotation, NEW b \in Denotation
  PROVE  /\ Forced(a, b, TRUE, TRUE) <=> a \subseteq b
         /\ Forced(a, b, FALSE, FALSE) <=> b \subseteq a
         /\ Forced(a, b, TRUE, FALSE) <=> a \cap b = {}
         /\ Forced(a, b, FALSE, TRUE) <=> a \cup b = Universe
  <1>1. \A w \in Universe : (w \in a) \in BOOLEAN /\ (w \in b) \in BOOLEAN
    OBVIOUS
  <1>2. /\ Forced(a, b, TRUE, TRUE) <=> \A w \in Universe : w \in a => w \in b
        /\ Forced(a, b, FALSE, FALSE) <=> \A w \in Universe : w \notin a => w \notin b
        /\ Forced(a, b, TRUE, FALSE) <=> \A w \in Universe : w \in a => w \notin b
        /\ Forced(a, b, FALSE, TRUE) <=> \A w \in Universe : w \notin a => w \in b
    BY <1>1 DEF Forced
  <1> QED BY <1>2 DEF Denotation

LEMMA AllowedStep ==
  ASSUME NEW end \in BOOLEAN, NEW r \in Relations, NEW a \in Denotation, NEW b \in Denotation,
         Holds(r, a, b), r \in ValidFrom(ReverseTransition(end, r))
  PROVE  Forced(a, b, ReverseTransition(end, r), end)
  <1>1. \/ r \in {"EQUIVALENT", "FORWARD"} /\ end = TRUE /\ ReverseTransition(end, r) = TRUE
        \/ r \in {"EQUIVALENT", "REVERSE"} /\ end = FALSE /\ ReverseTransition(end, r) = FALSE
        \/ r \in {"NEGATION", "ALTERNATION"} /\ end = FALSE /\ ReverseTransition(end, r) = TRUE
        \/ r \in {"NEGATION", "COVER"} /\ end = TRUE /\ ReverseTransition(end, r) = FALSE
    BY DEF Relations, ValidFrom, ReverseTransition
  <1>2. /\ r \in {"EQUIVALENT", "FORWARD"} => a \subseteq b
        /\ r \in {"EQUIVALENT", "REVERSE"} => b \subseteq a
        /\ r \in {"NEGATION", "ALTERNATION"} => a \cap b = {}
        /\ r \in {"NEGATION", "COVER"} => a \cup b = Universe
    BY HoldsRows
  <1>3. /\ a \subseteq b => Forced(a, b, TRUE, TRUE)
        /\ b \subseteq a => Forced(a, b, FALSE, FALSE)
        /\ a \cap b = {} => Forced(a, b, TRUE, FALSE)
        /\ a \cup b = Universe => Forced(a, b, FALSE, TRUE)
    BY ForcedRows, Zenon
  <1> QED BY <1>1, <1>2, <1>3, Zenon

LEMMA RefusedStep ==
  ASSUME NEW end \in BOOLEAN, NEW r \in Relations, r \notin ValidFrom(ReverseTransition(end, r))
  PROVE  \E a, b \in Denotation : Holds(r, a, b) /\ ~Forced(a, b, ReverseTransition(end, r), end)
  <1>1. \/ r \in {"REVERSE", "INDEPENDENCE"} /\ end = TRUE /\ ReverseTransition(end, r) = TRUE
        \/ r \in {"FORWARD", "INDEPENDENCE"} /\ end = FALSE /\ ReverseTransition(end, r) = FALSE
        \/ r = "COVER" /\ end = FALSE /\ ReverseTransition(end, r) = TRUE
        \/ r = "ALTERNATION" /\ end = TRUE /\ ReverseTransition(end, r) = FALSE
    BY DEF Relations, ValidFrom, ReverseTransition
  <1>2. /\ ~Forced(Universe, {}, TRUE, TRUE) /\ ~Forced({}, Universe, FALSE, FALSE)
        /\ ~Forced(Universe, Universe, TRUE, FALSE) /\ ~Forced({}, {}, FALSE, TRUE)
    <2>1. /\ ~(Universe \subseteq {}) /\ Universe \cap Universe # {} /\ {} \cup {} # Universe
      BY ExtremesDiffer
    <2> QED BY <2>1, ForcedRows, ExtremesDiffer, Zenon
  <1>3. /\ \A s \in {"REVERSE", "INDEPENDENCE"} : Holds(s, Universe, {})
        /\ \A s \in {"FORWARD", "INDEPENDENCE"} : Holds(s, {}, Universe)
        /\ Holds("COVER", Universe, Universe) /\ Holds("ALTERNATION", {}, {})
    BY HoldsRows
  <1>4. \/ Holds(r, Universe, {}) /\ ~Forced(Universe, {}, ReverseTransition(end, r), end)
        \/ Holds(r, {}, Universe) /\ ~Forced({}, Universe, ReverseTransition(end, r), end)
        \/ Holds(r, Universe, Universe) /\ ~Forced(Universe, Universe, ReverseTransition(end, r), end)
        \/ Holds(r, {}, {}) /\ ~Forced({}, {}, ReverseTransition(end, r), end)
    BY <1>1, <1>2, <1>3, Zenon
  <1> QED BY <1>4, ExtremesDiffer

(* Strict costs let through exactly the valid inferences, between any two  *)
(* words and through any quantifiers: a step that is let through carries   *)
(* its truth value over in every world, one that is not fails in some.     *)
THEOREM TransitionIsSound == Spec => []TransitionSound
  <1>1. ProjectionInv => TransitionSound
    <2> SUFFICES ASSUME ProjectionInv, NEW end \in BOOLEAN
                 PROVE  LET begin == ReverseTransition(end, rel)
                        IN  IF TransitionCost(0, Infinity, begin, rel) # Infinity
                            THEN Forced(x, y, begin, end)
                            ELSE \E a, b \in Denotation : Holds(rel, a, b) /\ ~Forced(a, b, begin, end)
      BY DEF TransitionSound, Forced
    <2>1. (TransitionCost(0, Infinity, ReverseTransition(end, rel), rel) # Infinity)
            <=> rel \in ValidFrom(ReverseTransition(end, rel))
      BY InfinityAssumption DEF TransitionCost
    <2> QED BY <2>1, AllowedStep, RefusedStep DEF ProjectionInv, ProjectionSound
  <1> QED BY <1>1, ProjectionInvariant, PTL
===============================================================================
