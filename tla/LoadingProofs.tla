----------------------------- MODULE LoadingProofs -----------------------------
(***************************************************************************)
(* What a search is given besides the graph: the trees that are read from  *)
(* the responses of the annotator, with the cache of the quantifiers in    *)
(* scope, for all responses and sizes of a tree; the knowledge base, which *)
(* holds the trees of its input, for every input, every size of a chunk    *)
(* and every interleaving of hash_tree and write_kb; and the alignment of  *)
(* a hypothesis with a premise, with the score that a search keeps of it,  *)
(* for all pairs of trees.                                                 *)
(***************************************************************************)
EXTENDS Conll, KnowledgeBase, Alignment, Foundations, FiniteSetTheorems

-------------------------------------------------------------------------------
(* Sets of numbers                                                         *)
Rank(S, n) == Cardinality({m \in S : m <= n})

(* How many are up to n.                                                   *)
LEMMA RankBounds ==
  ASSUME NEW n \in Nat, NEW S \in SUBSET (1 .. n)
  PROVE  /\ IsFiniteSet(S) /\ Cardinality(S) \in Nat
         /\ \A x \in S : Rank(S, x) \in 1 .. Cardinality(S)
         /\ \A x, y \in S : x < y => Rank(S, x) < Rank(S, y)
  <1>1. IsFiniteSet(1 .. n)
    BY FS_Interval
  <1>2. IsFiniteSet(S) /\ Cardinality(S) \in Nat
    BY <1>1, FS_Subset, FS_CardinalityType
  <1>3. ASSUME NEW T \in SUBSET S
        PROVE  IsFiniteSet(T) /\ Cardinality(T) \in Nat /\ Cardinality(T) <= Cardinality(S)
    BY <1>2, FS_Subset, FS_CardinalityType
  <1>4. ASSUME NEW x \in S PROVE Rank(S, x) \in 1 .. Cardinality(S)
    <2> DEFINE T == {m \in S : m <= x}
    <2>1. T \in SUBSET S /\ x \in T
      OBVIOUS
    <2> HIDE DEF T
    <2>2. IsFiniteSet(T) /\ Cardinality(T) \in Nat /\ Cardinality(T) <= Cardinality(S)
      BY <2>1, <1>3
    <2>3. Cardinality(T) # 0
      BY <2>1, <2>2, FS_EmptySet
    <2>4. Cardinality(T) \in 1 .. Cardinality(S)
      BY <2>2, <2>3, <1>2
    <2> QED BY <2>4 DEF Rank, T
  <1>5. ASSUME NEW x \in S, NEW y \in S, x < y PROVE Rank(S, x) < Rank(S, y)
    <2> DEFINE T == {m \in S : m <= x}
    <2> DEFINE U == {m \in S : m <= y}
    <2>1. T \in SUBSET U /\ U \in SUBSET S /\ y \in U /\ y \notin T
      <3>1. x \in Int /\ y \in Int /\ (\A m \in S : m \in Int)
        OBVIOUS
      <3>2. \A m \in S : m <= x => m <= y
        BY <3>1, <1>5
      <3>3. y <= y /\ ~(y <= x)
        BY <3>1, <1>5
      <3> QED BY <3>2, <3>3
    <2> HIDE DEF T, U
    <2>2. /\ IsFiniteSet(U) /\ Cardinality(U) \in Nat
      BY <2>1, <1>3
    <2>3. /\ Cardinality(T) <= Cardinality(U)
          /\ Cardinality(U) = Cardinality(T) => U = T
      BY <2>1, <2>2, FS_Subset
    <2>4. Cardinality(T) \in Nat
      BY <2>1, <1>3
    <2>5. Cardinality(T) < Cardinality(U)
      BY <2>1, <2>2, <2>3, <2>4
    <2> QED BY <2>5 DEF Rank, T, U
  <1> QED BY <1>2, <1>4, <1>5

(* One more, larger than all.                                              *)
LEMMA RankAppend ==
  ASSUME NEW n \in Nat, NEW S \in SUBSET (1 .. n)
  PROVE  /\ Cardinality(S \cup {n + 1}) = Cardinality(S) + 1
         /\ Rank(S \cup {n + 1}, n + 1) = Cardinality(S) + 1
         /\ \A x \in S : Rank(S \cup {n + 1}, x) = Rank(S, x)
  <1> DEFINE T == S \cup {n + 1}
  <1>0. \A x \in S : x \in 1 .. n /\ x <= n + 1 /\ ~(n + 1 <= x) /\ x # n + 1
    OBVIOUS
  <1>1. IsFiniteSet(S) /\ n + 1 \notin S
    BY <1>0, RankBounds
  <1>2. Cardinality(T) = Cardinality(S) + 1
    BY <1>1, FS_AddElement
  <1>3. {m \in T : m <= n + 1} = T
    BY <1>0, n + 1 <= n + 1
  <1>4. ASSUME NEW x \in S PROVE {m \in T : m <= x} = {m \in S : m <= x}
    BY <1>0
  <1> QED BY <1>2, <1>3, <1>4 DEF Rank

LEMMA RankOnto ==
  ASSUME NEW n \in Nat, NEW S \in SUBSET (1 .. n), NEW k \in 1 .. Cardinality(S)
  PROVE  \E x \in S : Rank(S, x) = k
  <1> DEFINE Q == {j \in 0 .. n : \A T \in SUBSET (1 .. j) :
                      \A i \in 1 .. Cardinality(T) : \E x \in T : Rank(T, x) = i}
  <1>1. 0 \in Q
    <2>1. ASSUME NEW T \in SUBSET (1 .. 0) PROVE 1 .. Cardinality(T) = {}
      <3>1. T = {}
        OBVIOUS
      <3> QED BY <3>1, FS_EmptySet
    <2>2. 0 \in 0 .. n
      OBVIOUS
    <2> QED BY <2>1, <2>2
  <1>2. ASSUME NEW j \in 1 .. n, j - 1 \in Q PROVE j \in Q
    <2>1. j \in 0 .. n /\ j - 1 \in Nat /\ (j - 1) + 1 = j
      OBVIOUS
    <2>2. ASSUME NEW T \in SUBSET (1 .. j), NEW i \in 1 .. Cardinality(T)
          PROVE  \E x \in T : Rank(T, x) = i
      <3>1. CASE j \notin T
        <4>1. T \in SUBSET (1 .. j - 1)
          BY <3>1
        <4> QED BY <4>1, <1>2
      <3>2. CASE j \in T
        <4> DEFINE U == T \ {j}
        <4>1. U \in SUBSET (1 .. j - 1) /\ U \cup {j} = T
          BY <3>2
        <4> HIDE DEF U
        <4>2. /\ Cardinality(T) = Cardinality(U) + 1
              /\ Rank(T, j) = Cardinality(U) + 1
              /\ \A x \in U : Rank(T, x) = Rank(U, x)
          BY <4>1, <2>1, RankAppend
        <4>3. CASE i = Cardinality(U) + 1
          BY <4>2, <4>3, <3>2
        <4>4. CASE i # Cardinality(U) + 1
          <5>1. Cardinality(U) \in Nat
            BY <4>1, <2>1, RankBounds
          <5>2. i \in 1 .. Cardinality(U)
            BY <5>1, <4>2, <4>4
          <5>3. PICK x \in U : Rank(U, x) = i
            BY <5>2, <4>1, <1>2
          <5> QED BY <5>3, <4>1, <4>2
        <4> QED BY <4>3, <4>4
      <3> QED BY <3>1, <3>2
    <2> QED BY <2>1, <2>2
  <1>3. 0 .. n \subseteq Q
    <2> HIDE DEF Q
    <2> QED BY <1>1, <1>2, IntervalInduction
  <1>4. n \in Q
    BY <1>3
  <1> QED BY <1>4

(* A set of numbers in ascending order.                                    *)
LEMMA AscendingProperties ==
  ASSUME NEW n \in Nat, NEW S \in SUBSET (1 .. n)
  PROVE  /\ Cardinality(S) \in Nat /\ DOMAIN Ascending(S) = 1 .. Cardinality(S)
         /\ \A k \in 1 .. Cardinality(S) : Ascending(S)[k] \in S /\ Rank(S, Ascending(S)[k]) = k
         /\ \A k \in 1 .. Cardinality(S) : \A x \in S : Rank(S, x) = k => Ascending(S)[k] = x
  <1>1. Cardinality(S) \in Nat
    BY RankBounds
  <1>2. DOMAIN Ascending(S) = 1 .. Cardinality(S)
    BY DEF Ascending
  <1>3. ASSUME NEW k \in 1 .. Cardinality(S)
        PROVE  Ascending(S)[k] \in S /\ Rank(S, Ascending(S)[k]) = k
    <2>1. \E x \in S : Cardinality({m \in S : m <= x}) = k
      BY RankOnto DEF Rank
    <2>2. Ascending(S)[k] = CHOOSE x \in S : Cardinality({m \in S : m <= x}) = k
      BY DEF Ascending
    <2>3. Ascending(S)[k] \in S /\ Cardinality({m \in S : m <= Ascending(S)[k]}) = k
      BY <2>1, <2>2, Zenon
    <2> QED BY <2>3 DEF Rank
  <1>4. ASSUME NEW k \in 1 .. Cardinality(S), NEW x \in S, Rank(S, x) = k
        PROVE  Ascending(S)[k] = x
    <2>1. Ascending(S)[k] \in S /\ Rank(S, Ascending(S)[k]) = k
      BY <1>3
    <2>2. \A y, z \in S : y < z => Rank(S, y) < Rank(S, z)
      BY RankBounds
    <2>3. \A y \in S : y \in Int /\ Rank(S, y) \in Int
      <3>1. \A y \in S : Rank(S, y) \in 1 .. Cardinality(S)
        BY RankBounds
      <3>2. \A y \in S : y \in 1 .. n
        OBVIOUS
      <3> QED BY <3>1, <3>2, <1>1
    <2>4. PICK y \in S : y = Ascending(S)[k]
      BY <2>1
    <2>5. Rank(S, y) = Rank(S, x) /\ y \in Int /\ x \in Int /\ Rank(S, x) \in Int
      BY <2>1, <2>3, <2>4, <1>4
    <2>6. ~(y < x) /\ ~(x < y)
      BY <2>2, <2>5
    <2> QED BY <2>4, <2>5, <2>6
  <1> QED BY <1>1, <1>2, <1>3, <1>4

LEMMA AscendingAppend ==
  ASSUME NEW n \in Nat, NEW S \in SUBSET (1 .. n)
  PROVE  /\ Cardinality(S \cup {n + 1}) = Cardinality(S) + 1
         /\ Ascending(S \cup {n + 1})[Cardinality(S) + 1] = n + 1
         /\ \A k \in 1 .. Cardinality(S) : Ascending(S \cup {n + 1})[k] = Ascending(S)[k]
  <1> DEFINE T == S \cup {n + 1}
  <1>1. /\ Cardinality(T) = Cardinality(S) + 1
        /\ Rank(T, n + 1) = Cardinality(S) + 1
        /\ \A x \in S : Rank(T, x) = Rank(S, x)
    BY RankAppend
  <1>2. T \in SUBSET (1 .. n + 1) /\ n + 1 \in Nat /\ n + 1 \in T /\ S \subseteq T
    OBVIOUS
  <1>3. /\ Cardinality(S) \in Nat
        /\ \A k \in 1 .. Cardinality(S) : Ascending(S)[k] \in S /\ Rank(S, Ascending(S)[k]) = k
    BY AscendingProperties
  <1> HIDE DEF T
  <1>4. \A k \in 1 .. Cardinality(T) : \A x \in T : Rank(T, x) = k => Ascending(T)[k] = x
    BY <1>2, AscendingProperties
  <1>5. Cardinality(S) + 1 \in 1 .. Cardinality(T)
    BY <1>1, <1>3
  <1>6. Ascending(T)[Cardinality(S) + 1] = n + 1
    BY <1>5, <1>4, <1>2, <1>1
  <1>7. ASSUME NEW k \in 1 .. Cardinality(S) PROVE Ascending(T)[k] = Ascending(S)[k]
    <2>1. Ascending(S)[k] \in T /\ Rank(T, Ascending(S)[k]) = k
      BY <1>3, <1>2, <1>1
    <2>2. k \in 1 .. Cardinality(T)
      BY <1>1, <1>3
    <2> QED BY <2>1, <2>2, <1>4
  <1> QED BY <1>1, <1>6, <1>7 DEF T

LEMMA IsAppend ==
  ASSUME NEW A, NEW s \in Seq(A), NEW x \in A, NEW t \in Seq(A), Len(t) = Len(s) + 1,
         t[Len(s) + 1] = x, \A k \in 1 .. Len(s) : t[k] = s[k]
  PROVE  t = Append(s, x)
  <1>1. Append(s, x) \in Seq(A)
    OBVIOUS
  <1>2. PICK u \in Seq(A) : u = Append(s, x)
    BY <1>1
  <1>3. Len(u) = Len(s) + 1
    BY <1>2
  <1>4. ASSUME NEW k \in 1 .. Len(u) PROVE t[k] = u[k]
    <2>1. k \in 1 .. Len(s) \/ k = Len(s) + 1
      BY <1>3
    <2>2. u[Len(s) + 1] = x /\ \A j \in 1 .. Len(s) : u[j] = s[j]
      BY <1>2
    <2> QED BY <2>1, <2>2
  <1>5. t = u
    BY <1>3, <1>4, SeqEqual
  <1> QED BY <1>2, <1>5

-------------------------------------------------------------------------------
(* What the lines declare                                                  *)
LEMMA TokenLinesEmpty == TokenLines(<<>>) = <<>>
  <1> DEFINE S == {n \in DOMAIN <<>> : Has(<<>>[n], 1)}
  <1>1. S = {}
    OBVIOUS
  <1>2. Cardinality(S) = 0
    BY <1>1, FS_EmptySet
  <1>3. DOMAIN Ascending(S) = 1 .. Cardinality(S)
    BY DEF Ascending
  <1> DEFINE T == [k \in DOMAIN Ascending(S) |-> <<>>[Ascending(S)[k]]]
  <1>4. TokenLines(<<>>) = T
    BY DEF TokenLines
  <1>5. DOMAIN T = {}
    BY <1>2, <1>3
  <1>6. T = <<>>
    <2>1. T = [k \in DOMAIN T |-> T[k]]
      OBVIOUS
    <2> HIDE DEF T
    <2> QED BY <2>1, <1>5
  <1> QED BY <1>4, <1>6

LEMMA TokenLinesAppend ==
  ASSUME NEW A, NEW ls \in Seq(A), NEW l \in A
  PROVE  /\ TokenLines(ls) \in Seq(A)
         /\ Has(l, 1) => TokenLines(Append(ls, l)) = Append(TokenLines(ls), l)
         /\ ~Has(l, 1) => TokenLines(Append(ls, l)) = TokenLines(ls)
  <1> DEFINE S == {n \in DOMAIN ls : Has(ls[n], 1)}
  <1>1. PICK m \in Nat : m = Len(ls)
    OBVIOUS
  <1>2. PICK more \in Seq(A) : more = Append(ls, l)
    <2>1. Append(ls, l) \in Seq(A)
      OBVIOUS
    <2> QED BY <2>1
  <1>3. /\ DOMAIN ls = 1 .. m /\ DOMAIN more = 1 .. m + 1
        /\ more[m + 1] = l /\ \A k \in 1 .. m : more[k] = ls[k]
    BY <1>1, <1>2
  <1> DEFINE T == {n \in DOMAIN more : Has(more[n], 1)}
  <1>4. S \in SUBSET (1 .. m)
    BY <1>3
  <1>5. PICK c \in Nat : c = Cardinality(S)
    BY <1>4, RankBounds
  <1>6. /\ DOMAIN Ascending(S) = 1 .. c
        /\ \A k \in 1 .. c : Ascending(S)[k] \in S
    <2> HIDE DEF S
    <2> QED BY <1>4, <1>5, AscendingProperties
  <1>7. TokenLines(ls) = [k \in 1 .. c |-> ls[Ascending(S)[k]]]
    BY <1>6 DEF TokenLines
  <1>8. TokenLines(ls) \in Seq(A) /\ Len(TokenLines(ls)) = c
    <2>1. \A k \in 1 .. c : ls[Ascending(S)[k]] \in A
      BY <1>6, <1>3, <1>1
    <2> HIDE DEF S
    <2> QED BY <2>1, <1>7
  <1>9. CASE Has(l, 1)
    <2>1. T = S \cup {m + 1}
      <3>1. \A k : k \in 1 .. m + 1 <=> (k \in 1 .. m \/ k = m + 1)
        OBVIOUS
      <3>2. ~(m + 1 \in 1 .. m)
        OBVIOUS
      <3>3. ASSUME NEW k PROVE k \in T <=> k \in S \cup {m + 1}
        BY <3>1, <3>2, <1>3, <1>9
      <3> QED BY <3>3
    <2>2. /\ Cardinality(T) = c + 1
          /\ Ascending(T)[c + 1] = m + 1
          /\ \A k \in 1 .. c : Ascending(T)[k] = Ascending(S)[k]
      <3> HIDE DEF S, T
      <3> QED BY <2>1, <1>4, <1>5, AscendingAppend
    <2>3. DOMAIN Ascending(T) = 1 .. c + 1
      BY <2>2 DEF Ascending
    <2>4. TokenLines(more) = [k \in 1 .. c + 1 |-> more[Ascending(T)[k]]]
      BY <2>3 DEF TokenLines
    <2>5. \A k \in 1 .. c : more[Ascending(S)[k]] = ls[Ascending(S)[k]]
      BY <1>6, <1>3
    <2> HIDE DEF S, T
    <2>6. PICK own \in Seq(A) : own = TokenLines(ls) /\ Len(own) = c
      BY <1>8
    <2>7. \A k \in 1 .. c : own[k] = ls[Ascending(S)[k]]
      BY <2>6, <1>7
    <2>8. TokenLines(more) \in Seq(A) /\ Len(TokenLines(more)) = c + 1
      <3>1. \A k \in 1 .. c + 1 : Ascending(T)[k] \in 1 .. m + 1
        <4>1. \A k \in 1 .. c : Ascending(T)[k] \in 1 .. m
          BY <2>2, <1>6, <1>4
        <4>2. \A k \in 1 .. c + 1 : k \in 1 .. c \/ k = c + 1
          OBVIOUS
        <4> QED BY <4>1, <4>2, <2>2
      <3>2. \A k \in 1 .. c + 1 : more[Ascending(T)[k]] \in A
        BY <3>1, <1>3, <1>2
      <3> QED BY <3>2, <2>4
    <2>9. TokenLines(more)[c + 1] = l /\ \A k \in 1 .. c : TokenLines(more)[k] = own[k]
      <3>1. c + 1 \in 1 .. c + 1 /\ \A k \in 1 .. c : k \in 1 .. c + 1
        OBVIOUS
      <3> QED BY <3>1, <2>2, <2>4, <2>5, <2>7, <1>3
    <2>10. TokenLines(more) = Append(own, l)
      BY <2>8, <2>9, <2>6, IsAppend
    <2> QED BY <2>10, <2>6, <1>2, <1>8, <1>9
  <1>10. CASE ~Has(l, 1)
    <2>1. T = S
      <3>1. \A k : k \in 1 .. m + 1 <=> (k \in 1 .. m \/ k = m + 1)
        OBVIOUS
      <3>3. ASSUME NEW k PROVE k \in T <=> k \in S
        BY <3>1, <1>3, <1>10
      <3> QED BY <3>3
    <2>2. DOMAIN Ascending(T) = 1 .. c
      <3> HIDE DEF S, T
      <3> QED BY <2>1, <1>6
    <2>3. TokenLines(more) = [k \in 1 .. c |-> more[Ascending(T)[k]]]
      BY <2>2 DEF TokenLines
    <2>4. \A k \in 1 .. c : more[Ascending(S)[k]] = ls[Ascending(S)[k]]
      BY <1>6, <1>3
    <2>5. TokenLines(more) = TokenLines(ls)
      <3> HIDE DEF S, T
      <3> QED BY <2>1, <2>3, <2>4, <1>7
    <2> QED BY <2>5, <1>2, <1>8, <1>10
  <1> QED BY <1>9, <1>10

(* The quantifiers of the lines that have a token.                         *)
Declares(line) == Has(line, 9) /\ DeclaresQuantifier(line)

Declaring(own) == {k \in DOMAIN own : Declares(own[k])}

QuantifiersOf(own) ==
  [n \in {m \in DOMAIN Ascending(Declaring(own)) : m <= MAX_QUANTIFIER_COUNT} |->
     DeclaredAt(Ascending(Declaring(own))[n], own[Ascending(Declaring(own))[n]])]

Declarations(A) == UNION {{DeclaredAt(k, line) : k \in Nat} : line \in A}

LEMMA DeclaredQuantifiersOf ==
  ASSUME NEW ls PROVE DeclaredQuantifiers(ls) = QuantifiersOf(TokenLines(ls))
  BY DEF DeclaredQuantifiers, QuantifiersOf, Declaring, Declares

LEMMA QuantifiersSequence ==
  ASSUME NEW A, NEW own \in Seq(A)
  PROVE  LET c == Cardinality(Declaring(own))
             n == IF c <= MAX_QUANTIFIER_COUNT THEN c ELSE MAX_QUANTIFIER_COUNT
             order == Ascending(Declaring(own))
         IN  /\ c \in Nat
             /\ QuantifiersOf(own) = [k \in 1 .. n |-> DeclaredAt(order[k], own[order[k]])]
             /\ QuantifiersOf(own) \in Seq(Declarations(A)) /\ Len(QuantifiersOf(own)) = n
             /\ \A k \in 1 .. n : order[k] \in 1 .. Len(own)
  <1> DEFINE S == Declaring(own)
  <1> DEFINE order == Ascending(S)
  <1>1. PICK m \in Nat : m = Len(own)
    OBVIOUS
  <1>2. S \in SUBSET (1 .. m)
    BY <1>1 DEF Declaring
  <1>3. PICK c \in Nat : c = Cardinality(S)
    <2> HIDE DEF S
    <2> QED BY <1>2, RankBounds
  <1>4. DOMAIN order = 1 .. c /\ \A k \in 1 .. c : order[k] \in S
    <2> HIDE DEF S
    <2> QED BY <1>2, <1>3, AscendingProperties
  <1>5. PICK n \in Nat : n = IF c <= MAX_QUANTIFIER_COUNT THEN c ELSE MAX_QUANTIFIER_COUNT
    BY ConllAssumption
  <1>6. {k \in 1 .. c : k <= MAX_QUANTIFIER_COUNT} = 1 .. n
    BY <1>5, ConllAssumption
  <1>7. QuantifiersOf(own) = [k \in 1 .. n |-> DeclaredAt(order[k], own[order[k]])]
    <2> HIDE DEF order
    <2> QED BY <1>4, <1>6 DEF QuantifiersOf, order
  <1>8. \A k \in 1 .. n : order[k] \in 1 .. m
    <2>1. \A k \in 1 .. n : k \in 1 .. c
      BY <1>6
    <2> HIDE DEF order, S
    <2> QED BY <2>1, <1>2, <1>4
  <1>9. \A k \in 1 .. n : DeclaredAt(order[k], own[order[k]]) \in Declarations(A)
    <2>1. \A k \in 1 .. n : order[k] \in Nat /\ own[order[k]] \in A
      BY <1>8, <1>1
    <2> HIDE DEF order, S
    <2> QED BY <2>1 DEF Declarations
  <1>10. QuantifiersOf(own) \in Seq(Declarations(A)) /\ Len(QuantifiersOf(own)) = n
    <2> HIDE DEF order, S
    <2> QED BY <1>9, <1>7
  <1> HIDE DEF order
  <1> QED BY <1>1, <1>3, <1>5, <1>7, <1>8, <1>10 DEF order

LEMMA QuantifiersAppend ==
  ASSUME NEW A, NEW own \in Seq(A), NEW l \in A
  PROVE  /\ Declares(l) /\ Len(QuantifiersOf(own)) < MAX_QUANTIFIER_COUNT =>
              QuantifiersOf(Append(own, l)) = Append(QuantifiersOf(own), DeclaredAt(Len(own) + 1, l))
         /\ ~(Declares(l) /\ Len(QuantifiersOf(own)) < MAX_QUANTIFIER_COUNT) =>
              QuantifiersOf(Append(own, l)) = QuantifiersOf(own)
  <1> DEFINE S == Declaring(own)
  <1>1. PICK m \in Nat : m = Len(own)
    OBVIOUS
  <1>2. PICK more \in Seq(A) : more = Append(own, l)
    <2>1. Append(own, l) \in Seq(A)
      OBVIOUS
    <2> QED BY <2>1
  <1>3. /\ DOMAIN own = 1 .. m /\ DOMAIN more = 1 .. m + 1 /\ Len(more) = m + 1
        /\ more[m + 1] = l /\ \A k \in 1 .. m : more[k] = own[k]
    BY <1>1, <1>2
  <1> DEFINE T == Declaring(more)
  <1>4. S \in SUBSET (1 .. m)
    BY <1>3 DEF Declaring
  <1>5. PICK c \in Nat : c = Cardinality(S)
    BY <1>4, RankBounds
  <1>6. PICK n \in Nat : n = IF c <= MAX_QUANTIFIER_COUNT THEN c ELSE MAX_QUANTIFIER_COUNT
    BY ConllAssumption
  <1> HIDE DEF S, T
  <1>7. /\ QuantifiersOf(own) = [k \in 1 .. n |-> DeclaredAt(Ascending(S)[k], own[Ascending(S)[k]])]
        /\ QuantifiersOf(own) \in Seq(Declarations(A)) /\ Len(QuantifiersOf(own)) = n
        /\ \A k \in 1 .. n : Ascending(S)[k] \in 1 .. m
    BY <1>1, <1>5, <1>6, QuantifiersSequence DEF S
  <1>8. PICK old \in Seq(Declarations(A)) : old = QuantifiersOf(own)
    BY <1>7
  <1>9. ASSUME NEW d \in Nat, d = Cardinality(T), NEW p \in Nat,
               p = IF d <= MAX_QUANTIFIER_COUNT THEN d ELSE MAX_QUANTIFIER_COUNT
        PROVE  /\ QuantifiersOf(more) =
                    [k \in 1 .. p |-> DeclaredAt(Ascending(T)[k], more[Ascending(T)[k]])]
               /\ QuantifiersOf(more) \in Seq(Declarations(A)) /\ Len(QuantifiersOf(more)) = p
    BY <1>9, QuantifiersSequence DEF T
  <1>10. \A k \in 1 .. m + 1 : k \in 1 .. m \/ k = m + 1
    OBVIOUS
  <1>11. CASE Declares(l)
    <2>1. T = S \cup {m + 1}
      <3>1. ASSUME NEW k PROVE k \in T <=> k \in S \cup {m + 1}
        BY <1>3, <1>10, <1>11 DEF S, T, Declaring
      <3> QED BY <3>1
    <2>2. /\ Cardinality(T) = c + 1
          /\ Ascending(T)[c + 1] = m + 1
          /\ \A k \in 1 .. c : Ascending(T)[k] = Ascending(S)[k]
      BY <2>1, <1>4, <1>5, AscendingAppend
    <2>3. \A k \in 1 .. n : k \in 1 .. c
      BY <1>6, ConllAssumption
    <2>4. \A k \in 1 .. n : DeclaredAt(Ascending(T)[k], more[Ascending(T)[k]]) = old[k]
      BY <2>2, <2>3, <1>3, <1>7, <1>8
    <2>5. CASE c < MAX_QUANTIFIER_COUNT
      <3>1. n = c /\ c + 1 \in Nat /\ c + 1 <= MAX_QUANTIFIER_COUNT
        BY <2>5, <1>6, ConllAssumption
      <3>2. /\ QuantifiersOf(more) =
                 [k \in 1 .. c + 1 |-> DeclaredAt(Ascending(T)[k], more[Ascending(T)[k]])]
            /\ QuantifiersOf(more) \in Seq(Declarations(A)) /\ Len(QuantifiersOf(more)) = c + 1
        BY <3>1, <2>2, <1>9
      <3>3. PICK new \in Seq(Declarations(A)) : new = QuantifiersOf(more)
        BY <3>2
      <3>4. new[c + 1] = DeclaredAt(m + 1, l) /\ \A k \in 1 .. c : new[k] = old[k]
        BY <3>1, <3>2, <3>3, <2>2, <2>4, <1>3
      <3>5. DeclaredAt(m + 1, l) \in Declarations(A)
        <4>1. m + 1 \in Nat
          OBVIOUS
        <4>2. \A k \in Nat : \A x \in A : DeclaredAt(k, x) \in Declarations(A)
          BY DEF Declarations
        <4> QED BY <4>1, <4>2
      <3>6. Len(new) = c + 1 /\ Len(old) = c
        BY <3>1, <3>2, <3>3, <1>7, <1>8
      <3>7. new = Append(old, DeclaredAt(m + 1, l))
        BY <3>4, <3>5, <3>6, IsAppend
      <3> QED BY <3>1, <3>3, <3>7, <2>5, <1>1, <1>2, <1>7, <1>8, <1>11
    <2>6. CASE ~(c < MAX_QUANTIFIER_COUNT)
      <3>1. n = MAX_QUANTIFIER_COUNT /\ c + 1 \in Nat /\ ~(c + 1 <= MAX_QUANTIFIER_COUNT)
        BY <2>6, <1>6, ConllAssumption
      <3>2. /\ QuantifiersOf(more) =
                 [k \in 1 .. n |-> DeclaredAt(Ascending(T)[k], more[Ascending(T)[k]])]
        BY <3>1, <2>2, <1>9
      <3>3. QuantifiersOf(more) = QuantifiersOf(own)
        BY <3>2, <2>4, <1>7, <1>8
      <3>4. ~(Len(QuantifiersOf(own)) < MAX_QUANTIFIER_COUNT)
        BY <3>1, <1>7, ConllAssumption
      <3> QED BY <3>3, <3>4, <1>2
    <2> QED BY <2>5, <2>6
  <1>12. CASE ~Declares(l)
    <2>1. T = S
      <3>1. ASSUME NEW k PROVE k \in T <=> k \in S
        BY <1>3, <1>10, <1>12 DEF S, T, Declaring
      <3> QED BY <3>1
    <2>2. QuantifiersOf(more) =
                 [k \in 1 .. n |-> DeclaredAt(Ascending(T)[k], more[Ascending(T)[k]])]
      BY <2>1, <1>5, <1>6, <1>9
    <2>3. QuantifiersOf(more) = QuantifiersOf(own)
      BY <2>1, <2>2, <1>3, <1>7
    <2> QED BY <2>3, <1>2, <1>12
  <1> QED BY <1>11, <1>12

-------------------------------------------------------------------------------
(* The order of the scopes                                                 *)
Nearer(t, i, q, p) ==
  \/ ScopeDistance(t, q, i) < ScopeDistance(t, p, i)
  \/ ScopeDistance(t, q, i) = ScopeDistance(t, p, i) /\ q < p

IsMeasured(t, i, S) == \A q \in S : q \in Nat /\ ScopeDistance(t, q, i) \in Nat

LEMMA NearerOrders ==
  ASSUME NEW t, NEW i, NEW S, IsMeasured(t, i, S), NEW p \in S, NEW q \in S
  PROVE  /\ ~(Nearer(t, i, q, p) /\ Nearer(t, i, p, q)) /\ ~Nearer(t, i, p, p)
         /\ p # q => Nearer(t, i, q, p) \/ Nearer(t, i, p, q)
  <1>1. p \in Nat /\ q \in Nat
    BY DEF IsMeasured
  <1>2. PICK d \in Nat : d = ScopeDistance(t, p, i)
    BY DEF IsMeasured
  <1>3. PICK e \in Nat : e = ScopeDistance(t, q, i)
    BY DEF IsMeasured
  <1> QED BY <1>1, <1>2, <1>3 DEF Nearer

LEMMA NearestProperties ==
  ASSUME NEW t, NEW i, NEW S, S # {}, IsMeasured(t, i, S)
  PROVE  Nearest(t, i, S) \in S /\ \A p \in S \ {Nearest(t, i, S)} : Nearer(t, i, Nearest(t, i, S), p)
  <1> DEFINE D == {ScopeDistance(t, q, i) : q \in S}
  <1>1. D \in SUBSET Nat /\ D # {}
    BY DEF IsMeasured
  <1>2. PICK d \in D : \A e \in D : d <= e
    <2> HIDE DEF D
    <2> QED BY <1>1, LeastExists
  <1> DEFINE Q == {q \in S : ScopeDistance(t, q, i) = d}
  <1>3. Q \in SUBSET Nat /\ Q # {}
    BY DEF IsMeasured
  <1>4. PICK q \in Q : \A p \in Q : q <= p
    <2> HIDE DEF Q
    <2> QED BY <1>3, LeastExists
  <1>5. ASSUME NEW p \in S \ {q} PROVE Nearer(t, i, q, p)
    <2>1. q \in Nat /\ p \in Nat /\ d \in Nat /\ d = ScopeDistance(t, q, i)
      BY <1>1, <1>3 DEF IsMeasured
    <2>2. PICK e \in Nat : e = ScopeDistance(t, p, i)
      BY DEF IsMeasured
    <2>3. d <= e
      BY <1>2, <2>2
    <2>4. CASE d = e
      <3>1. p \in Q
        BY <2>2, <2>4
      <3>2. q <= p /\ p # q
        BY <3>1, <1>4
      <3> QED BY <2>1, <2>2, <2>4, <3>2 DEF Nearer
    <2>5. CASE d # e
      <3>1. d < e
        BY <2>1, <2>2, <2>3, <2>5
      <3> QED BY <3>1, <2>1, <2>2 DEF Nearer
    <2> QED BY <2>4, <2>5
  <1>6. \E r \in S : \A p \in S \ {r} :
          \/ ScopeDistance(t, r, i) < ScopeDistance(t, p, i)
          \/ ScopeDistance(t, r, i) = ScopeDistance(t, p, i) /\ r < p
    <2>1. q \in S /\ \A p \in S \ {q} : Nearer(t, i, q, p)
      BY <1>5
    <2> HIDE DEF Q, D
    <2> QED BY <2>1, Zenon DEF Nearer
  <1>7. /\ Nearest(t, i, S) \in S
        /\ \A p \in S \ {Nearest(t, i, S)} :
              \/ ScopeDistance(t, Nearest(t, i, S), i) < ScopeDistance(t, p, i)
              \/ ScopeDistance(t, Nearest(t, i, S), i) = ScopeDistance(t, p, i) /\ Nearest(t, i, S) < p
    BY <1>6, Zenon DEF Nearest
  <1> QED BY <1>7, Zenon DEF Nearer

Leaves(t, i, S, left) ==
  left = [k \in 0 .. Cardinality(S) |->
            IF k = 0 THEN S ELSE left[k - 1] \ {Nearest(t, i, left[k - 1])}]

(* left[k] is left when k have been listed.                                *)
IsLeft(t, i, S, c, left) ==
  /\ left[0] = S
  /\ \A k \in 1 .. c : left[k] = left[k - 1] \ {Nearest(t, i, left[k - 1])}
  /\ NearestFirst(t, i, S) = [k \in 1 .. c |-> Nearest(t, i, left[k - 1])]

LEMMA NearestFirstUnfolds ==
  ASSUME NEW t, NEW i, NEW S, NEW c \in Nat, c = Cardinality(S)
  PROVE  \E left \in [0 .. c -> SUBSET S] : IsLeft(t, i, S, c, left)
  <1> DEFINE P == SUBSET S
             step == [q \in (1 .. c) \X P |-> q[2] \ {Nearest(t, i, q[2])}]
  <1>1. S \in P /\ step \in [(1 .. c) \X P -> P]
    OBVIOUS
  <1>2. PICK f \in [0 .. c -> P] : Unfolds(f, c, S, step)
    <2> HIDE DEF P, step
    <2> QED BY <1>1, RecursionExists
  <1>3. ASSUME NEW k \in 0 .. c
        PROVE  f[k] = IF k = 0 THEN S ELSE f[k - 1] \ {Nearest(t, i, f[k - 1])}
    <2>1. f[k] = IF k = 0 THEN S ELSE step[<<k, f[k - 1]>>]
      <3> HIDE DEF step
      <3> QED BY <1>2 DEF Unfolds
    <2>2. CASE k # 0
      <3>1. k \in 1 .. c /\ k - 1 \in 0 .. c
        BY <2>2
      <3>2. f[k - 1] \in P
        <4> HIDE DEF P
        <4> QED BY <1>2, <3>1
      <3>3. PICK s : s = f[k - 1]
        OBVIOUS
      <3>4. step[<<k, s>>] = s \ {Nearest(t, i, s)}
        BY <3>1, <3>2, <3>3
      <3> QED BY <2>1, <2>2, <3>3, <3>4
    <2> QED BY <2>1, <2>2
  <1>4. Leaves(t, i, S, f)
    <2> HIDE DEF P, step
    <2>1. f = [k \in 0 .. c |-> IF k = 0 THEN S ELSE f[k - 1] \ {Nearest(t, i, f[k - 1])}]
      BY <1>2, <1>3
    <2> QED BY <2>1, Zenon DEF Leaves
  <1> DEFINE d == CHOOSE left : Leaves(t, i, S, left)
  <1>5. Leaves(t, i, S, d)
    BY <1>4, Zenon
  <1>6. NearestFirst(t, i, S) = [k \in 1 .. Cardinality(S) |-> Nearest(t, i, d[k - 1])]
    BY Zenon DEF NearestFirst, Leaves
  <1>7. PICK left : left = d
    OBVIOUS
  <1>8. /\ Leaves(t, i, S, left)
        /\ NearestFirst(t, i, S) = [k \in 1 .. c |-> Nearest(t, i, left[k - 1])]
    BY <1>5, <1>6, <1>7, Zenon
  <1> HIDE DEF d
  <1>9. left = [k \in 0 .. c |-> IF k = 0 THEN S ELSE left[k - 1] \ {Nearest(t, i, left[k - 1])}]
    BY <1>8, Zenon DEF Leaves
  <1>10. DOMAIN left = 0 .. c /\ left[0] = S
         /\ \A k \in 1 .. c : left[k] = left[k - 1] \ {Nearest(t, i, left[k - 1])}
    <2>1. 0 \in 0 .. c /\ \A k \in 1 .. c : k \in 0 .. c /\ k # 0
      OBVIOUS
    <2> QED BY <1>9, <2>1
  <1>11. \A k \in 0 .. c : left[k] \in P
    <2> DEFINE T == {k \in 0 .. c : left[k] \in P}
    <2>1. 0 \in T
      BY <1>10
    <2>2. ASSUME NEW k \in 1 .. c, k - 1 \in T PROVE k \in T
      <3>1. k \in 0 .. c /\ left[k] = left[k - 1] \ {Nearest(t, i, left[k - 1])}
        BY <1>10
      <3> QED BY <3>1, <2>2
    <2>3. 0 .. c \subseteq T
      <3> HIDE DEF T
      <3> QED BY <2>1, <2>2, IntervalInduction
    <2> QED BY <2>3
  <1>12. left \in [0 .. c -> P]
    <2>1. left = [k \in 0 .. c |-> left[k]]
      BY <1>9, <1>10
    <2> HIDE DEF P
    <2> QED BY <1>10, <1>11, <2>1
  <1> QED BY <1>8, <1>10, <1>12 DEF IsLeft

LEMMA NearestFirstProperties ==
  ASSUME NEW t, NEW i, NEW S, IsFiniteSet(S), IsMeasured(t, i, S), NEW c \in Nat, c = Cardinality(S)
  PROVE  LET order == NearestFirst(t, i, S)
         IN  /\ order \in [1 .. c -> S]
             /\ \A k \in 1 .. c : \A j \in 1 .. k - 1 : Nearer(t, i, order[j], order[k])
             /\ \A q \in S : \E k \in 1 .. c : order[k] = q
  <1>01. PICK left \in [0 .. c -> SUBSET S] : IsLeft(t, i, S, c, left)
    BY NearestFirstUnfolds
  <1>1. /\ left[0] = S
        /\ \A k \in 1 .. c : left[k] = left[k - 1] \ {Nearest(t, i, left[k - 1])}
        /\ NearestFirst(t, i, S) = [k \in 1 .. c |-> Nearest(t, i, left[k - 1])]
    BY <1>01, Zenon DEF IsLeft
  <1>2. PICK order : order = NearestFirst(t, i, S)
    OBVIOUS
  <1>3. DOMAIN order = 1 .. c /\ \A k \in 1 .. c : order[k] = Nearest(t, i, left[k - 1])
    BY <1>1, <1>2
  <1>0. \A k \in 1 .. c : k - 1 \in 0 .. c /\ k \in 0 .. c
    OBVIOUS
  <1>4. ASSUME NEW k \in 0 .. c
        PROVE  left[k] \in SUBSET S /\ IsFiniteSet(left[k]) /\ IsMeasured(t, i, left[k])
    <2>1. left[k] \in SUBSET S
      OBVIOUS
    <2>2. PICK L : L = left[k]
      OBVIOUS
    <2>3. IsFiniteSet(L)
      BY <2>1, <2>2, FS_Subset
    <2>4. IsMeasured(t, i, L)
      BY <2>1, <2>2 DEF IsMeasured
    <2> QED BY <2>1, <2>2, <2>3, <2>4
  <1>5. \A k \in 1 .. c : left[k - 1] # {} =>
           /\ order[k] \in left[k - 1]
           /\ \A p \in left[k] : Nearer(t, i, order[k], p)
    <2>1. ASSUME NEW k \in 1 .. c, left[k - 1] # {}
          PROVE  order[k] \in left[k - 1] /\ \A p \in left[k] : Nearer(t, i, order[k], p)
      <3>1. PICK L : L = left[k - 1]
        OBVIOUS
      <3>2. L # {} /\ IsMeasured(t, i, L)
        BY <1>0, <1>4, <2>1, <3>1
      <3>3. Nearest(t, i, L) \in L /\ \A p \in L \ {Nearest(t, i, L)} : Nearer(t, i, Nearest(t, i, L), p)
        BY <3>2, NearestProperties
      <3>4. order[k] = Nearest(t, i, L) /\ left[k] = L \ {Nearest(t, i, L)}
        BY <1>1, <1>3, <3>1
      <3> QED BY <3>1, <3>3, <3>4
    <2> QED BY <2>1
  <1>6. \A k \in 0 .. c : Cardinality(left[k]) = c - k
    <2> DEFINE T == {k \in 0 .. c : Cardinality(left[k]) = c - k}
    <2>1. 0 \in T
      BY <1>1
    <2>2. ASSUME NEW k \in 1 .. c, k - 1 \in T PROVE k \in T
      <3>1. PICK L : L = left[k - 1]
        OBVIOUS
      <3>2. Cardinality(L) = c - (k - 1) /\ IsFiniteSet(L)
        BY <2>2, <3>1, <1>0, <1>4
      <3>3. L # {}
        <4>1. c - (k - 1) # 0
          OBVIOUS
        <4> QED BY <4>1, <3>2, FS_EmptySet
      <3>4. PICK q \in L : q = order[k]
        BY <3>1, <3>3, <1>5
      <3>5. left[k] = L \ {q}
        BY <3>1, <3>4, <1>1, <1>3
      <3>6. Cardinality(L \ {q}) = Cardinality(L) - 1
        BY <3>2, FS_RemoveElement
      <3>7. Cardinality(left[k]) = c - k
        BY <3>2, <3>5, <3>6
      <3> QED BY <3>7, <1>0
    <2>3. 0 .. c \subseteq T
      <3> HIDE DEF T
      <3> QED BY <2>1, <2>2, IntervalInduction
    <2> QED BY <2>3
  <1>7. \A k \in 1 .. c : left[k - 1] # {}
    <2>1. ASSUME NEW k \in 1 .. c PROVE left[k - 1] # {}
      <3>1. Cardinality(left[k - 1]) = c - (k - 1) /\ c - (k - 1) # 0
        BY <1>0, <1>6
      <3> QED BY <3>1, FS_EmptySet
    <2> QED BY <2>1
  <1>8. \A k \in 1 .. c : order[k] \in left[k - 1] /\ order[k] \in S
    BY <1>0, <1>4, <1>5, <1>7
  <1>9. order \in [1 .. c -> S]
    <2>1. order = [k \in 1 .. c |-> order[k]]
      BY <1>1, <1>2, <1>3
    <2> QED BY <2>1, <1>8
  <1>10. \A j \in 1 .. c : \A k \in 0 .. c : j <= k => left[k] \subseteq left[j]
    <2> DEFINE T == {k \in 0 .. c : \A j \in 1 .. c : j <= k => left[k] \subseteq left[j]}
    <2>1. 0 \in T
      OBVIOUS
    <2>2. ASSUME NEW k \in 1 .. c, k - 1 \in T PROVE k \in T
      <3>1. ASSUME NEW j \in 1 .. c, j <= k PROVE left[k] \subseteq left[j]
        <4>1. j = k \/ j <= k - 1
          BY <3>1
        <4>2. left[k] \subseteq left[k - 1]
          BY <1>1
        <4> QED BY <4>1, <4>2, <2>2
      <3> QED BY <3>1, <1>0
    <2>3. 0 .. c \subseteq T
      <3> HIDE DEF T
      <3> QED BY <2>1, <2>2, IntervalInduction
    <2> QED BY <2>3
  <1>11. ASSUME NEW k \in 1 .. c, NEW j \in 1 .. k - 1 PROVE Nearer(t, i, order[j], order[k])
    <2>1. j \in 1 .. c /\ k - 1 \in 0 .. c /\ j <= k - 1
      OBVIOUS
    <2>2. order[k] \in left[j]
      BY <2>1, <1>8, <1>10
    <2> QED BY <2>1, <2>2, <1>5, <1>7
  <1>12. \A k \in 0 .. c : \A q \in S : q \in left[k] \/ \E j \in 1 .. c : order[j] = q
    <2> DEFINE T == {k \in 0 .. c : \A q \in S : q \in left[k] \/ \E j \in 1 .. c : order[j] = q}
    <2>1. 0 \in T
      BY <1>1
    <2>2. ASSUME NEW k \in 1 .. c, k - 1 \in T PROVE k \in T
      <3>1. left[k] = left[k - 1] \ {order[k]}
        BY <1>1, <1>3
      <3> QED BY <3>1, <2>2, <1>0
    <2>3. 0 .. c \subseteq T
      <3> HIDE DEF T
      <3> QED BY <2>1, <2>2, IntervalInduction
    <2> QED BY <2>3
  <1>13. left[c] = {}
    <2>1. c \in 0 .. c /\ c - c = 0
      OBVIOUS
    <2>2. Cardinality(left[c]) = 0 /\ IsFiniteSet(left[c])
      BY <2>1, <1>4, <1>6
    <2> QED BY <2>2, FS_EmptySet
  <1>14. \A q \in S : \E k \in 1 .. c : order[k] = q
    <2>1. c \in 0 .. c
      OBVIOUS
    <2> QED BY <2>1, <1>12, <1>13
  <1> QED BY <1>2, <1>9, <1>11, <1>14

-------------------------------------------------------------------------------
(* A line read                                                             *)
IsLine(line) ==
  /\ line.columns \in Nat
  /\ line.subjSpan = <<>> \/ line.subjSpan \in (Nat \ {0}) \X (Nat \ {0})
  /\ line.objSpan = <<>> \/ line.objSpan \in (Nat \ {0}) \X (Nat \ {0})

LEMMA SpanRead ==
  ASSUME NEW span \in (Nat \ {0}) \X (Nat \ {0}), \A n \in Range(span) : n <= SpanEnds
  PROVE  StringToSpan(span) = <<span[1] - 1, span[2] - 1>>
  <1>1. PICK e \in Nat \ {0} : e = SpanEnds
    BY ConllAssumption
  <1>2. PICK m \in Nat \ {0}, n \in Nat \ {0} : span = <<m, n>>
    OBVIOUS
  <1>3. span[1] = m /\ span[2] = n /\ DOMAIN span = 1 .. 2
    BY <1>2
  <1>4. m \in Range(span) /\ n \in Range(span)
    <2>1. 1 \in 1 .. 2 /\ 2 \in 1 .. 2
      OBVIOUS
    <2> QED BY <2>1, <1>3 DEF Range
  <1>5. m <= e /\ n <= e
    BY <1>1, <1>4
  <1>6. \A k \in Nat \ {0} : k <= e => (k - 1) % e = k - 1
    OBVIOUS
  <1>7. (m - 1) % e = m - 1 /\ (n - 1) % e = n - 1
    BY <1>5, <1>6
  <1> QED BY <1>1, <1>3, <1>7 DEF StringToSpan

LEMMA NonmonotoneMarker == MarkerOf("nonmonotone") = Marking("FLAT", "NONE")
  BY Zenon DEF MarkerOf

LEMMA FieldsRead ==
  ASSUME NEW l, IsLine(l), WellFormed(l), Narrow(l), Declares(l), NEW k \in Nat
  PROVE  QuantifierAt(k, ReadFields(l)) = DeclaredAt(k + 1, l)
  <1>1. Has(l, 6) /\ Has(l, 7) /\ Has(l, 8) /\ Has(l, 9) /\ DeclaresQuantifier(l)
    BY DEF Declares, Has, IsLine
  <1>2. /\ l.subjMono \in Markers /\ l.subjSpan # <<>> /\ l.objMono \in Markers \cup {"-"}
    BY <1>1 DEF WellFormed
  <1>3. SubjectMarking(l) = MarkerOf(l.subjMono)
    BY <1>1, <1>2, Zenon DEF SubjectMarking, StringToMonotonicity
  <1>4. \A n \in Range(l.subjSpan) : n <= SpanEnds
    BY <1>1 DEF Narrow
  <1>5. \A n \in Range(l.objSpan) : n <= SpanEnds
    BY <1>1 DEF Narrow
  <1>6. SubjectSpan(l) = ZeroBasedSpan(l.subjSpan)
    <2>1. l.subjSpan \in (Nat \ {0}) \X (Nat \ {0})
      BY <1>2 DEF IsLine
    <2>2. StringToSpan(l.subjSpan) = <<l.subjSpan[1] - 1, l.subjSpan[2] - 1>>
      BY <2>1, <1>4, SpanRead
    <2> QED BY <1>1, <1>2, <2>2, Zenon DEF SubjectSpan, ZeroBasedSpan
  <1>7. ObjectSpan(l) = ZeroBasedSpan(l.objSpan)
    <2>1. CASE l.objSpan = <<>>
      BY <1>1, <2>1, Zenon DEF ObjectSpan, ZeroBasedSpan
    <2>2. CASE l.objSpan # <<>>
      <3>1. l.objSpan \in (Nat \ {0}) \X (Nat \ {0})
        BY <2>2 DEF IsLine
      <3>2. StringToSpan(l.objSpan) = <<l.objSpan[1] - 1, l.objSpan[2] - 1>>
        BY <3>1, <1>5, SpanRead
      <3> QED BY <1>1, <2>2, <3>2, Zenon DEF ObjectSpan, ZeroBasedSpan
    <2> QED BY <2>1, <2>2
  <1>8. ObjectMarking(l) = MarkerOf(IF l.objMono = "-" THEN "nonmonotone" ELSE l.objMono)
    <2>1. CASE l.objMono = "-"
      BY <1>1, <2>1, NonmonotoneMarker, Zenon DEF ObjectMarking
    <2>2. CASE l.objMono # "-"
      <3>1. l.objMono \in Markers
        BY <1>2, <2>2
      <3> QED BY <1>1, <2>2, <3>1, Zenon DEF ObjectMarking, StringToMonotonicity
    <2> QED BY <2>1, <2>2
  <1>9. k + 1 - 1 = k
    OBVIOUS
  <1>10. ReadFields(l) =
           [subj |-> MarkerOf(l.subjMono), subjSpan |-> ZeroBasedSpan(l.subjSpan),
            obj |-> MarkerOf(IF l.objMono = "-" THEN "nonmonotone" ELSE l.objMono),
            objSpan |-> ZeroBasedSpan(l.objSpan)]
    BY <1>3, <1>6, <1>7, <1>8, Zenon DEF ReadFields
  <1>11. \A j : DeclaredAt(j, l) = QuantifierAt(j - 1, ReadFields(l))
    BY <1>10 DEF DeclaredAt
  <1>12. DeclaredAt(k + 1, l) = QuantifierAt(k + 1 - 1, ReadFields(l))
    BY <1>11
  <1> HIDE DEF DeclaredAt
  <1> QED BY <1>9, <1>12

(* A quantifier's spans are made of numbers.                               *)
LEMMA DeclaredSpans ==
  ASSUME NEW l, IsLine(l), NEW k
  PROVE  DeclaredAt(k, l).subj \in Nat \X Nat /\ DeclaredAt(k, l).obj \in Nat \X Nat
  <1>1. ASSUME NEW span, span = <<>> \/ span \in (Nat \ {0}) \X (Nat \ {0})
        PROVE  ZeroBasedSpan(span) \in Nat \X Nat
    BY <1>1 DEF ZeroBasedSpan
  <1>2. /\ DeclaredAt(k, l).subj = ZeroBasedSpan(l.subjSpan)
        /\ DeclaredAt(k, l).obj = ZeroBasedSpan(l.objSpan)
    BY DEF DeclaredAt, QuantifierAt
  <1> QED BY <1>1, <1>2 DEF IsLine

-------------------------------------------------------------------------------
(* The inductive invariant                                                 *)
Proper == \A l \in Range(lines) : WellFormed(l) /\ Narrow(l)

TreeOf(ls) ==
  /\ tokens = DeclaredTokens(ls)
  /\ quantifiers = DeclaredQuantifiers(ls)
  /\ locations = DeclaredLocations(ls)

Order(i) == NearestFirst(Parsed, i, InScope(Parsed, i))

(* The list of token i is in the cache.                                    *)
IsListed(i) ==
  /\ \A k \in DOMAIN Order(i) : scopes[MAX_QUANTIFIER_COUNT * i + k - 1] = Order(i)[k] - 1
  /\ Len(Order(i)) < MAX_QUANTIFIER_COUNT =>
       scopes[MAX_QUANTIFIER_COUNT * i + Len(Order(i))] = MAX_QUANTIFIER_COUNT

ListedUpTo(n) == \A i \in 0 .. n - 1 : IsListed(i)

LinesInv == lineI \in 0 .. Len(lines) /\ TreeOf(SubSeq(lines, 1, lineI))

ScopesInv == lineI \in 0 .. MAX_QUERY_LENGTH /\ TreeOf(lines) /\ ListedUpTo(lineI)

DoneInv == TreeOf(lines) /\ ListedUpTo(MAX_QUERY_LENGTH)

ConllInv ==
  /\ lines \in Responses /\ DOMAIN scopes = Slots
  /\ parsing = "lines" => lineI \in 0 .. Len(lines)
  /\ Proper => /\ parsing # "undefined" => Len(tokens) <= MAX_QUERY_LENGTH
               /\ parsing = "lines" => LinesInv
               /\ parsing = "scopes" => ScopesInv
               /\ parsing = "done" => DoneInv

LEMMA ResponseLines ==
  ASSUME lines \in Responses
  PROVE  lines \in Seq(Range(lines)) /\ \A l \in Range(lines) : IsLine(l)
  <1>1. \A line \in Range(lines) :
          /\ line.columns \in Nat
          /\ {line.subjSpan, line.objSpan} \subseteq {<<>>} \cup (Nat \ {0}) \X (Nat \ {0})
    BY ResponsesAssumption
  <1>2. lines \in Seq(Range(lines))
    BY ResponsesAssumption
  <1>3. ASSUME NEW l \in Range(lines) PROVE IsLine(l)
    <2>1. {l.subjSpan, l.objSpan} \subseteq {<<>>} \cup (Nat \ {0}) \X (Nat \ {0})
      BY <1>1
    <2>2. l.columns \in Nat
      BY <1>1
    <2> QED BY <2>1, <2>2 DEF IsLine
  <1> QED BY <1>2, <1>3

LEMMA EmptyTree ==
  /\ DeclaredTokens(<<>>) = <<>> /\ DeclaredQuantifiers(<<>>) = <<>>
  /\ DeclaredLocations(<<>>) = {}
  <1>1. TokenLines(<<>>) = <<>>
    BY TokenLinesEmpty
  <1>2. DOMAIN TokenLines(<<>>) = {}
    <2>1. DOMAIN <<>> = {}
      OBVIOUS
    <2> QED BY <2>1, <1>1
  <1>3. DeclaredTokens(<<>>) = <<>>
    <2> DEFINE f == [k \in DOMAIN TokenLines(<<>>) |-> TokenOf(TokenLines(<<>>)[k])]
    <2>1. DOMAIN f = {} /\ f = [k \in DOMAIN f |-> f[k]]
      BY <1>2
    <2>2. f = <<>>
      <3> HIDE DEF f
      <3> QED BY <2>1
    <2> QED BY <2>2, Zenon DEF DeclaredTokens
  <1>4. DeclaredQuantifiers(<<>>) = <<>>
    <2>1. Declaring(<<>>) = {}
      BY DEF Declaring
    <2>2. Cardinality(Declaring(<<>>)) = 0
      BY <2>1, FS_EmptySet
    <2>3. QuantifiersOf(<<>>) \in Seq(Declarations({})) /\ Len(QuantifiersOf(<<>>)) = 0
      <3>1. <<>> \in Seq({}) /\ 0 <= MAX_QUANTIFIER_COUNT
        BY ConllAssumption
      <3> QED BY <3>1, <2>2, QuantifiersSequence
    <2>4. QuantifiersOf(<<>>) = <<>>
      BY <2>3, EmptySeq
    <2> QED BY <2>4, <1>1, DeclaredQuantifiersOf
  <1>5. DeclaredLocations(<<>>) = {}
    BY <1>2 DEF DeclaredLocations
  <1> QED BY <1>3, <1>4, <1>5

LEMMA TokensSequence ==
  ASSUME NEW A, NEW ls \in Seq(A) PROVE Len(DeclaredTokens(ls)) \in Nat
  <1>1. TokenLines(ls) \in Seq(A)
    <2>1. CASE ls = <<>>
      BY <2>1, TokenLinesEmpty
    <2>2. CASE ls # <<>>
      <3>1. PICK l \in A : TRUE
        <4>1. ls[1] \in A
          BY <2>2
        <4> QED BY <4>1
      <3> QED BY TokenLinesAppend
    <2> QED BY <2>1, <2>2
  <1>2. PICK own \in Seq(A) : own = TokenLines(ls)
    BY <1>1
  <1>3. PICK m \in Nat : m = Len(own)
    OBVIOUS
  <1>4. DeclaredTokens(ls) = [k \in 1 .. m |-> TokenOf(own[k])]
    BY <1>2, <1>3 DEF DeclaredTokens
  <1>5. PICK B : B = {TokenOf(own[k]) : k \in 1 .. m}
    OBVIOUS
  <1>6. \A k \in 1 .. m : TokenOf(own[k]) \in B
    BY <1>5
  <1>7. [k \in 1 .. m |-> TokenOf(own[k])] \in Seq(B)
    BY <1>6
  <1> QED BY <1>4, <1>7

(* What a further line adds.                                               *)
LEMMA TreeAppend ==
  ASSUME NEW A, NEW ls \in Seq(A), NEW l \in A
  PROVE  LET own == TokenLines(ls)
         IN  /\ Len(DeclaredTokens(ls)) = Len(own)
             /\ Has(l, 1) =>
                  /\ DeclaredTokens(Append(ls, l)) = Append(DeclaredTokens(ls), TokenOf(l))
                  /\ DeclaredLocations(Append(ls, l)) =
                       IF Has(l, 10) /\ l.flags \cap {"l", "L"} # {} THEN DeclaredLocations(ls) \cup {Len(own)}
                                                     ELSE DeclaredLocations(ls)
                  /\ DeclaredQuantifiers(Append(ls, l)) =
                       IF Declares(l) /\ Len(DeclaredQuantifiers(ls)) < MAX_QUANTIFIER_COUNT
                       THEN Append(DeclaredQuantifiers(ls), DeclaredAt(Len(own) + 1, l))
                       ELSE DeclaredQuantifiers(ls)
             /\ ~Has(l, 1) =>
                  /\ DeclaredTokens(Append(ls, l)) = DeclaredTokens(ls)
                  /\ DeclaredLocations(Append(ls, l)) = DeclaredLocations(ls)
                  /\ DeclaredQuantifiers(Append(ls, l)) = DeclaredQuantifiers(ls)
  <1>1. /\ TokenLines(ls) \in Seq(A)
        /\ Has(l, 1) => TokenLines(Append(ls, l)) = Append(TokenLines(ls), l)
        /\ ~Has(l, 1) => TokenLines(Append(ls, l)) = TokenLines(ls)
    BY TokenLinesAppend
  <1>2. PICK own \in Seq(A) : own = TokenLines(ls)
    BY <1>1
  <1>3. PICK m \in Nat : m = Len(own)
    OBVIOUS
  <1>4. DOMAIN own = 1 .. m
    BY <1>3
  <1> DEFINE B == {TokenOf(x) : x \in A}
  <1> DEFINE was == [k \in 1 .. m |-> TokenOf(own[k])]
  <1>5. DeclaredTokens(ls) = was
    BY <1>2, <1>4 DEF DeclaredTokens
  <1>6. was \in Seq(B) /\ Len(was) = m
    <2>1. \A k \in 1 .. m : own[k] \in A
      BY <1>4
    <2>2. \A k \in 1 .. m : TokenOf(own[k]) \in B
      BY <2>1
    <2> HIDE DEF B
    <2> QED BY <2>2
  <1>7. CASE Has(l, 1)
    <2>1. PICK more \in Seq(A) : more = Append(own, l) /\ more = TokenLines(Append(ls, l))
      <3>1. Append(own, l) \in Seq(A)
        OBVIOUS
      <3> QED BY <3>1, <1>1, <1>2, <1>7
    <2>2. /\ DOMAIN more = 1 .. m + 1 /\ more[m + 1] = l
          /\ \A k \in 1 .. m : more[k] = own[k]
      <3>1. more = Append(own, l)
        BY <2>1
      <3> HIDE <2>1
      <3> QED BY <3>1, <1>3
    <2>3. \A k \in 1 .. m + 1 : k \in 1 .. m \/ k = m + 1
      OBVIOUS
    <2>4. DeclaredTokens(Append(ls, l)) = Append(was, TokenOf(l))
      <3> DEFINE now == [k \in 1 .. m + 1 |-> TokenOf(more[k])]
      <3>1. DeclaredTokens(Append(ls, l)) = now
        BY <2>1, <2>2 DEF DeclaredTokens
      <3>2. now \in Seq(B) /\ Len(now) = m + 1
        <4>1. \A k \in 1 .. m + 1 : more[k] \in A
          BY <2>2, <2>1
        <4>2. \A k \in 1 .. m + 1 : TokenOf(more[k]) \in B
          BY <4>1
        <4> HIDE DEF B
        <4> QED BY <4>2
      <3>3. now[m + 1] = TokenOf(l) /\ TokenOf(l) \in B
        BY <2>2
      <3>4. \A k \in 1 .. m : now[k] = was[k]
        BY <2>2, <2>3
      <3> HIDE DEF B, now, was
      <3>5. now = Append(was, TokenOf(l))
        BY <3>2, <3>3, <3>4, <1>6, IsAppend
      <3> QED BY <3>1, <3>5
    <2>5. DeclaredLocations(Append(ls, l)) =
            IF Has(l, 10) /\ l.flags \cap {"l", "L"} # {} THEN DeclaredLocations(ls) \cup {m}
                                          ELSE DeclaredLocations(ls)
      <3> DEFINE P(o, j) == Has(o[j], 10) /\ o[j].flags \cap {"l", "L"} # {}
      <3>1. DeclaredLocations(ls) = {k - 1 : k \in {j \in 1 .. m : P(own, j)}}
        BY <1>2, <1>4, Zenon DEF DeclaredLocations
      <3>2. DeclaredLocations(Append(ls, l)) = {k - 1 : k \in {j \in 1 .. m + 1 : P(more, j)}}
        BY <2>1, <2>2, Zenon DEF DeclaredLocations
      <3>3. \A j \in 1 .. m : P(more, j) <=> P(own, j)
        BY <2>2
      <3>4. P(more, m + 1) <=> Has(l, 10) /\ l.flags \cap {"l", "L"} # {}
        BY <2>2
      <3> HIDE DEF P
      <3>5. \A j : j \in {i \in 1 .. m + 1 : P(more, i)} <=>
                     \/ j \in {i \in 1 .. m : P(own, i)}
                     \/ j = m + 1 /\ (Has(l, 10) /\ l.flags \cap {"l", "L"} # {})
        BY <2>3, <3>3, <3>4
      <3>6. (m + 1) - 1 = m
        OBVIOUS
      <3>7. \A x : x \in DeclaredLocations(Append(ls, l)) <=>
                     \/ x \in DeclaredLocations(ls)
                     \/ x = m /\ (Has(l, 10) /\ l.flags \cap {"l", "L"} # {})
        BY <3>1, <3>2, <3>5, <3>6
      <3> QED BY <3>7
    <2>6. DeclaredQuantifiers(Append(ls, l)) =
            IF Declares(l) /\ Len(DeclaredQuantifiers(ls)) < MAX_QUANTIFIER_COUNT
            THEN Append(DeclaredQuantifiers(ls), DeclaredAt(m + 1, l))
            ELSE DeclaredQuantifiers(ls)
      <3>1. DeclaredQuantifiers(ls) = QuantifiersOf(own)
        BY <1>2, DeclaredQuantifiersOf
      <3>2. DeclaredQuantifiers(Append(ls, l)) = QuantifiersOf(Append(own, l))
        BY <2>1, DeclaredQuantifiersOf
      <3>3. QuantifiersOf(Append(own, l)) =
              IF Declares(l) /\ Len(QuantifiersOf(own)) < MAX_QUANTIFIER_COUNT
              THEN Append(QuantifiersOf(own), DeclaredAt(m + 1, l)) ELSE QuantifiersOf(own)
        <4>1. m = Len(own)
          BY <1>3
        <4> QED BY <4>1, QuantifiersAppend
      <3> QED BY <3>1, <3>2, <3>3
    <2> QED BY <2>4, <2>5, <2>6, <1>2, <1>3, <1>5, <1>6, <1>7
  <1>8. CASE ~Has(l, 1)
    <2>1. TokenLines(Append(ls, l)) = TokenLines(ls)
      BY <1>1, <1>8
    <2>2. /\ DeclaredTokens(Append(ls, l)) = DeclaredTokens(ls)
          /\ DeclaredLocations(Append(ls, l)) = DeclaredLocations(ls)
          /\ DeclaredQuantifiers(Append(ls, l)) = DeclaredQuantifiers(ls)
      BY <2>1, Zenon DEF DeclaredTokens, DeclaredLocations, DeclaredQuantifiers
    <2> QED BY <2>2, <1>2, <1>3, <1>5, <1>6, <1>8
  <1> QED BY <1>7, <1>8

LEMMA NextLineOf ==
  ASSUME NEW A, NEW ls \in Seq(A), NEW n \in 0 .. Len(ls), n < Len(ls)
  PROVE  /\ SubSeq(ls, 1, n) \in Seq(A) /\ ls[n + 1] \in A
         /\ SubSeq(ls, 1, n + 1) = Append(SubSeq(ls, 1, n), ls[n + 1])
  <1>1. n + 1 \in 1 .. Len(ls)
    OBVIOUS
  <1>2. /\ SubSeq(ls, 1, n) \in Seq(A) /\ Len(SubSeq(ls, 1, n)) = n
        /\ SubSeq(ls, 1, n + 1) \in Seq(A) /\ Len(SubSeq(ls, 1, n + 1)) = n + 1
    BY <1>1
  <1>3. PICK s \in Seq(A) : s = SubSeq(ls, 1, n)
    BY <1>2
  <1>4. PICK t \in Seq(A) : t = SubSeq(ls, 1, n + 1)
    BY <1>2
  <1>5. /\ t[n + 1] = ls[n + 1]
        /\ \A k \in 1 .. n : t[k] = s[k]
    BY <1>1, <1>3, <1>4
  <1>6. ls[n + 1] \in A
    BY <1>1
  <1>7. t = Append(s, ls[n + 1])
    BY <1>2, <1>3, <1>4, <1>5, <1>6, IsAppend
  <1> QED BY <1>2, <1>3, <1>4, <1>6, <1>7

LEMMA ConllInitInv == ConllInit => ConllInv
  <1> SUFFICES ASSUME ConllInit PROVE ConllInv
    OBVIOUS
  <1>1. /\ lines \in Responses /\ lineI = 0 /\ tokens = <<>> /\ quantifiers = <<>>
        /\ locations = {} /\ parsing = "lines" /\ DOMAIN scopes = Slots
    BY DEF ConllInit
  <1>2. lines \in Seq(Range(lines))
    BY <1>1, ResponseLines
  <1>3. 0 \in 0 .. Len(lines) /\ SubSeq(lines, 1, 0) = <<>>
    BY <1>2
  <1>4. LinesInv
    BY <1>1, <1>3, EmptyTree DEF LinesInv, TreeOf
  <1>5. Len(tokens) <= MAX_QUERY_LENGTH
    BY <1>1, ConllAssumption
  <1> QED BY <1>1, <1>3, <1>4, <1>5 DEF ConllInv

LEMMA SkipLineInv == ConllInv /\ SkipLine => ConllInv'
  <1> SUFFICES ASSUME ConllInv, SkipLine PROVE ConllInv'
    OBVIOUS
  <1>1. /\ parsing = "lines" /\ lineI < Len(lines) /\ ~Has(lines[lineI + 1], 1)
        /\ lineI' = lineI + 1 /\ lines' = lines /\ tokens' = tokens /\ quantifiers' = quantifiers
        /\ locations' = locations /\ scopes' = scopes /\ parsing' = parsing
    BY DEF SkipLine
  <1>2. /\ lines \in Responses /\ lineI \in 0 .. Len(lines) /\ DOMAIN scopes = Slots
        /\ Proper => Len(tokens) <= MAX_QUERY_LENGTH
    BY <1>1 DEF ConllInv
  <1>3. PICK A : A = Range(lines)
    OBVIOUS
  <1>4. PICK ls \in Seq(A) : ls = lines
    BY <1>2, <1>3, ResponseLines
  <1>5. PICK n \in 0 .. Len(ls) : n = lineI
    BY <1>2, <1>4
  <1>6. /\ SubSeq(ls, 1, n) \in Seq(A) /\ ls[n + 1] \in A
        /\ SubSeq(ls, 1, n + 1) = Append(SubSeq(ls, 1, n), ls[n + 1])
    BY <1>1, <1>4, <1>5, NextLineOf
  <1>7. ASSUME Proper PROVE LinesInv'
    <2>1. TreeOf(SubSeq(lines, 1, lineI))
      BY <1>1, <1>7 DEF ConllInv, LinesInv
    <2>2. /\ tokens = DeclaredTokens(SubSeq(ls, 1, n))
          /\ quantifiers = DeclaredQuantifiers(SubSeq(ls, 1, n))
          /\ locations = DeclaredLocations(SubSeq(ls, 1, n))
      BY <2>1, <1>4, <1>5 DEF TreeOf
    <2>3. /\ tokens = DeclaredTokens(SubSeq(ls, 1, n + 1))
          /\ quantifiers = DeclaredQuantifiers(SubSeq(ls, 1, n + 1))
          /\ locations = DeclaredLocations(SubSeq(ls, 1, n + 1))
      <3>1. PICK part \in Seq(A) : part = SubSeq(ls, 1, n)
        BY <1>6
      <3>2. PICK l \in A : l = ls[n + 1]
        BY <1>6
      <3>3. ~Has(l, 1)
        BY <3>2, <1>1, <1>4, <1>5
      <3>4. /\ DeclaredTokens(Append(part, l)) = DeclaredTokens(part)
            /\ DeclaredLocations(Append(part, l)) = DeclaredLocations(part)
            /\ DeclaredQuantifiers(Append(part, l)) = DeclaredQuantifiers(part)
        BY <3>3, TreeAppend
      <3>5. SubSeq(ls, 1, n + 1) = Append(part, l)
        BY <3>1, <3>2, <1>6
      <3> QED BY <3>1, <3>4, <3>5, <2>2
    <2>4. lineI + 1 \in 0 .. Len(lines)
      BY <1>1, <1>4, <1>5
    <2> QED BY <2>3, <2>4, <1>1, <1>4, <1>5 DEF LinesInv, TreeOf
  <1>8. Proper' <=> Proper
    BY <1>1 DEF Proper
  <1>9. lineI + 1 \in 0 .. Len(lines)
    BY <1>1, <1>4, <1>5
  <1> QED BY <1>1, <1>2, <1>7, <1>8, <1>9 DEF ConllInv

LEMMA ReadConllLineInv == ConllInv /\ ReadConllLine => ConllInv'
  <1> SUFFICES ASSUME ConllInv, ReadConllLine PROVE ConllInv'
    OBVIOUS
  <1>1. /\ parsing = "lines" /\ lineI < Len(lines) /\ Has(lines[lineI + 1], 1)
        /\ ~Undefined(lines[lineI + 1])
        /\ lineI' = lineI + 1 /\ lines' = lines /\ scopes' = scopes /\ parsing' = parsing
        /\ ReadToken(lines[lineI + 1])
    BY DEF ReadConllLine
  <1>2. /\ lines \in Responses /\ lineI \in 0 .. Len(lines) /\ DOMAIN scopes = Slots
        /\ Proper => Len(tokens) <= MAX_QUERY_LENGTH
    BY <1>1 DEF ConllInv
  <1>3. PICK A : A = Range(lines)
    OBVIOUS
  <1>4. PICK ls \in Seq(A) : ls = lines
    BY <1>2, <1>3, ResponseLines
  <1>5. PICK n \in 0 .. Len(ls) : n = lineI
    BY <1>2, <1>4
  <1>6. /\ SubSeq(ls, 1, n) \in Seq(A) /\ ls[n + 1] \in A
        /\ SubSeq(ls, 1, n + 1) = Append(SubSeq(ls, 1, n), ls[n + 1])
    BY <1>1, <1>4, <1>5, NextLineOf
  <1>7. PICK l \in A : l = ls[n + 1]
    BY <1>6
  <1>8. /\ tokens' = Append(tokens, TokenOf(l))
        /\ quantifiers' = IF Declares(l) /\ Len(quantifiers) < MAX_QUANTIFIER_COUNT
                          THEN Append(quantifiers, QuantifierAt(Len(tokens), ReadFields(l)))
                          ELSE quantifiers
        /\ locations' = IF Has(l, 10) /\ l.flags \cap {"l", "L"} # {}
                        THEN locations \cup {Len(tokens)} ELSE locations
    <2>1. ReadToken(l)
      BY <1>1, <1>4, <1>5, <1>7
    <2> QED BY <2>1 DEF ReadToken, RegisterQuantifier, Declares
  <1>9. ASSUME Proper PROVE LinesInv' /\ Len(tokens') <= MAX_QUERY_LENGTH
    <2>1. TreeOf(SubSeq(lines, 1, lineI))
      BY <1>1, <1>9 DEF ConllInv, LinesInv
    <2>2. PICK part \in Seq(A) : part = SubSeq(ls, 1, n)
      BY <1>6
    <2>3. /\ tokens = DeclaredTokens(part) /\ quantifiers = DeclaredQuantifiers(part)
          /\ locations = DeclaredLocations(part)
      BY <2>1, <2>2, <1>4, <1>5 DEF TreeOf
    <2>4. WellFormed(l) /\ Narrow(l) /\ IsLine(l)
      BY <1>2, <1>3, <1>9, ResponseLines DEF Proper
    <2>5. PICK m \in Nat : m = Len(TokenLines(part))
      <3>1. TokenLines(part) \in Seq(A)
        BY TokenLinesAppend
      <3> QED BY <3>1
    <2>6. /\ Len(DeclaredTokens(part)) = m
          /\ DeclaredTokens(Append(part, l)) = Append(DeclaredTokens(part), TokenOf(l))
          /\ DeclaredLocations(Append(part, l)) =
               IF Has(l, 10) /\ l.flags \cap {"l", "L"} # {} THEN DeclaredLocations(part) \cup {m}
                                             ELSE DeclaredLocations(part)
          /\ DeclaredQuantifiers(Append(part, l)) =
               IF Declares(l) /\ Len(DeclaredQuantifiers(part)) < MAX_QUANTIFIER_COUNT
               THEN Append(DeclaredQuantifiers(part), DeclaredAt(m + 1, l))
               ELSE DeclaredQuantifiers(part)
      <3>1. Has(l, 1)
        BY <1>1, <1>4, <1>5, <1>7
      <3> QED BY <3>1, <2>5, TreeAppend
    <2>7. Len(tokens) = m
      BY <2>3, <2>6
    <2>8. tokens' = DeclaredTokens(Append(part, l))
      BY <1>8, <2>3, <2>6
    <2>9. quantifiers' = DeclaredQuantifiers(Append(part, l))
      <3>1. Declares(l) => QuantifierAt(m, ReadFields(l)) = DeclaredAt(m + 1, l)
        BY <2>4, FieldsRead
      <3> QED BY <3>1, <2>3, <2>6, <2>7, <1>8
    <2>10. locations' = DeclaredLocations(Append(part, l))
      BY <2>3, <2>6, <2>7, <1>8
    <2>11. Append(part, l) = SubSeq(lines, 1, lineI + 1)
      BY <2>2, <1>4, <1>5, <1>6, <1>7
    <2>12. lineI + 1 \in 0 .. Len(lines)
      BY <1>1, <1>4, <1>5
    <2>13. LinesInv'
      BY <2>8, <2>9, <2>10, <2>11, <2>12, <1>1 DEF LinesInv, TreeOf
    <2>14. Len(tokens') = m + 1
      <3>1. Append(part, l) \in Seq(A)
        OBVIOUS
      <3>2. Len(DeclaredTokens(Append(part, l))) = Len(TokenLines(Append(part, l)))
        BY <3>1, TreeAppend
      <3>3. TokenLines(part) \in Seq(A) /\ TokenLines(Append(part, l)) = Append(TokenLines(part), l)
        BY <1>1, <1>4, <1>5, <1>7, TokenLinesAppend
      <3> QED BY <3>2, <3>3, <2>5, <2>8
    <2>15. m # MAX_QUERY_LENGTH /\ m <= MAX_QUERY_LENGTH
      BY <2>7, <1>1, <1>2, <1>9 DEF Undefined
    <2>16. m + 1 <= MAX_QUERY_LENGTH
      BY <2>15, ConllAssumption
    <2> QED BY <2>13, <2>14, <2>16
  <1>11. Proper' <=> Proper
    BY <1>1 DEF Proper
  <1>12. lineI + 1 \in 0 .. Len(lines)
    BY <1>1, <1>4, <1>5
  <1> QED BY <1>1, <1>2, <1>9, <1>11, <1>12 DEF ConllInv

LEMMA OverrunInv == ConllInv /\ Overrun => ConllInv'
  <1> SUFFICES ASSUME ConllInv, Overrun PROVE ConllInv'
    OBVIOUS
  <1>1. parsing' = "undefined" /\ lines' = lines /\ scopes' = scopes
    BY DEF Overrun
  <1> QED BY <1>1 DEF ConllInv

LEMMA EndOfLinesInv == ConllInv /\ EndOfLines => ConllInv'
  <1> SUFFICES ASSUME ConllInv, EndOfLines PROVE ConllInv'
    OBVIOUS
  <1>1. /\ parsing = "lines" /\ lineI = Len(lines) /\ parsing' = "scopes" /\ lineI' = 0
        /\ lines' = lines /\ tokens' = tokens /\ quantifiers' = quantifiers
        /\ locations' = locations /\ scopes' = scopes
    BY DEF EndOfLines
  <1>2. lines \in Responses
    BY DEF ConllInv
  <1>3. SubSeq(lines, 1, Len(lines)) = lines
    BY <1>2, ResponseLines, SubSeqFull
  <1>4. Proper' <=> Proper
    BY <1>1 DEF Proper
  <1>5. ASSUME Proper PROVE ScopesInv'
    <2>1. TreeOf(lines)
      BY <1>1, <1>3, <1>5 DEF ConllInv, LinesInv
    <2>2. TreeOf(lines)'
      BY <2>1, <1>1 DEF TreeOf
    <2>3. 0 .. 0 - 1 = {}
      OBVIOUS
    <2>4. ListedUpTo(lineI)'
      BY <1>1, <2>3 DEF ListedUpTo
    <2>5. 0 \in 0 .. MAX_QUERY_LENGTH
      BY ConllAssumption
    <2> QED BY <2>2, <2>4, <2>5, <1>1 DEF ScopesInv
  <1> QED BY <1>1, <1>4, <1>5 DEF ConllInv

(* The quantifiers in scope, in order.                                     *)
LEMMA OrderRight ==
  ASSUME lines \in Responses, TreeOf(lines), NEW i \in Nat
  PROVE  \E c \in 0 .. MAX_QUANTIFIER_COUNT :
           /\ IsMeasured(Parsed, i, InScope(Parsed, i))
           /\ Order(i) \in [1 .. c -> InScope(Parsed, i)]
           /\ Order(i) \in Seq(1 .. MAX_QUANTIFIER_COUNT) /\ Len(Order(i)) = c
           /\ \A k \in 1 .. c : \A j \in 1 .. k - 1 : Nearer(Parsed, i, Order(i)[j], Order(i)[k])
           /\ \A q \in InScope(Parsed, i) : \E k \in 1 .. c : Order(i)[k] = q
  <1>1. PICK A : A = Range(lines)
    OBVIOUS
  <1>2. lines \in Seq(A) /\ \A l \in A : IsLine(l)
    BY <1>1, ResponseLines
  <1>3. PICK own \in Seq(A) : own = TokenLines(lines)
    <2>1. PICK ls \in Seq(A) : ls = lines
      BY <1>2
    <2>2. CASE A = {}
      <3>1. ls = <<>>
        BY <2>2
      <3>2. TokenLines(ls) = <<>>
        BY <3>1, TokenLinesEmpty
      <3>3. <<>> \in Seq(A)
        OBVIOUS
      <3> QED BY <2>1, <3>2, <3>3
    <2>3. CASE A # {}
      <3>1. PICK l \in A : TRUE
        BY <2>3
      <3>2. TokenLines(ls) \in Seq(A)
        BY TokenLinesAppend
      <3> QED BY <2>1, <3>2
    <2> QED BY <2>2, <2>3
  <1>4. quantifiers = QuantifiersOf(own)
    BY <1>3, DeclaredQuantifiersOf DEF TreeOf
  <1>5. quantifiers \in Seq(Declarations(A)) /\ Len(quantifiers) <= MAX_QUANTIFIER_COUNT
    <2>1. PICK c \in Nat : c = Cardinality(Declaring(own))
      BY QuantifiersSequence
    <2>2. PICK n \in Nat : n = IF c <= MAX_QUANTIFIER_COUNT THEN c ELSE MAX_QUANTIFIER_COUNT
      BY ConllAssumption
    <2>3. QuantifiersOf(own) \in Seq(Declarations(A)) /\ Len(QuantifiersOf(own)) = n
      BY <2>1, <2>2, QuantifiersSequence
    <2>4. n <= MAX_QUANTIFIER_COUNT
      BY <2>2, ConllAssumption
    <2> QED BY <2>3, <2>4, <1>4
  <1>6. ASSUME NEW d \in Declarations(A) PROVE d.subj \in Nat \X Nat /\ d.obj \in Nat \X Nat
    <2>1. PICK k \in Nat, line \in A : d = DeclaredAt(k, line)
      BY DEF Declarations
    <2>2. IsLine(line)
      BY <1>2
    <2> QED BY <2>1, <2>2, DeclaredSpans
  <1>7. PICK t : t = Parsed
    OBVIOUS
  <1>8. t.quantifiers = quantifiers
    BY <1>7 DEF Parsed
  <1>9. PICK n \in Nat : n = Len(quantifiers)
    BY <1>5
  <1>10. PICK S \in SUBSET (1 .. n) : S = InScope(t, i)
    <2>1. DOMAIN quantifiers = 1 .. n
      BY <1>5, <1>9
    <2>2. InScope(t, i) \in SUBSET (1 .. n)
      BY <2>1, <1>8 DEF InScope, Quantifiers
    <2> QED BY <2>2
  <1>11. IsMeasured(t, i, S)
    <2>1. ASSUME NEW q \in S PROVE q \in Nat /\ ScopeDistance(t, q, i) \in Nat
      <3>1. PICK d \in Declarations(A) : d = quantifiers[q]
        BY <1>5, <1>9
      <3>2. PICK a \in Nat, b \in Nat, e \in Nat, f \in Nat : d.subj = <<a, b>> /\ d.obj = <<e, f>>
        BY <1>6
      <3>3. InSpan(d.subj, i) \/ InSpan(d.obj, i)
        BY <1>8, <1>10, <3>1 DEF InScope
      <3>4. \A span : \A g, h \in Nat : span = <<g, h>> /\ InSpan(span, i) => SpanDistance(span, i) \in Nat
        <4>1. ASSUME NEW g \in Nat, NEW h \in Nat, g <= i, i < h
              PROVE  (IF i - g < h - i THEN i - g ELSE h - i) \in Nat
          BY <4>1
        <4> QED BY <4>1 DEF InSpan, SpanDistance
      <3>5. PICK span : span = IF InSpan(d.subj, i) THEN d.subj ELSE d.obj
        OBVIOUS
      <3>6. SpanDistance(span, i) \in Nat
        BY <3>2, <3>3, <3>4, <3>5
      <3>7. ScopeDistance(t, q, i) = SpanDistance(span, i)
        BY <3>1, <3>5, <1>8 DEF ScopeDistance
      <3>8. q \in 1 .. n
        OBVIOUS
      <3> QED BY <3>6, <3>7, <3>8
    <2> QED BY <2>1 DEF IsMeasured
  <1>12. IsFiniteSet(S) /\ Cardinality(S) \in Nat /\ Cardinality(S) <= n
    <2>1. IsFiniteSet(1 .. n) /\ Cardinality(1 .. n) = n
      BY FS_Interval
    <2> QED BY <2>1, FS_Subset, FS_CardinalityType
  <1>13. PICK c \in 0 .. MAX_QUANTIFIER_COUNT : c = Cardinality(S)
    BY <1>5, <1>9, <1>12, ConllAssumption
  <1>14. PICK order : order = NearestFirst(t, i, S)
    OBVIOUS
  <1>15. /\ order \in [1 .. c -> S]
         /\ \A k \in 1 .. c : \A j \in 1 .. k - 1 : Nearer(t, i, order[j], order[k])
         /\ \A q \in S : \E k \in 1 .. c : order[k] = q
    BY <1>11, <1>12, <1>13, <1>14, NearestFirstProperties
  <1>16. order \in Seq(1 .. MAX_QUANTIFIER_COUNT) /\ Len(order) = c
    <2>1. \A q \in S : q \in 1 .. MAX_QUANTIFIER_COUNT
      BY <1>5, <1>9, ConllAssumption
    <2>2. order = [k \in 1 .. c |-> order[k]] /\ \A k \in 1 .. c : order[k] \in 1 .. MAX_QUANTIFIER_COUNT
      BY <2>1, <1>15
    <2>3. PICK N : N = 1 .. MAX_QUANTIFIER_COUNT
      OBVIOUS
    <2>4. PICK d \in Nat : d = c
      BY ConllAssumption
    <2>5. order = [k \in 1 .. d |-> order[k]] /\ \A k \in 1 .. d : order[k] \in N
      BY <2>2, <2>3, <2>4
    <2>6. order \in Seq(N) /\ Len(order) = d
      <3>1. [k \in 1 .. d |-> order[k]] \in Seq(N) /\ Len([k \in 1 .. d |-> order[k]]) = d
        BY <2>5
      <3> QED BY <3>1, <2>5
    <2> QED BY <2>3, <2>4, <2>6
  <1>17. Order(i) = order
    BY <1>7, <1>10, <1>14 DEF Order
  <1> QED BY <1>7, <1>10, <1>11, <1>15, <1>16, <1>17

LEMMA SlotBounds ==
  ASSUME NEW i \in Nat, i < MAX_QUERY_LENGTH
  PROVE  /\ MAX_QUANTIFIER_COUNT * i \in Nat
         /\ MAX_QUERY_LENGTH * MAX_QUANTIFIER_COUNT \in Nat
         /\ MAX_QUANTIFIER_COUNT * i + MAX_QUANTIFIER_COUNT <= MAX_QUERY_LENGTH * MAX_QUANTIFIER_COUNT
         /\ \A j \in 0 .. i - 1 : /\ MAX_QUANTIFIER_COUNT * j \in Nat
                                  /\ MAX_QUANTIFIER_COUNT * j + MAX_QUANTIFIER_COUNT <= MAX_QUANTIFIER_COUNT * i
  <1>1. PICK m \in Nat \ {0} : m = MAX_QUANTIFIER_COUNT
    BY ConllAssumption
  <1>2. PICK n \in Nat \ {0} : n = MAX_QUERY_LENGTH
    BY ConllAssumption
  <1>3. \A x, y \in Nat : x < y => m * x \in Nat /\ m * y \in Nat /\ m * x + m <= m * y
    <2>1. ASSUME NEW x \in Nat, NEW y \in Nat, x < y PROVE m * x + m <= m * y
      <3>1. PICK z \in Nat : z = y - (x + 1)
        BY <2>1
      <3>2. y = x + 1 + z
        BY <3>1
      <3>3. m * y = m * x + m + m * z
        BY <3>2
      <3>4. m * z \in Nat /\ m * x \in Nat
        OBVIOUS
      <3> QED BY <3>3, <3>4
    <2>2. \A x \in Nat : m * x \in Nat
      OBVIOUS
    <2> QED BY <2>1, <2>2
  <1>4. n * m = m * n
    OBVIOUS
  <1>5. m * i \in Nat /\ m * n \in Nat /\ m * i + m <= m * n
    BY <1>2, <1>3
  <1>6. \A j \in 0 .. i - 1 : m * j \in Nat /\ m * j + m <= m * i
    <2>1. \A j \in 0 .. i - 1 : j \in Nat /\ j < i
      OBVIOUS
    <2> QED BY <2>1, <1>3
  <1> QED BY <1>1, <1>2, <1>4, <1>5, <1>6

LEMMA OrderFixed ==
  ASSUME tokens' = tokens, quantifiers' = quantifiers, locations' = locations, NEW i
  PROVE  Order(i)' = Order(i)
  <1>1. Parsed' = Parsed
    BY DEF Parsed, The
  <1> QED BY <1>1 DEF Order

LEMMA PopulateInv == ConllInv /\ PopulateQuantifiersInScope => ConllInv'
  <1> SUFFICES ASSUME ConllInv, PopulateQuantifiersInScope PROVE ConllInv'
    OBVIOUS
  <1> DEFINE M == MAX_QUANTIFIER_COUNT
  <1>1. /\ parsing = "scopes" /\ lineI < MAX_QUERY_LENGTH /\ lineI' = lineI + 1
        /\ lines' = lines /\ tokens' = tokens /\ quantifiers' = quantifiers
        /\ locations' = locations /\ parsing' = parsing
        /\ scopes' = WriteScope(lineI, Order(lineI))
    BY DEF PopulateQuantifiersInScope, Order
  <1>2. lines \in Responses
    BY DEF ConllInv
  <1>3. DOMAIN scopes' = Slots
    BY <1>1 DEF WriteScope
  <1>4. Proper' <=> Proper
    BY <1>1 DEF Proper
  <1>5. ASSUME Proper PROVE ScopesInv' /\ Len(tokens') <= MAX_QUERY_LENGTH
    <2>1. ScopesInv /\ Len(tokens) <= MAX_QUERY_LENGTH
      BY <1>1, <1>5 DEF ConllInv
    <2>2. lineI \in 0 .. MAX_QUERY_LENGTH /\ TreeOf(lines) /\ ListedUpTo(lineI)
      BY <2>1 DEF ScopesInv
    <2>3. PICK i \in Nat : i = lineI /\ i < MAX_QUERY_LENGTH
      BY <2>2, <1>1
    <2>4. PICK a \in Nat : a = M * i
      BY <2>3, SlotBounds
    <2>5. PICK total \in Nat : total = MAX_QUERY_LENGTH * M
      BY <2>3, SlotBounds
    <2>6. M \in Nat /\ a + M <= total /\ Slots = 0 .. total
      BY <2>3, <2>4, <2>5, SlotBounds, ConllAssumption DEF Slots
    <2>7. PICK c \in 0 .. M : Order(i) \in Seq(1 .. M) /\ Len(Order(i)) = c
      BY <1>2, <2>2, OrderRight
    <2>8. PICK order \in Seq(1 .. M) : order = Order(i) /\ Len(order) = c
      BY <2>7
    <2>9. scopes' = [k \in Slots |->
             IF k = a + c THEN M
             ELSE IF k \in a .. a + c - 1 THEN order[k - a + 1] - 1 ELSE scopes[k]]
      BY <1>1, <2>3, <2>4, <2>8 DEF WriteScope
    <2>10. \A k \in 1 .. c : scopes'[a + k - 1] = order[k] - 1
      <3>1. ASSUME NEW k \in 1 .. c PROVE scopes'[a + k - 1] = order[k] - 1
        <4>1. PICK s \in Nat : s = a + k - 1
          OBVIOUS
        <4>2. s \in Slots /\ s # a + c /\ s \in a .. a + c - 1 /\ s - a + 1 = k
          BY <4>1, <2>6
        <4> QED BY <4>1, <4>2, <2>9
      <3> QED BY <3>1
    <2>11. scopes'[a + c] = M
      <3>1. a + c \in Slots
        BY <2>6
      <3> QED BY <3>1, <2>9
    <2>12. \A j \in 0 .. i - 1 : \A k \in 0 .. M - 1 : scopes'[M * j + k] = scopes[M * j + k]
      <3>1. ASSUME NEW j \in 0 .. i - 1, NEW k \in 0 .. M - 1
            PROVE  scopes'[M * j + k] = scopes[M * j + k]
        <4>1. PICK b \in Nat : b = M * j /\ b + M <= a
          BY <2>3, <2>4, SlotBounds
        <4>2. b + k \in Slots /\ b + k # a + c /\ ~(b + k \in a .. a + c - 1)
          BY <4>1, <2>6
        <4> QED BY <4>1, <4>2, <2>9
      <3> QED BY <3>1
    <2>13. \A j : Order(j)' = Order(j)
      BY <1>1, OrderFixed
    <2>14. IsListed(i)'
      <3>1. \A k \in DOMAIN Order(i) : scopes'[M * i + k - 1] = Order(i)[k] - 1
        BY <2>4, <2>8, <2>10
      <3>2. scopes'[M * i + Len(Order(i))] = M
        BY <2>4, <2>8, <2>11
      <3>3. Order(i)' = Order(i)
        BY <2>13
      <3> QED BY <3>1, <3>2, <3>3 DEF IsListed
    <2>15. ASSUME NEW j \in 0 .. i - 1 PROVE IsListed(j)'
      <3>1. IsListed(j)
        BY <2>2, <2>3 DEF ListedUpTo
      <3>2. j \in Nat
        OBVIOUS
      <3>3. PICK e \in 0 .. M : Order(j) \in Seq(1 .. M) /\ Len(Order(j)) = e
        BY <3>2, <1>2, <2>2, OrderRight
      <3>4. PICK b \in Nat : b = M * j
        BY <2>3, SlotBounds
      <3>5. \A k \in 0 .. M - 1 : scopes'[b + k] = scopes[b + k]
        BY <2>12, <3>4
      <3>6. \A k \in 1 .. e : scopes[b + k - 1] = Order(j)[k] - 1
        <4>1. DOMAIN Order(j) = 1 .. e
          BY <3>3
        <4> QED BY <4>1, <3>1, <3>4 DEF IsListed
      <3>7. ASSUME NEW k \in 1 .. e PROVE scopes'[b + k - 1] = Order(j)[k] - 1
        <4>1. PICK h \in 0 .. M - 1 : h = k - 1
          BY <2>6, <3>3
        <4>2. b + k - 1 = b + h
          BY <4>1
        <4> QED BY <4>1, <4>2, <3>5, <3>6
      <3>8. e < M => scopes'[b + e] = M
        <4>1. ASSUME e < M PROVE scopes[b + e] = M /\ e \in 0 .. M - 1
          BY <4>1, <3>1, <3>3, <3>4, <2>6 DEF IsListed
        <4> QED BY <4>1, <3>5
      <3>9. \A k \in DOMAIN Order(j) : scopes'[M * j + k - 1] = Order(j)[k] - 1
        BY <3>3, <3>4, <3>7
      <3>10. Len(Order(j)) < M => scopes'[M * j + Len(Order(j))] = M
        BY <3>3, <3>4, <3>8
      <3>11. Order(j)' = Order(j)
        BY <2>13
      <3> QED BY <3>9, <3>10, <3>11 DEF IsListed
    <2>16. ListedUpTo(lineI)'
      <3>1. \A j \in 0 .. lineI' - 1 : j \in 0 .. i - 1 \/ j = i
        BY <1>1, <2>3
      <3>2. \A j \in 0 .. lineI' - 1 : IsListed(j)'
        BY <3>1, <2>14, <2>15
      <3> QED BY <3>2 DEF ListedUpTo
    <2>17. TreeOf(lines)'
      BY <2>2, <1>1 DEF TreeOf
    <2>18. lineI' \in 0 .. MAX_QUERY_LENGTH
      <3>1. i + 1 \in 0 .. MAX_QUERY_LENGTH
        BY <2>3, ConllAssumption
      <3> QED BY <3>1, <1>1, <2>3
    <2> QED BY <2>1, <2>16, <2>17, <2>18, <1>1 DEF ScopesInv
  <1> QED BY <1>1, <1>2, <1>3, <1>4, <1>5 DEF ConllInv

LEMMA BuiltInv == ConllInv /\ Built => ConllInv'
  <1> SUFFICES ASSUME ConllInv, Built PROVE ConllInv'
    OBVIOUS
  <1>1. /\ parsing = "scopes" /\ lineI = MAX_QUERY_LENGTH /\ parsing' = "done"
        /\ lines' = lines /\ tokens' = tokens /\ quantifiers' = quantifiers
        /\ locations' = locations /\ scopes' = scopes
    BY DEF Built
  <1>2. Proper' <=> Proper
    BY <1>1 DEF Proper
  <1>3. ASSUME Proper PROVE DoneInv' /\ Len(tokens') <= MAX_QUERY_LENGTH
    <2>1. ScopesInv /\ Len(tokens) <= MAX_QUERY_LENGTH
      BY <1>1, <1>3 DEF ConllInv
    <2>2. TreeOf(lines) /\ ListedUpTo(MAX_QUERY_LENGTH)
      BY <2>1, <1>1 DEF ScopesInv
    <2>3. TreeOf(lines)'
      BY <2>2, <1>1 DEF TreeOf
    <2>4. \A j : Order(j)' = Order(j)
      BY <1>1, OrderFixed
    <2>5. ASSUME NEW j \in 0 .. MAX_QUERY_LENGTH - 1 PROVE IsListed(j)'
      <3>1. IsListed(j) /\ Order(j)' = Order(j)
        BY <2>2, <2>4 DEF ListedUpTo
      <3> QED BY <3>1, <1>1 DEF IsListed
    <2>6. ListedUpTo(MAX_QUERY_LENGTH)'
      BY <2>5 DEF ListedUpTo
    <2> QED BY <2>1, <2>3, <2>6, <1>1 DEF DoneInv
  <1> QED BY <1>1, <1>2, <1>3 DEF ConllInv

LEMMA ConllStutter == ConllInv /\ UNCHANGED conllVars => ConllInv'
  <1> SUFFICES ASSUME ConllInv, UNCHANGED conllVars PROVE ConllInv'
    OBVIOUS
  <1>1. /\ lines' = lines /\ lineI' = lineI /\ tokens' = tokens /\ quantifiers' = quantifiers
        /\ locations' = locations /\ scopes' = scopes /\ parsing' = parsing
    BY DEF conllVars
  <1>2. Proper' <=> Proper
    BY <1>1 DEF Proper
  <1>3. \A ls : TreeOf(ls)' <=> TreeOf(ls)
    BY <1>1 DEF TreeOf
  <1>4. \A j : Order(j)' = Order(j)
    BY <1>1, OrderFixed
  <1>5. \A j : IsListed(j)' <=> IsListed(j)
    BY <1>1, <1>4 DEF IsListed
  <1>6. \A n : ListedUpTo(n)' <=> ListedUpTo(n)
    BY <1>5 DEF ListedUpTo
  <1>7. (LinesInv' <=> LinesInv) /\ (ScopesInv' <=> ScopesInv) /\ (DoneInv' <=> DoneInv)
    BY <1>1, <1>3, <1>6 DEF LinesInv, ScopesInv, DoneInv
  <1> QED BY <1>1, <1>2, <1>7 DEF ConllInv

LEMMA ConllInvHolds == ConllSpec => []ConllInv
  <1>1. ConllInv /\ ConllNext => ConllInv'
    BY SkipLineInv, ReadConllLineInv, OverrunInv, EndOfLinesInv, PopulateInv, BuiltInv
       DEF ConllNext
  <1>2. ConllInv /\ [ConllNext]_conllVars => ConllInv'
    BY <1>1, ConllStutter
  <1> QED BY <1>2, ConllInitInv, PTL DEF ConllSpec

-------------------------------------------------------------------------------
(* A tree has a token and at most a quantifier for each line, made of what *)
(* that line says and nothing that an earlier line left in the variables   *)
(* of the constructor (Tree::Tree), for all responses and sizes.           *)
THEOREM TreeIsRight == ConllSpec => []TreeRight
  <1>1. ConllInv => TreeRight
    <2>1. ASSUME ConllInv, parsing = "done", Proper PROVE TreeOf(lines)
      BY <2>1 DEF ConllInv, DoneInv
    <2> QED BY <2>1 DEF TreeRight, TreeOf, Proper
  <1> QED BY <1>1, ConllInvHolds, PTL

(* The list that foreachQuantifier reads is the one that was written.      *)
LEMMA ForeachReads ==
  ASSUME NEW i \in Nat, IsListed(i), NEW c \in 0 .. MAX_QUANTIFIER_COUNT,
         Order(i) \in Seq(1 .. MAX_QUANTIFIER_COUNT), Len(Order(i)) = c
  PROVE  ForeachQuantifier(i) = Order(i)
  <1> DEFINE M == MAX_QUANTIFIER_COUNT
  <1> DEFINE list == [k \in 1 .. M |-> scopes[M * i + k - 1]]
  <1> DEFINE mark == {k \in DOMAIN list : list[k] >= M}
  <1> DEFINE n == IF mark = {} THEN M ELSE Min(mark) - 1
  <1>0. M \in Nat \ {0}
    BY ConllAssumption
  <1>1. ForeachQuantifier(i) = [k \in 1 .. n |-> list[k] + 1]
    BY DEF ForeachQuantifier
  <1>2. PICK order \in Seq(1 .. M) : order = Order(i) /\ Len(order) = c
    OBVIOUS
  <1>3. DOMAIN order = 1 .. c /\ \A k \in 1 .. c : order[k] \in 1 .. M
    <2>1. PICK N : N = 1 .. M
      OBVIOUS
    <2>2. PICK e \in Nat : e = c
      BY <1>0
    <2>3. order \in Seq(N) /\ Len(order) = e
      BY <1>2, <2>1, <2>2
    <2>4. DOMAIN order = 1 .. e /\ \A k \in 1 .. e : order[k] \in N
      BY <2>3
    <2> QED BY <2>4, <2>1, <2>2
  <1>4. \A k \in 1 .. c : k \in 1 .. M /\ list[k] = order[k] - 1
    <2>1. \A k \in 1 .. c : scopes[M * i + k - 1] = order[k] - 1
      BY <1>2, <1>3 DEF IsListed
    <2>2. \A k \in 1 .. c : k \in 1 .. M
      BY <1>0
    <2> QED BY <2>1, <2>2
  <1>5. \A k \in 1 .. c : k \notin mark
    <2>1. \A k \in 1 .. c : ~(order[k] - 1 >= M)
      BY <1>0, <1>3
    <2> QED BY <2>1, <1>4
  <1>6. n = c
    <2>1. CASE c = M
      <3>1. mark = {}
        <4>1. mark \subseteq 1 .. c
          BY <2>1
        <4> HIDE DEF mark
        <4> QED BY <4>1, <1>5
      <3> QED BY <3>1, <2>1
    <2>2. CASE c # M
      <3>1. c + 1 \in 1 .. M /\ c < M
        BY <2>2, <1>0
      <3>2. scopes[M * i + c] = M
        BY <3>1, <1>2 DEF IsListed
      <3>3. \A a \in Int : a + (c + 1) - 1 = a + c
        OBVIOUS
      <3>4. list[c + 1] = M
        <4>1. PICK a \in Int : a = M * i
          BY <1>0
        <4> QED BY <4>1, <3>1, <3>2, <3>3
      <3>5. c + 1 \in mark
        BY <3>1, <3>4, <1>0
      <3>6. \A k \in mark : c + 1 <= k /\ k \in Nat
        <4>1. \A k \in 1 .. M : k \in 1 .. c \/ c + 1 <= k
          BY <1>0
        <4>2. mark \subseteq 1 .. M
          OBVIOUS
        <4>3. \A k \in 1 .. M : k \in Nat
          OBVIOUS
        <4> HIDE DEF mark
        <4> QED BY <4>1, <4>2, <4>3, <1>5
      <3> HIDE DEF mark
      <3>7. Min(mark) = c + 1
        <4>1. \E x \in mark : \A y \in mark : x <= y
          BY <3>5, <3>6
        <4>2. Min(mark) \in mark /\ \A y \in mark : Min(mark) <= y
          BY <4>1, Zenon DEF Min
        <4>3. PICK x \in mark : x = Min(mark)
          BY <4>2
        <4>4. x <= c + 1 /\ c + 1 <= x /\ x \in Nat
          BY <4>2, <4>3, <3>5, <3>6
        <4> QED BY <4>3, <4>4
      <3> QED BY <3>5, <3>7
    <2> QED BY <2>1, <2>2
  <1> HIDE DEF n, list
  <1>7. \A k \in 1 .. c : list[k] + 1 = order[k]
    BY <1>3, <1>4
  <1>8. [k \in 1 .. n |-> list[k] + 1] = order
    <2>1. order = [k \in 1 .. c |-> order[k]]
      BY <1>2, <1>3
    <2>2. [k \in 1 .. c |-> list[k] + 1] = [k \in 1 .. c |-> order[k]]
      BY <1>7
    <2> QED BY <2>1, <2>2, <1>6
  <1> QED BY <1>1, <1>2, <1>8

(* What lies nearest first is what projection takes from the outside in.   *)
LEMMA OrderAsDeclared ==
  ASSUME NEW t, NEW d, d.quantifiers = t.quantifiers, NEW i, NEW c \in Nat,
         NEW order, order \in Seq(InScope(t, i)), Len(order) = c,
         IsMeasured(t, i, InScope(t, i)),
         \A k \in 1 .. c : \A j \in 1 .. k - 1 : Nearer(t, i, order[j], order[k]),
         \A q \in InScope(t, i) : \E k \in 1 .. c : order[k] = q
  PROVE  ScopeAsDeclared(i, order, d)
  <1>1. PICK S : S = InScope(t, i)
    OBVIOUS
  <1>2. InScope(d, i) = S /\ (\A q : ScopeDistance(d, q, i) = ScopeDistance(t, q, i))
    BY <1>1 DEF InScope, Quantifiers, ScopeDistance
  <1>3. DOMAIN order = 1 .. c /\ \A k \in 1 .. c : order[k] \in S
    BY <1>1
  <1>4. IsMeasured(t, i, S)
    BY <1>1
  <1>5. \A j, k \in 1 .. c : j < k => Nearer(t, i, order[j], order[k])
    <2>1. ASSUME NEW j \in 1 .. c, NEW k \in 1 .. c, j < k PROVE j \in 1 .. k - 1
      BY <2>1
    <2> QED BY <2>1
  <1>6. IsInjective(order)
    <2>1. ASSUME NEW j \in 1 .. c, NEW k \in 1 .. c, order[j] = order[k] PROVE j = k
      <3>1. \A q \in S : ~Nearer(t, i, q, q)
        BY <1>4, NearerOrders
      <3>2. ~(j < k) /\ ~(k < j)
        BY <3>1, <1>3, <1>5, <2>1
      <3>3. j \in Int /\ k \in Int
        OBVIOUS
      <3> QED BY <3>2, <3>3
    <2> QED BY <2>1, <1>3 DEF IsInjective
  <1>7. Range(order) = S
    <2>1. \A q \in S : q \in Range(order)
      BY <1>1, <1>3 DEF Range
    <2>2. \A q \in Range(order) : q \in S
      BY <1>3 DEF Range
    <2> QED BY <2>1, <2>2
  <1>8. ASSUME NEW k \in 1 .. c PROVE order[k] = Outermost(d, i, Range(SubSeq(order, 1, k)))
    <2>1. PICK R : R = Range(SubSeq(order, 1, k))
      OBVIOUS
    <2>2. R = {order[j] : j \in 1 .. k}
      <3>1. DOMAIN SubSeq(order, 1, k) = 1 .. k /\ \A j \in 1 .. k : SubSeq(order, 1, k)[j] = order[j]
        <4>1. PICK s \in Seq(S) : s = order
          BY <1>1
        <4>2. Len(s) = c /\ k \in 1 .. c
          BY <4>1
        <4>3. DOMAIN SubSeq(s, 1, k) = 1 .. k /\ \A j \in 1 .. k : SubSeq(s, 1, k)[j] = s[j]
          BY <4>2
        <4> QED BY <4>1, <4>3
      <3>2. PICK sub : sub = SubSeq(order, 1, k)
        OBVIOUS
      <3>3. DOMAIN sub = 1 .. k /\ \A j \in 1 .. k : sub[j] = order[j]
        BY <3>1, <3>2
      <3>4. R = {sub[j] : j \in DOMAIN sub}
        BY <3>2, <2>1 DEF Range
      <3> QED BY <3>3, <3>4
    <2>3. \A j \in 1 .. k : j \in 1 .. c /\ (j < k \/ j = k)
      OBVIOUS
    <2>4. order[k] \in R /\ R \subseteq S
      <3>1. k \in 1 .. k
        OBVIOUS
      <3> QED BY <3>1, <2>2, <2>3, <1>3
    <2>5. \A p \in R \ {order[k]} : Nearer(t, i, p, order[k])
      BY <2>2, <2>3, <1>5
    <2> DEFINE Before(p, q) == \/ ScopeDistance(d, p, i) < ScopeDistance(d, q, i)
                               \/ ScopeDistance(d, p, i) = ScopeDistance(d, q, i) /\ p < q
    <2>6. \A p, q : Before(p, q) <=> Nearer(t, i, p, q)
      BY <1>2 DEF Nearer
    <2>7. Outermost(d, i, R) = CHOOSE q \in R : \A p \in R \ {q} : Before(p, q)
      BY Zenon DEF Outermost
    <2> HIDE DEF Before
    <2>8. order[k] \in R /\ \A p \in R \ {order[k]} : Before(p, order[k])
      BY <2>4, <2>5, <2>6
    <2>9. PICK o : o = Outermost(d, i, R)
      OBVIOUS
    <2>10. o \in R /\ \A p \in R \ {o} : Before(p, o)
      BY <2>7, <2>8, <2>9, Zenon
    <2>11. o = order[k]
      <3>1. SUFFICES ASSUME o # order[k] PROVE FALSE
        OBVIOUS
      <3>2. Nearer(t, i, order[k], o) /\ Nearer(t, i, o, order[k])
        BY <3>1, <2>6, <2>8, <2>10
      <3>3. o \in S /\ order[k] \in S
        BY <2>4, <2>10
      <3> QED BY <3>2, <3>3, <1>4, NearerOrders
    <2> QED BY <2>1, <2>9, <2>11
  <1> QED BY <1>2, <1>3, <1>6, <1>7, <1>8 DEF ScopeAsDeclared

(* For every token the cache lists the quantifiers it is in a span of, as  *)
(* the lines declare them, nearest first (populateQuantifiersInScope and   *)
(* foreachQuantifier), for all responses and sizes.                        *)
THEOREM ScopesAreRight == ConllSpec => []ScopesRight
  <1>1. ASSUME ConllInv, parsing = "done", Proper PROVE ScopesAsDeclared
    <2>1. DoneInv /\ lines \in Responses /\ Len(tokens) <= MAX_QUERY_LENGTH
      BY <1>1 DEF ConllInv
    <2>2. TreeOf(lines) /\ ListedUpTo(MAX_QUERY_LENGTH)
      BY <2>1 DEF DoneInv
    <2> DEFINE d == [quantifiers |-> DeclaredQuantifiers(lines)]
    <2>3. d.quantifiers = Parsed.quantifiers
      BY <2>2 DEF TreeOf, Parsed
    <2>4. ASSUME NEW i \in 0 .. Len(tokens) - 1 PROVE ScopeAsDeclared(i, ForeachQuantifier(i), d)
      <3>1. i \in Nat /\ i \in 0 .. MAX_QUERY_LENGTH - 1
        <4>1. Len(tokens) \in Nat
          <5>1. PICK A : A = Range(lines)
            OBVIOUS
          <5>2. lines \in Seq(A)
            BY <5>1, <2>1, ResponseLines
          <5>3. tokens = DeclaredTokens(lines)
            BY <2>2 DEF TreeOf
          <5> QED BY <5>2, <5>3, TokensSequence
        <4> QED BY <4>1, <2>1, ConllAssumption
      <3>2. IsListed(i)
        BY <2>2, <3>1 DEF ListedUpTo
      <3>3. PICK c \in 0 .. MAX_QUANTIFIER_COUNT :
              /\ IsMeasured(Parsed, i, InScope(Parsed, i))
              /\ Order(i) \in [1 .. c -> InScope(Parsed, i)]
              /\ Order(i) \in Seq(1 .. MAX_QUANTIFIER_COUNT) /\ Len(Order(i)) = c
              /\ \A k \in 1 .. c : \A j \in 1 .. k - 1 :
                   Nearer(Parsed, i, Order(i)[j], Order(i)[k])
              /\ \A q \in InScope(Parsed, i) : \E k \in 1 .. c : Order(i)[k] = q
        BY <2>1, <2>2, <3>1, OrderRight
      <3>4. ForeachQuantifier(i) = Order(i)
        BY <3>1, <3>2, <3>3, ForeachReads
      <3>5. c \in Nat
        OBVIOUS
      <3>6. Order(i) \in Seq(InScope(Parsed, i))
        BY <3>3, <3>5
      <3>7. PICK t : t = Parsed
        OBVIOUS
      <3>8. ScopeAsDeclared(i, Order(i), d)
        <4> HIDE DEF d
        <4> QED BY <2>3, <3>3, <3>5, <3>6, OrderAsDeclared
      <3> QED BY <3>4, <3>8
    <2> QED BY <2>4 DEF ScopesAsDeclared
  <1>2. ConllInv => ScopesRight
    BY <1>1 DEF ScopesRight, Proper
  <1> QED BY <1>2, ConllInvHolds, PTL

-------------------------------------------------------------------------------
(* The knowledge base                                                      *)

(* What has been printed for the first p trees.                            *)
FirstPrinted(p) == {Printed(corpus.trees[j]) : j \in 1 .. p}

(* What has been printed, wherever it is by now.                           *)
OnItsWay == Range(printed) \cup Range(buffer) \cup Range(file) \cup kb

SequencesRight ==
  /\ corpus \in Corpora /\ failed \in BOOLEAN
  /\ printed \in Seq(Range(printed)) /\ buffer \in Seq(Range(buffer)) /\ file \in Seq(Range(file))

(* hash_tree has printed the first p trees; it stops behind the first one  *)
(* that is cut, or behind the last.                                        *)
HashedUpTo(p) ==
  /\ p \in 0 .. Len(corpus.trees)
  /\ unread = From(corpus.trees, p + 1)
  /\ \A j \in 1 .. p : corpus.trees[j].cut => j = p /\ failed
  /\ failed => p = Len(corpus.trees) \/ (p # 0 /\ corpus.trees[p].cut)
  /\ FirstPrinted(p) \subseteq OnItsWay
  /\ OnItsWay \subseteq FirstPrinted(p) \cup {AllOnes}

(* A stage is entered when the one before it has nothing left.             *)
StagesRight ==
  /\ stage \in {"write", "read", "done"}
  /\ stage # "write" => failed /\ printed = <<>> /\ Range(buffer) \subseteq Range(file) \cup kb
  /\ stage = "done" => file = <<>>

KBInv == SequencesRight /\ StagesRight /\ \E p \in 0 .. Len(corpus.trees) : HashedUpTo(p)

-------------------------------------------------------------------------------
LEMMA KBInitInv == KBInit => KBInv
  <1> SUFFICES ASSUME KBInit PROVE KBInv
    OBVIOUS
  <1>1. SequencesRight /\ StagesRight
    BY RangeEmpty DEF KBInit, SequencesRight, StagesRight
  <1>2. corpus.trees \in Seq(Range(corpus.trees))
    BY CorporaAssumption DEF KBInit
  <1>3. From(corpus.trees, 1) = corpus.trees
    BY <1>2, FromProperties
  <1>4. OnItsWay = {} /\ FirstPrinted(0) = {}
    BY RangeEmpty DEF KBInit, OnItsWay, FirstPrinted
  <1>5. HashedUpTo(0)
    <2>1. Len(corpus.trees) \in Nat
      BY <1>2
    <2> QED BY <1>3, <1>4, <2>1 DEF KBInit, HashedUpTo
  <1>6. 0 \in 0 .. Len(corpus.trees)
    BY <1>2
  <1> QED BY <1>1, <1>5, <1>6 DEF KBInv

(* A step that only moves what has been printed.                           *)
LEMMA Moving ==
  ASSUME KBInv, SequencesRight', StagesRight', UNCHANGED <<corpus, unread, failed>>,
         OnItsWay' = OnItsWay
  PROVE  KBInv'
  <1>1. PICK p \in 0 .. Len(corpus.trees) : HashedUpTo(p)
    BY DEF KBInv
  <1>2. HashedUpTo(p)'
    BY <1>1 DEF HashedUpTo, FirstPrinted
  <1> QED BY <1>1, <1>2 DEF KBInv

LEMMA HashTreeStep ==
  ASSUME KBInv, HashTree PROVE KBInv'
  <1>1. PICK p \in 0 .. Len(corpus.trees) : HashedUpTo(p)
    BY DEF KBInv
  <1> DEFINE trees == corpus.trees
  <1>2. trees \in Seq(Range(trees)) /\ Len(trees) \in Nat
    BY CorporaAssumption DEF KBInv, SequencesRight
  <1>3. p + 1 \in 1 .. Len(trees) /\ Head(unread) = trees[p + 1] /\ Tail(unread) = From(trees, p + 2)
    <2>1. p # Len(trees)
      BY <1>1, <1>2, FromProperties DEF HashTree, HashedUpTo
    <2>2. p + 1 \in 1 .. Len(trees) /\ p + 2 = (p + 1) + 1
      BY <1>1, <1>2, <2>1
    <2> HIDE DEF trees
    <2>3. Head(From(trees, p + 1)) = trees[p + 1] /\ Tail(From(trees, p + 1)) = From(trees, p + 2)
      BY <1>2, <2>2, FromProperties
    <2> QED BY <1>1, <2>2, <2>3 DEF HashedUpTo, trees
  <1>4. stage = "write" /\ ~failed
    BY DEF HashTree, KBInv, StagesRight
  <1>5. Range(printed') = Range(printed) \cup {Printed(trees[p + 1])} /\ printed' \in Seq(Range(printed'))
    BY <1>3, RangeAppend DEF HashTree, KBInv, SequencesRight
  <1>6. failed' = (trees[p + 1].cut \/ (From(trees, p + 2) = <<>> /\ ~corpus.blank))
    BY <1>3 DEF HashTree
  <1>7. trees[p + 1].cut \in BOOLEAN /\ corpus.blank \in BOOLEAN
    <2>1. corpus \in Corpora /\ trees[p + 1] \in Range(trees)
      BY <1>2, <1>3 DEF KBInv, SequencesRight, Range
    <2> QED BY <2>1, CorporaAssumption
  <1>8. From(trees, p + 2) = <<>> => p + 1 = Len(trees)
    <2>1. p + 1 # Len(trees) => p + 2 \in 1 .. Len(trees)
      BY <1>2, <1>3
    <2> HIDE DEF trees
    <2> QED BY <1>2, <2>1, FromProperties
  <1>9. HashedUpTo(p + 1)'
    <2>1. corpus' = corpus /\ unread' = From(trees, (p + 1) + 1)
      <3>1. p + 2 = (p + 1) + 1
        OBVIOUS
      <3> QED BY <1>3, <3>1 DEF HashTree
    <2>2. \A j \in 1 .. p + 1 : trees[j].cut => j = p + 1 /\ failed'
      <3>1. \A j \in 1 .. p : ~trees[j].cut
        BY <1>1, <1>4 DEF HashedUpTo
      <3>2. \A j \in 1 .. p + 1 : j \in 1 .. p \/ j = p + 1
        OBVIOUS
      <3>3. trees[p + 1].cut => failed'
        BY <1>6
      <3> HIDE DEF trees
      <3> QED BY <3>1, <3>2, <3>3
    <2>3. failed' => p + 1 = Len(trees) \/ (p + 1 # 0 /\ trees[p + 1].cut)
      BY <1>6, <1>7, <1>8
    <2>4. OnItsWay' = OnItsWay \cup {Printed(trees[p + 1])}
      BY <1>5 DEF OnItsWay, HashTree
    <2>5. FirstPrinted(p + 1) = FirstPrinted(p) \cup {Printed(trees[p + 1])}
      <3>1. \A j \in 1 .. p + 1 : j \in 1 .. p \/ j = p + 1
        OBVIOUS
      <3>2. \A j \in 1 .. p : j \in 1 .. p + 1
        OBVIOUS
      <3>3. p + 1 \in 1 .. p + 1
        OBVIOUS
      <3> QED BY <3>1, <3>2, <3>3 DEF FirstPrinted
    <2>6. FirstPrinted(p + 1)' = FirstPrinted(p + 1)
      BY <2>1 DEF FirstPrinted
    <2>7. /\ FirstPrinted(p + 1) \subseteq OnItsWay'
          /\ OnItsWay' \subseteq FirstPrinted(p + 1) \cup {AllOnes}
      BY <1>1, <2>4, <2>5 DEF HashedUpTo
    <2>8. p + 1 \in 0 .. Len(trees)
      BY <1>2, <1>3
    <2> QED BY <2>1, <2>2, <2>3, <2>6, <2>7, <2>8 DEF HashedUpTo
  <1>10. SequencesRight' /\ StagesRight'
    <2>1. failed' \in BOOLEAN
      BY <1>6, <1>7
    <2> QED BY <1>4, <1>5, <2>1 DEF HashTree, KBInv, SequencesRight, StagesRight
  <1>11. p + 1 \in 0 .. Len(corpus.trees) /\ corpus' = corpus
    BY <1>2, <1>3 DEF HashTree
  <1> QED BY <1>9, <1>10, <1>11 DEF KBInv

LEMMA HashNothingStep ==
  ASSUME KBInv, HashNothing PROVE KBInv'
  <1>1. PICK p \in 0 .. Len(corpus.trees) : HashedUpTo(p)
    BY DEF KBInv
  <1> DEFINE trees == corpus.trees
  <1>2. trees \in Seq(Range(trees)) /\ Len(trees) \in Nat
    BY CorporaAssumption DEF KBInv, SequencesRight
  <1>3. p = Len(trees)
    <2>1. p # Len(trees) => p + 1 \in 1 .. Len(trees)
      BY <1>1, <1>2
    <2> HIDE DEF trees
    <2>2. p # Len(trees) => From(trees, p + 1) # <<>>
      BY <1>2, <2>1, FromProperties
    <2> QED BY <1>1, <2>2 DEF HashNothing, HashedUpTo, trees
  <1>4. Range(printed') = Range(printed) \cup {AllOnes} /\ printed' \in Seq(Range(printed'))
    BY RangeAppend DEF HashNothing, KBInv, SequencesRight
  <1>5. OnItsWay' = OnItsWay \cup {AllOnes}
    BY <1>4 DEF HashNothing, OnItsWay
  <1>6. HashedUpTo(p)'
    BY <1>1, <1>3, <1>5 DEF HashNothing, HashedUpTo, FirstPrinted
  <1>7. SequencesRight' /\ StagesRight'
    BY <1>4 DEF HashNothing, KBInv, SequencesRight, StagesRight
  <1> QED BY <1>1, <1>6, <1>7 DEF HashNothing, KBInv

LEMMA WriteHashStep ==
  ASSUME KBInv, WriteHash PROVE KBInv'
  <1>1. /\ Range(printed) = {Head(printed)} \cup Range(printed') /\ printed' \in Seq(Range(printed'))
        /\ Range(buffer') = Range(buffer) \cup {Head(printed)} /\ buffer' \in Seq(Range(buffer'))
    BY RangeTail, RangeAppend DEF WriteHash, KBInv, SequencesRight
  <1>2. OnItsWay' = OnItsWay
    BY <1>1 DEF WriteHash, OnItsWay
  <1>3. SequencesRight' /\ StagesRight'
    BY <1>1 DEF WriteHash, KBInv, SequencesRight, StagesRight
  <1> QED BY <1>2, <1>3, Moving DEF WriteHash

LEMMA WriteChunkStep ==
  ASSUME KBInv, WriteChunk PROVE KBInv'
  <1> DEFINE full == Append(buffer, Head(printed))
  <1>1. /\ Range(printed) = {Head(printed)} \cup Range(printed') /\ printed' \in Seq(Range(printed'))
        /\ Range(full) = Range(buffer) \cup {Head(printed)} /\ full \in Seq(Range(full))
    BY RangeTail, RangeAppend DEF WriteChunk, KBInv, SequencesRight
  <1>2. Range(file') = Range(file) \cup Range(full) /\ file' \in Seq(Range(file'))
    <2> HIDE DEF full
    <2>1. file' = file \o full
      BY DEF WriteChunk, full
    <2> QED BY <1>1, <2>1, RangeConcat DEF KBInv, SequencesRight
  <1>3. OnItsWay' = OnItsWay
    BY <1>1, <1>2, RangeEmpty DEF WriteChunk, OnItsWay
  <1>4. SequencesRight' /\ StagesRight'
    BY <1>1, <1>2, RangeEmpty DEF WriteChunk, KBInv, SequencesRight, StagesRight
  <1> QED BY <1>3, <1>4, Moving DEF WriteChunk

LEMMA WriteRestStep ==
  ASSUME KBInv, WriteRest PROVE KBInv'
  <1>1. Range(file') = Range(file) \cup Range(buffer) /\ file' \in Seq(Range(file'))
    BY RangeConcat DEF WriteRest, KBInv, SequencesRight
  <1>2. OnItsWay' = OnItsWay
    BY <1>1 DEF WriteRest, OnItsWay
  <1>3. SequencesRight' /\ StagesRight'
    BY <1>1 DEF WriteRest, KBInv, SequencesRight, StagesRight
  <1> QED BY <1>2, <1>3, Moving DEF WriteRest

LEMMA ReadChunkStep ==
  ASSUME KBInv, ReadChunk PROVE KBInv'
  <1>1. CHUNK_SIZE \in 0 .. Len(file)
    BY ChunkAssumption DEF ReadChunk, KBInv, SequencesRight
  <1>2. /\ Range(file) = Range(SubSeq(file, 1, CHUNK_SIZE)) \cup Range(file')
        /\ file' \in Seq(Range(file'))
    BY <1>1, RangeSplit DEF ReadChunk, KBInv, SequencesRight
  <1>3. OnItsWay' = OnItsWay
    BY <1>2 DEF ReadChunk, AppendToKB, OnItsWay
  <1>4. SequencesRight' /\ StagesRight'
    BY <1>2 DEF ReadChunk, AppendToKB, KBInv, SequencesRight, StagesRight
  <1> QED BY <1>3, <1>4, Moving DEF ReadChunk

LEMMA ReadRestStep ==
  ASSUME KBInv, ReadRest PROVE KBInv'
  <1>1. OnItsWay' = OnItsWay
    BY RangeEmpty DEF ReadRest, AppendToKB, OnItsWay
  <1>2. SequencesRight' /\ StagesRight'
    BY RangeEmpty DEF ReadRest, AppendToKB, KBInv, SequencesRight, StagesRight
  <1> QED BY <1>1, <1>2, Moving DEF ReadRest

LEMMA KBNextInv == KBInv /\ [KBNext]_kbVars => KBInv'
  <1>1. ASSUME KBInv, UNCHANGED kbVars PROVE KBInv'
    <2>1. OnItsWay' = OnItsWay
      BY <1>1 DEF kbVars, OnItsWay
    <2>2. SequencesRight' /\ StagesRight'
      BY <1>1 DEF kbVars, KBInv, SequencesRight, StagesRight
    <2> QED BY <1>1, <2>1, <2>2, Moving DEF kbVars
  <1> QED BY <1>1, HashTreeStep, HashNothingStep, WriteHashStep, WriteChunkStep, WriteRestStep,
             ReadChunkStep, ReadRestStep DEF KBNext

-------------------------------------------------------------------------------
LEMMA InvHoldsEverything == KBInv => NothingForgotten
  <1> SUFFICES ASSUME KBInv, stage = "done" PROVE NothingForgotten
    BY DEF NothingForgotten
  <1>1. PICK p \in 0 .. Len(corpus.trees) : HashedUpTo(p)
    BY DEF KBInv
  <1> DEFINE trees == corpus.trees
             Behind(k) == \E j \in 1 .. k - 1 : trees[j].cut
             ReadAt == {j \in DOMAIN trees : IsRead(trees[j]) /\ ~Behind(j)}
             facts == {trees[k].hash : k \in ReadAt}
  <1>2. Len(trees) \in Nat /\ DOMAIN trees = 1 .. Len(trees)
    BY CorporaAssumption DEF KBInv, SequencesRight
  <1>3. OnItsWay = kb /\ failed
    <2>1. Range(printed) = {} /\ Range(file) = {} /\ Range(buffer) \subseteq kb
      BY RangeEmpty DEF KBInv, StagesRight
    <2> QED BY <2>1 DEF KBInv, StagesRight, OnItsWay
  <1>4. ASSUME NEW k \in ReadAt PROVE trees[k].hash \in kb
    <2>1. k \in 1 .. p
      <3>1. CASE p = Len(trees)
        BY <1>2, <1>4, <3>1
      <3>2. CASE p # 0 /\ trees[p].cut
        BY <1>2, <1>4, <3>2
      <3> QED BY <1>1, <1>3, <3>1, <3>2 DEF HashedUpTo
    <2>2. Printed(trees[k]) = trees[k].hash
      BY <1>4 DEF Printed
    <2> QED BY <1>1, <1>3, <2>1, <2>2 DEF HashedUpTo, FirstPrinted
  <1>5. ASSUME NEW f \in kb, f # AllOnes PROVE f \in facts
    <2>1. PICK k \in 1 .. p : f = Printed(trees[k])
      BY <1>1, <1>3, <1>5 DEF HashedUpTo, FirstPrinted
    <2>2. IsRead(trees[k]) /\ f = trees[k].hash
      BY <1>5, <2>1 DEF Printed
    <2>3. ~Behind(k)
      BY <1>1, <2>1 DEF HashedUpTo
    <2>4. k \in ReadAt
      BY <1>1, <1>2, <2>1, <2>2, <2>3
    <2> HIDE DEF ReadAt
    <2> QED BY <2>2, <2>4
  <1>6. facts \subseteq kb /\ kb \subseteq facts \cup {AllOnes}
    BY <1>4, <1>5
  <1> QED BY <1>6, Zenon DEF NothingForgotten

(* Whatever trees the input has, wherever its chunks end and however the   *)
(* two programs of the pipe take turns (HashTree.cc, WriteKB.cc), the set  *)
(* that readKB (FactDB.cc) returns holds the hash of every tree that fits  *)
(* and is not behind a line too long, and nothing else but AllOnes.        *)
THEOREM KnowledgeBaseIsWhole == KBSpec => []NothingForgotten
  BY KBInitInv, KBNextInv, InvHoldsEverything, PTL DEF KBSpec

-------------------------------------------------------------------------------
(* What the inputs are                                                     *)
IsTree(t) ==
  /\ Cardinality(Tokens(t)) \in Nat /\ IsFiniteSet(Tokens(t))
  /\ Tokens(t) = 0 .. Cardinality(Tokens(t)) - 1
  /\ \A i \in Tokens(t) :
       /\ t.word[i] \in 0 .. TargetValues - 1
       /\ t.word[i] # INVALID_WORD /\ t.word[i] # NoTarget

LEMMA PairTrees == pair \in Pairs => IsTree(hyp) /\ IsTree(prem)
  <1> SUFFICES ASSUME pair \in Pairs PROVE IsTree(hyp) /\ IsTree(prem)
    OBVIOUS
  <1>1. ASSUME NEW t \in {c.hypothesis : c \in Pairs} \cup {c.premise : c \in Pairs}
        PROVE  IsTree(t)
    <2>1. PICK n \in Nat : n = Cardinality(Tokens(t))
      BY PairsAssumption
    <2>2. t.word \in [0 .. n - 1 -> Nat]
      BY <2>1, PairsAssumption
    <2>3. Tokens(t) = 0 .. n - 1
      BY <2>2 DEF Tokens
    <2>4. IsFiniteSet(Tokens(t))
      BY <2>3, FS_Interval
    <2>5. ASSUME NEW i \in Tokens(t)
          PROVE  t.word[i] \in Nat /\ t.word[i] < TargetValues
                 /\ t.word[i] # INVALID_WORD /\ t.word[i] # NoTarget
      BY <2>2, <2>3, PairsAssumption
    <2>6. TargetValues \in Nat
      BY WordsAssumption
    <2> QED BY <2>1, <2>3, <2>4, <2>5, <2>6 DEF IsTree
  <1> QED BY <1>1 DEF hyp, prem

LEMMA KeyphrasesFinite ==
  ASSUME NEW t, IsTree(t)
  PROVE  /\ Keyphrases(t) \in SUBSET Tokens(t)
         /\ \A S \in SUBSET Keyphrases(t) : IsFiniteSet(S) /\ Cardinality(S) \in Nat
  <1>1. Keyphrases(t) \in SUBSET Tokens(t)
    BY DEF Keyphrases
  <1>2. ASSUME NEW S \in SUBSET Keyphrases(t) PROVE IsFiniteSet(S) /\ Cardinality(S) \in Nat
    BY <1>1, FS_Subset, FS_CardinalityType DEF IsTree
  <1> QED BY <1>1, <1>2

(* Words fit in a target.                                                  *)
LEMMA TargetOfWord ==
  ASSUME NEW w \in 0 .. TargetValues - 1
  PROVE  w % TargetValues = w
  <1>1. PICK n \in Nat \ {0} : n = TargetValues
    BY WordsAssumption
  <1> QED BY <1>1

-------------------------------------------------------------------------------
(* What has been found                                                     *)
Polarities == {"UP", "DOWN", "FLAT", "INVALID"}

Instances == [index : Tokens(hyp), target : Nat, targetPolarity : Polarities]

Founds ==
  [of : [Tokens(hyp) -> {None} \cup Tokens(prem)], hyp : SUBSET Tokens(hyp),
   prem : SUBSET Tokens(prem), alignments : Seq(Instances)]

(* The tokens that have a partner, those that have an alignment, and those *)
(* of the premise that are partners.                                       *)
Partners(f) == {h \in Tokens(hyp) : f.of[h] # None}
HasAlignment(f) == f.hyp \cap Keyphrases(hyp)
IsUsed(f) == f.prem \cap Keyphrases(prem)

IsPairing(f) ==
  /\ Partners(f) \subseteq HasAlignment(f)
  /\ \A h \in Partners(f) : f.of[h] \in IsUsed(f)
  /\ \A h, i \in Partners(f) : f.of[h] = f.of[i] => h = i
  /\ \A p \in IsUsed(f) : \E h \in Partners(f) : f.of[h] = p

TargetOf(f, h) == IF h \in Partners(f) THEN prem.word[f.of[h]] ELSE NoTarget

IsRecorded(f) ==
  /\ \A k \in DOMAIN f.alignments :
       /\ f.alignments[k].index \in HasAlignment(f)
       /\ f.alignments[k].target = TargetOf(f, f.alignments[k].index)
  /\ \A k, l \in DOMAIN f.alignments : f.alignments[k].index = f.alignments[l].index => k = l
  /\ \A h \in HasAlignment(f) : \E k \in DOMAIN f.alignments : f.alignments[k].index = h

IsFound(f) == f \in Founds /\ IsPairing(f) /\ IsRecorded(f)

(* What is found later leaves alone what was found before.                 *)
Extends(f, g) ==
  /\ f.hyp \subseteq g.hyp /\ f.prem \subseteq g.prem
  /\ \A h \in Partners(f) : h \in Partners(g) /\ g.of[h] = f.of[h]

LEMMA ExtendsItself == \A f : Extends(f, f)
  BY DEF Extends

LEMMA ExtendsFurther == \A f, g, e : Extends(f, g) /\ Extends(g, e) => Extends(f, e)
  BY DEF Extends

LEMMA FoundFields ==
  ASSUME NEW f \in Founds
  PROVE  /\ f = [of |-> f.of, hyp |-> f.hyp, prem |-> f.prem, alignments |-> f.alignments]
         /\ f.of \in [Tokens(hyp) -> {None} \cup Tokens(prem)]
         /\ f.hyp \in SUBSET Tokens(hyp) /\ f.prem \in SUBSET Tokens(prem)
         /\ f.alignments \in Seq(Instances)
  BY DEF Founds

LEMMA PolarityIs == \A t, i : Polarity(t, i) \in Polarities
  <1>1. ASSUME NEW t, NEW i PROVE Polarity(t, i) \in Polarities
    <2> DEFINE rel == ProjectLexicalRelation(t, i, Markings(t), "FORWARD")
    <2>1. Polarity(t, i) = CASE rel = "FORWARD"      -> "UP"
                             [] rel = "REVERSE"      -> "DOWN"
                             [] rel = "INDEPENDENCE" -> "FLAT"
                             [] OTHER                -> "INVALID"
      BY Zenon DEF Polarity, PolarityAt
    <2> HIDE DEF rel
    <2>2. "FORWARD" # "REVERSE" /\ "FORWARD" # "INDEPENDENCE" /\ "REVERSE" # "INDEPENDENCE"
      OBVIOUS
    <2>3. \/ Polarity(t, i) = "UP" \/ Polarity(t, i) = "DOWN"
          \/ Polarity(t, i) = "FLAT" \/ Polarity(t, i) = "INVALID"
      BY <2>1, <2>2, Zenon
    <2> QED BY <2>3 DEF Polarities
  <1> QED BY <1>1

(* Marking tokens that are no keyphrases finds nothing.                    *)
LEMMA MarkingKeeps ==
  ASSUME NEW f, IsFound(f), NEW A \in SUBSET Tokens(hyp), NEW B \in SUBSET Tokens(prem),
         A \cap Keyphrases(hyp) = {}, B \cap Keyphrases(prem) = {},
         NEW g, g = [of |-> f.of, hyp |-> f.hyp \cup A, prem |-> f.prem \cup B,
                     alignments |-> f.alignments]
  PROVE  /\ IsFound(g) /\ Extends(f, g) /\ Partners(g) = Partners(f)
         /\ HasAlignment(g) = HasAlignment(f) /\ IsUsed(g) = IsUsed(f)
  <1>1. g \in Founds
    BY FoundFields DEF Founds, IsFound
  <1>2. /\ g.of = f.of /\ g.hyp = f.hyp \cup A /\ g.prem = f.prem \cup B
        /\ g.alignments = f.alignments
    OBVIOUS
  <1>3. Partners(g) = Partners(f) /\ HasAlignment(g) = HasAlignment(f) /\ IsUsed(g) = IsUsed(f)
    BY <1>2 DEF Partners, HasAlignment, IsUsed
  <1>4. IsPairing(g)
    BY <1>2, <1>3 DEF IsFound, IsPairing
  <1>5. \A h : TargetOf(g, h) = TargetOf(f, h)
    BY <1>2, <1>3 DEF TargetOf
  <1>6. IsRecorded(g)
    BY <1>2, <1>3, <1>5 DEF IsFound, IsRecorded
  <1>7. Extends(f, g)
    BY <1>2, <1>3 DEF Extends
  <1> QED BY <1>1, <1>3, <1>4, <1>6, <1>7 DEF IsFound

(* One more alignment.                                                     *)
LEMMA RecordedAppend ==
  ASSUME NEW f, IsFound(f), NEW h \in Keyphrases(hyp) \ f.hyp,
         NEW a \in Instances, a.index = h,
         NEW g, g.alignments = Append(f.alignments, a), a.target = TargetOf(g, h),
         HasAlignment(g) = HasAlignment(f) \cup {h},
         \A i \in HasAlignment(f) : TargetOf(g, i) = TargetOf(f, i)
  PROVE  IsRecorded(g)
  <1>1. PICK s \in Seq(Instances) : s = f.alignments
    BY FoundFields DEF IsFound
  <1>2. PICK n \in Nat : n = Len(s)
    OBVIOUS
  <1>3. PICK t : t = Append(s, a)
    OBVIOUS
  <1>4. /\ DOMAIN s = 1 .. n /\ DOMAIN t = 1 .. n + 1 /\ t[n + 1] = a
        /\ \A k \in 1 .. n : t[k] = s[k]
    BY <1>2, <1>3
  <1>5. \A k \in 1 .. n + 1 : k \in 1 .. n \/ k = n + 1
    BY <1>2
  <1>6. /\ \A k \in 1 .. n : s[k].index \in HasAlignment(f) /\ s[k].target = TargetOf(f, s[k].index)
        /\ \A k, l \in 1 .. n : s[k].index = s[l].index => k = l
        /\ \A i \in HasAlignment(f) : \E k \in 1 .. n : s[k].index = i
    BY <1>1, <1>4 DEF IsFound, IsRecorded
  <1>7. h \notin HasAlignment(f)
    BY DEF HasAlignment
  <1>8. \A k \in 1 .. n + 1 : /\ t[k].index \in HasAlignment(g)
                              /\ t[k].target = TargetOf(g, t[k].index)
    BY <1>4, <1>5, <1>6
  <1>9. ASSUME NEW k \in 1 .. n + 1, NEW l \in 1 .. n + 1, t[k].index = t[l].index PROVE k = l
    BY <1>4, <1>5, <1>6, <1>7, <1>9
  <1>10. ASSUME NEW i \in HasAlignment(g) PROVE \E k \in 1 .. n + 1 : t[k].index = i
    <2>1. \A k \in 1 .. n : k \in 1 .. n + 1
      BY <1>2
    <2>2. n + 1 \in 1 .. n + 1
      BY <1>2
    <2> QED BY <1>4, <1>6, <2>1, <2>2
  <1>11. g.alignments = t
    BY <1>1, <1>3
  <1> QED BY <1>4, <1>8, <1>9, <1>10, <1>11 DEF IsRecorded

LEMMA AlignKeeps ==
  ASSUME pair \in Pairs, NEW f, IsFound(f),
         NEW h \in Keyphrases(hyp) \ f.hyp, NEW p \in Keyphrases(prem) \ f.prem
  PROVE  /\ IsFound(Align(f, h, p)) /\ Extends(f, Align(f, h, p))
         /\ Partners(Align(f, h, p)) = Partners(f) \cup {h} /\ Align(f, h, p).of[h] = p
         /\ HasAlignment(Align(f, h, p)) = HasAlignment(f) \cup {h}
         /\ IsUsed(Align(f, h, p)) = IsUsed(f) \cup {p}
         /\ Align(f, h, p).hyp = f.hyp \cup {h} /\ Align(f, h, p).prem = f.prem \cup {p}
  <1>1. PICK a : a = Instance(h, prem.word[p], Polarity(prem, p))
    OBVIOUS
  <1>2. f \in Founds
    BY DEF IsFound
  <1>3. h \in Tokens(hyp) /\ p \in Tokens(prem) /\ IsTree(hyp) /\ IsTree(prem)
    BY PairTrees DEF Keyphrases
  <1>4. p # None
    <2>1. p \in 0 .. Cardinality(Tokens(prem)) - 1
      BY <1>3 DEF IsTree
    <2> QED BY <2>1 DEF None
  <1>5. a \in Instances /\ a.index = h /\ a.target = prem.word[p]
    <2>1. prem.word[p] \in 0 .. TargetValues - 1 /\ prem.word[p] \in Nat
      BY <1>3, WordsAssumption DEF IsTree
    <2>2. prem.word[p] % TargetValues = prem.word[p]
      BY <2>1, TargetOfWord
    <2>3. PICK o \in Polarities : o = Polarity(prem, p)
      BY PolarityIs
    <2>4. a = [index |-> h, target |-> prem.word[p], targetPolarity |-> o]
      BY <1>1, <2>2, <2>3 DEF Instance
    <2> QED BY <2>1, <2>4, <1>3 DEF Instances
  <1>6. PICK g : g = Align(f, h, p)
    OBVIOUS
  <1>7. g = [of |-> [f.of EXCEPT ![h] = p], hyp |-> f.hyp \cup {h}, prem |-> f.prem \cup {p},
             alignments |-> Append(f.alignments, a)]
    <2>1. f = [of |-> f.of, hyp |-> f.hyp, prem |-> f.prem, alignments |-> f.alignments]
      BY <1>2, FoundFields
    <2> QED BY <1>1, <1>6, <2>1 DEF Align
  <1>8. g \in Founds
    <2>1. f.of \in [Tokens(hyp) -> {None} \cup Tokens(prem)]
      BY <1>2, FoundFields
    <2>2. [f.of EXCEPT ![h] = p] \in [Tokens(hyp) -> {None} \cup Tokens(prem)]
      BY <1>3, <2>1
    <2>3. Append(f.alignments, a) \in Seq(Instances)
      <3>1. PICK s \in Seq(Instances) : s = f.alignments
        BY <1>2, FoundFields
      <3> QED BY <3>1, <1>5
    <2>4. f.hyp \cup {h} \in SUBSET Tokens(hyp) /\ f.prem \cup {p} \in SUBSET Tokens(prem)
      BY <1>2, <1>3, FoundFields
    <2> QED BY <1>7, <2>2, <2>3, <2>4 DEF Founds
  <1>9. /\ \A i \in Tokens(hyp) : g.of[i] = IF i = h THEN p ELSE f.of[i]
        /\ g.hyp = f.hyp \cup {h} /\ g.prem = f.prem \cup {p}
        /\ g.alignments = Append(f.alignments, a)
    <2>1. f.of \in [Tokens(hyp) -> {None} \cup Tokens(prem)]
      BY <1>2, FoundFields
    <2> QED BY <1>7, <2>1
  <1>10. h \notin Partners(f) /\ p \notin IsUsed(f)
    BY DEF IsFound, IsPairing, HasAlignment, IsUsed
  <1>11. /\ Partners(g) = Partners(f) \cup {h} /\ HasAlignment(g) = HasAlignment(f) \cup {h}
         /\ IsUsed(g) = IsUsed(f) \cup {p} /\ g.of[h] = p
         /\ \A i \in Partners(f) : g.of[i] = f.of[i]
    <2>1. Partners(g) = Partners(f) \cup {h}
      BY <1>3, <1>4, <1>9 DEF Partners
    <2>2. HasAlignment(g) = HasAlignment(f) \cup {h} /\ IsUsed(g) = IsUsed(f) \cup {p}
      BY <1>9 DEF HasAlignment, IsUsed
    <2>3. \A i \in Partners(f) : i \in Tokens(hyp) /\ i # h
      BY <1>10 DEF Partners
    <2> QED BY <2>1, <2>2, <2>3, <1>3, <1>9
  <1>12. IsPairing(g)
    <2>1. /\ Partners(f) \subseteq HasAlignment(f)
          /\ \A i \in Partners(f) : f.of[i] \in IsUsed(f)
          /\ \A i, j \in Partners(f) : f.of[i] = f.of[j] => i = j
          /\ \A q \in IsUsed(f) : \E i \in Partners(f) : f.of[i] = q
      BY DEF IsFound, IsPairing
    <2> QED BY <2>1, <1>10, <1>11 DEF IsPairing
  <1>13. IsRecorded(g)
    <2>1. a.target = TargetOf(g, h)
      BY <1>5, <1>11 DEF TargetOf
    <2>2. \A i \in HasAlignment(f) : i # h
      BY DEF HasAlignment
    <2>3. \A i \in HasAlignment(f) : TargetOf(g, i) = TargetOf(f, i)
      BY <1>11, <2>2 DEF TargetOf
    <2> QED BY <1>5, <1>9, <1>11, <2>1, <2>3, RecordedAppend
  <1>14. Extends(f, g)
    BY <1>9, <1>11 DEF Extends
  <1> QED BY <1>6, <1>8, <1>9, <1>11, <1>12, <1>13, <1>14 DEF IsFound

-------------------------------------------------------------------------------
(* A pass                                                                  *)
LEMMA MinIsOne ==
  ASSUME NEW t, IsTree(t), NEW S \in SUBSET Tokens(t), S # {}
  PROVE  Min(S) \in S
  <1>1. S \in SUBSET Nat
    BY DEF IsTree
  <1>2. \E x \in S : \A y \in S : x <= y
    BY <1>1, LeastExists
  <1> QED BY <1>2, Zenon DEF Min

(* The first passes align equal words only, and the third all of them.     *)
LEMMA MatchingWords ==
  ASSUME NEW k \in {1, 2, 3}, NEW stray, NEW f, NEW h, NEW p
  PROVE  /\ Matching(k, stray, f, h, p) => prem.word[p] = hyp.word[h]
         /\ k = 3 /\ prem.word[p] = hyp.word[h] => Matching(k, stray, f, h, p)
  BY DEF Matching

(* Only tokens that are no keyphrases are marked.                          *)
IsMarked(f, g) ==
  \E A \in SUBSET Tokens(hyp), B \in SUBSET Tokens(prem) :
    /\ A \cap Keyphrases(hyp) = {} /\ B \cap Keyphrases(prem) = {}
    /\ g = [of |-> f.of, hyp |-> f.hyp \cup A, prem |-> f.prem \cup B, alignments |-> f.alignments]

OpenHyp(f) == Keyphrases(hyp) \ f.hyp
OpenPrem(f) == Keyphrases(prem) \ f.prem

(* A token is passed by if nothing matches, or else aligned.               *)
LEMMA MatchTokenIs ==
  ASSUME pair \in Pairs, NEW k, NEW stray, NEW f, IsFound(f), NEW h \in Tokens(hyp)
  PROVE  \/ /\ IsMarked(f, MatchToken(k, stray, f, h))
            /\ h \in OpenHyp(f) => \A p \in OpenPrem(f) : ~Matching(k, stray, f, h, p)
         \/ \E g : \E p \in OpenPrem(f) :
              /\ IsMarked(f, g) /\ g.hyp = f.hyp /\ h \in OpenHyp(f)
              /\ Matching(k, stray, f, h, p) /\ MatchToken(k, stray, f, h) = Align(g, h, p)
  <1> DEFINE open == {p \in Tokens(prem) \ f.prem : IsContent(prem, p)}
             ps   == {p \in open : prem.word[p] # BE /\ Matching(k, stray, f, h, p)}
             seen == {p \in open : \A q \in ps : p < q}
             g    == [f EXCEPT !.prem = @ \cup {p \in seen : prem.word[p] = BE}]
  <1>1. MatchToken(k, stray, f, h) =
          IF h \in f.hyp THEN f
          ELSE IF hyp.word[h] = BE THEN [f EXCEPT !.hyp = @ \cup {h}]
          ELSE IF ~IsContent(hyp, h) THEN f
          ELSE IF ps = {} THEN g
          ELSE Align(g, h, Min(ps))
    BY Zenon DEF MatchToken
  <1>2. /\ f = [of |-> f.of, hyp |-> f.hyp, prem |-> f.prem, alignments |-> f.alignments]
        /\ f.hyp \in SUBSET Tokens(hyp) /\ f.prem \in SUBSET Tokens(prem)
    BY FoundFields DEF IsFound
  <1>3. IsMarked(f, f)
    <2>1. f.hyp \cup {} = f.hyp /\ f.prem \cup {} = f.prem
      OBVIOUS
    <2> QED BY <1>2, <2>1 DEF IsMarked
  <1>4. IsMarked(f, g) /\ g.hyp = f.hyp
    <2>1. PICK B : B = {p \in seen : prem.word[p] = BE}
      OBVIOUS
    <2>2. B \in SUBSET Tokens(prem) /\ B \cap Keyphrases(prem) = {}
      BY <2>1 DEF Keyphrases
    <2>3. g = [of |-> f.of, hyp |-> f.hyp, prem |-> f.prem \cup B, alignments |-> f.alignments]
      <3>1. g = [f EXCEPT !.prem = @ \cup B]
        BY <2>1
      <3> HIDE DEF g
      <3> QED BY <1>2, <3>1
    <2>4. f.hyp \cup {} = f.hyp
      OBVIOUS
    <2> HIDE DEF g
    <2> QED BY <2>2, <2>3, <2>4 DEF IsMarked
  <1>5. ps = {p \in OpenPrem(f) : Matching(k, stray, f, h, p)}
    BY DEF OpenPrem, Keyphrases
  <1>6. h \in OpenHyp(f) <=> h \notin f.hyp /\ hyp.word[h] # BE /\ IsContent(hyp, h)
    BY DEF OpenHyp, Keyphrases
  <1> HIDE DEF ps, g
  <1>7. CASE h \in f.hyp
    BY <1>1, <1>3, <1>6, <1>7
  <1>8. CASE h \notin f.hyp /\ hyp.word[h] = BE
    <2>1. MatchToken(k, stray, f, h) =
            [of |-> f.of, hyp |-> f.hyp \cup {h}, prem |-> f.prem, alignments |-> f.alignments]
      BY <1>1, <1>2, <1>8
    <2>2. {h} \in SUBSET Tokens(hyp) /\ {h} \cap Keyphrases(hyp) = {} /\ f.prem \cup {} = f.prem
      BY <1>8 DEF Keyphrases
    <2> QED BY <2>1, <2>2, <1>6, <1>8 DEF IsMarked
  <1>9. CASE h \notin f.hyp /\ hyp.word[h] # BE /\ ~IsContent(hyp, h)
    BY <1>1, <1>3, <1>6, <1>9
  <1>10. CASE h \in OpenHyp(f) /\ ps = {}
    BY <1>1, <1>4, <1>5, <1>6, <1>10
  <1>11. CASE h \in OpenHyp(f) /\ ps # {}
    <2>1. MatchToken(k, stray, f, h) = Align(g, h, Min(ps))
      BY <1>1, <1>6, <1>11
    <2>2. ps \in SUBSET Tokens(prem) /\ IsTree(prem)
      BY <1>5, PairTrees DEF OpenPrem, Keyphrases
    <2>3. Min(ps) \in ps
      BY <2>2, <1>11, MinIsOne
    <2> QED BY <2>1, <2>3, <1>4, <1>5, <1>11
  <1> QED BY <1>6, <1>7, <1>8, <1>9, <1>10, <1>11

IsExact(f) == \A h \in Partners(f) : prem.word[f.of[h]] = hyp.word[h]

AllPaired(f) == HasAlignment(f) \subseteq Partners(f)

(* No token left has the word of token h, if that is left.                 *)
IsSettled(f, h) == h \in OpenHyp(f) => \A p \in OpenPrem(f) : prem.word[p] # hyp.word[h]

LEMMA MarkedKeeps ==
  ASSUME NEW f, IsFound(f), NEW g, IsMarked(f, g)
  PROVE  /\ IsFound(g) /\ Extends(f, g) /\ Partners(g) = Partners(f) /\ g.of = f.of
         /\ HasAlignment(g) = HasAlignment(f) /\ IsUsed(g) = IsUsed(f)
         /\ OpenHyp(g) = OpenHyp(f) /\ OpenPrem(g) = OpenPrem(f)
  <1>1. PICK A \in SUBSET Tokens(hyp), B \in SUBSET Tokens(prem) :
          /\ A \cap Keyphrases(hyp) = {} /\ B \cap Keyphrases(prem) = {}
          /\ g = [of |-> f.of, hyp |-> f.hyp \cup A, prem |-> f.prem \cup B,
                  alignments |-> f.alignments]
    BY DEF IsMarked
  <1>2. /\ IsFound(g) /\ Extends(f, g) /\ Partners(g) = Partners(f)
        /\ HasAlignment(g) = HasAlignment(f) /\ IsUsed(g) = IsUsed(f)
    BY <1>1, MarkingKeeps
  <1>3. g.of = f.of /\ OpenHyp(g) = OpenHyp(f) /\ OpenPrem(g) = OpenPrem(f)
    BY <1>1 DEF OpenHyp, OpenPrem
  <1> QED BY <1>2, <1>3

(* What one round does.                                                    *)
Progress(k, f, g) ==
  /\ IsFound(g) /\ Extends(f, g)
  /\ AllPaired(f) => AllPaired(g)
  /\ k \in {1, 2, 3} /\ IsExact(f) => IsExact(g)

LEMMA MatchTokenFinds ==
  ASSUME pair \in Pairs, NEW k, NEW stray, NEW f, IsFound(f), NEW h \in Tokens(hyp)
  PROVE  /\ Progress(k, f, MatchToken(k, stray, f, h))
         /\ k = 3 => IsSettled(MatchToken(k, stray, f, h), h)
  <1>1. PICK m : m = MatchToken(k, stray, f, h)
    OBVIOUS
  <1>2. CASE /\ IsMarked(f, m)
             /\ h \in OpenHyp(f) => \A p \in OpenPrem(f) : ~Matching(k, stray, f, h, p)
    <2>1. /\ IsFound(m) /\ Extends(f, m) /\ Partners(m) = Partners(f) /\ m.of = f.of
          /\ HasAlignment(m) = HasAlignment(f)
          /\ OpenHyp(m) = OpenHyp(f) /\ OpenPrem(m) = OpenPrem(f)
      BY <1>2, MarkedKeeps
    <2>2. Progress(k, f, m)
      BY <2>1 DEF Progress, AllPaired, IsExact
    <2>3. ASSUME k = 3 PROVE IsSettled(m, h)
      <3>1. \A p : prem.word[p] = hyp.word[h] => Matching(k, stray, f, h, p)
        BY <2>3, MatchingWords
      <3> QED BY <3>1, <2>1, <1>2 DEF IsSettled
    <2> QED BY <1>1, <2>2, <2>3
  <1>3. CASE \E g : \E p \in OpenPrem(f) :
               /\ IsMarked(f, g) /\ g.hyp = f.hyp /\ h \in OpenHyp(f)
               /\ Matching(k, stray, f, h, p) /\ m = Align(g, h, p)
    <2>1. PICK g : \E p \in OpenPrem(f) :
                     /\ IsMarked(f, g) /\ g.hyp = f.hyp /\ h \in OpenHyp(f)
                     /\ Matching(k, stray, f, h, p) /\ m = Align(g, h, p)
      BY <1>3
    <2>2. PICK p \in OpenPrem(f) :
            /\ IsMarked(f, g) /\ g.hyp = f.hyp /\ h \in OpenHyp(f)
            /\ Matching(k, stray, f, h, p) /\ m = Align(g, h, p)
      BY <2>1
    <2>3. /\ IsFound(g) /\ Extends(f, g) /\ Partners(g) = Partners(f) /\ g.of = f.of
          /\ HasAlignment(g) = HasAlignment(f)
          /\ OpenHyp(g) = OpenHyp(f) /\ OpenPrem(g) = OpenPrem(f)
      BY <2>2, MarkedKeeps
    <2>4. h \in Keyphrases(hyp) \ g.hyp /\ p \in Keyphrases(prem) \ g.prem
      BY <2>2, <2>3 DEF OpenHyp, OpenPrem
    <2>5. /\ IsFound(m) /\ Extends(g, m) /\ Partners(m) = Partners(g) \cup {h} /\ m.of[h] = p
          /\ HasAlignment(m) = HasAlignment(g) \cup {h} /\ m.hyp = g.hyp \cup {h}
      BY <2>2, <2>3, <2>4, AlignKeeps
    <2>6. Extends(f, m)
      BY <2>3, <2>5, ExtendsFurther
    <2>7. AllPaired(f) => AllPaired(m)
      BY <2>3, <2>5 DEF AllPaired
    <2>8. ASSUME k \in {1, 2, 3}, IsExact(f) PROVE IsExact(m)
      <3>1. prem.word[p] = hyp.word[h]
        BY <2>2, <2>8, MatchingWords
      <3>2. \A i \in Partners(f) : m.of[i] = f.of[i]
        BY <2>6 DEF Extends
      <3> QED BY <3>1, <3>2, <2>3, <2>5, <2>8 DEF IsExact
    <2>9. IsSettled(m, h)
      BY <2>5 DEF IsSettled, OpenHyp
    <2> QED BY <1>1, <2>5, <2>6, <2>7, <2>8, <2>9 DEF Progress
  <1>4. \/ /\ IsMarked(f, m)
           /\ h \in OpenHyp(f) => \A p \in OpenPrem(f) : ~Matching(k, stray, f, h, p)
        \/ \E g : \E p \in OpenPrem(f) :
             /\ IsMarked(f, g) /\ g.hyp = f.hyp /\ h \in OpenHyp(f)
             /\ Matching(k, stray, f, h, p) /\ m = Align(g, h, p)
    BY <1>1, MatchTokenIs
  <1> QED BY <1>2, <1>3, <1>4

LEMMA SettledStays ==
  ASSUME NEW f, NEW g, Extends(f, g), NEW h, IsSettled(f, h)
  PROVE  IsSettled(g, h)
  BY DEF Extends, IsSettled, OpenHyp, OpenPrem

DoesMatch(k, stray, f, c, done) ==
  done = [n \in 0 .. c |-> IF n = 0 THEN f ELSE MatchToken(k, stray, done[n - 1], n - 1)]

LEMMA MatchUnfolds ==
  ASSUME pair \in Pairs, NEW k, NEW stray, NEW f, IsFound(f)
  PROVE  \E done \in [0 .. Cardinality(Tokens(hyp)) -> {e \in Founds : IsFound(e)}] :
           /\ done[0] = f
           /\ \A n \in 1 .. Cardinality(Tokens(hyp)) : done[n] = MatchToken(k, stray, done[n - 1], n - 1)
           /\ MatchPass(k, stray, f) = done[Cardinality(Tokens(hyp))]
  <1> DEFINE S == {e \in Founds : IsFound(e)}
  <1>1. PICK c \in Nat : c = Cardinality(Tokens(hyp))
    BY PairTrees DEF IsTree
  <1>2. Tokens(hyp) = 0 .. c - 1
    BY <1>1, PairTrees DEF IsTree
  <1> DEFINE step == [q \in (1 .. c) \X S |-> MatchToken(k, stray, q[2], q[1] - 1)]
  <1>3. f \in S
    BY DEF IsFound
  <1>4. ASSUME NEW n \in 1 .. c, NEW s \in S PROVE MatchToken(k, stray, s, n - 1) \in S
    <2>1. n - 1 \in Tokens(hyp) /\ IsFound(s)
      <3>1. n - 1 \in 0 .. c - 1
        BY <1>1
      <3> QED BY <1>2, <3>1
    <2>2. PICK h \in Tokens(hyp) : h = n - 1
      BY <2>1
    <2>3. Progress(k, s, MatchToken(k, stray, s, h))
      BY <2>1, MatchTokenFinds
    <2>4. IsFound(MatchToken(k, stray, s, n - 1))
      BY <2>2, <2>3 DEF Progress
    <2> QED BY <2>4 DEF IsFound
  <1>5. step \in [(1 .. c) \X S -> S]
    <2> HIDE DEF S
    <2> QED BY <1>4
  <1>6. PICK a \in [0 .. c -> S] : Unfolds(a, c, f, step)
    <2> HIDE DEF S, step
    <2> QED BY <1>1, <1>3, <1>5, RecursionExists
  <1>7. ASSUME NEW n \in 0 .. c
        PROVE  a[n] = IF n = 0 THEN f ELSE MatchToken(k, stray, a[n - 1], n - 1)
    <2>1. a[n] = IF n = 0 THEN f ELSE step[<<n, a[n - 1]>>]
      <3> HIDE DEF step
      <3> QED BY <1>6 DEF Unfolds
    <2>2. CASE n # 0
      <3>1. n \in 1 .. c /\ n - 1 \in 0 .. c
        BY <1>1, <2>2
      <3>2. a[n - 1] \in S
        <4> HIDE DEF S
        <4> QED BY <1>6, <3>1
      <3>3. PICK s : s = a[n - 1]
        OBVIOUS
      <3>4. step[<<n, s>>] = MatchToken(k, stray, s, n - 1)
        <4> HIDE DEF S
        <4> QED BY <3>1, <3>2, <3>3
      <3> HIDE DEF step
      <3> QED BY <2>1, <2>2, <3>3, <3>4
    <2> QED BY <2>1, <2>2
  <1>8. DoesMatch(k, stray, f, c, a)
    <2> HIDE DEF S, step
    <2>1. a = [n \in 0 .. c |-> IF n = 0 THEN f ELSE MatchToken(k, stray, a[n - 1], n - 1)]
      BY <1>6, <1>7
    <2> QED BY <2>1, Zenon DEF DoesMatch
  <1> DEFINE d == CHOOSE done : DoesMatch(k, stray, f, Cardinality(Tokens(hyp)), done)
  <1>9. DoesMatch(k, stray, f, Cardinality(Tokens(hyp)), d)
    BY <1>1, <1>8, Zenon
  <1>10. MatchPass(k, stray, f) = d[Cardinality(Tokens(hyp))]
    BY Zenon DEF MatchPass, DoesMatch
  <1>11. PICK done : done = d
    OBVIOUS
  <1>12. DoesMatch(k, stray, f, c, done) /\ MatchPass(k, stray, f) = done[c]
    BY <1>1, <1>9, <1>10, <1>11, Zenon
  <1> HIDE DEF d
  <1>13. \A n \in 0 .. c : done[n] = IF n = 0 THEN f ELSE MatchToken(k, stray, done[n - 1], n - 1)
    BY <1>12, Zenon DEF DoesMatch
  <1>14. done[0] = f /\ \A n \in 1 .. c : done[n] = MatchToken(k, stray, done[n - 1], n - 1)
    <2>1. 0 \in 0 .. c /\ \A n \in 1 .. c : n \in 0 .. c /\ n # 0
      BY <1>1
    <2> QED BY <1>13, <2>1
  <1>15. \A n \in 0 .. c : done[n] \in S
    <2> DEFINE T == {n \in 0 .. c : done[n] \in S}
    <2>1. 0 \in T
      BY <1>1, <1>3, <1>14
    <2>2. ASSUME NEW n \in 1 .. c, n - 1 \in T PROVE n \in T
      <3>1. done[n - 1] \in S /\ n \in 0 .. c
        BY <1>1, <2>2
      <3>2. done[n] \in S
        <4> HIDE DEF S
        <4> QED BY <3>1, <1>4, <1>14
      <3> QED BY <3>1, <3>2
    <2>3. 0 .. c \subseteq T
      <3> HIDE DEF T
      <3> QED BY <1>1, <2>1, <2>2, IntervalInduction
    <2> QED BY <2>3
  <1>16. done \in [0 .. c -> S]
    <2>1. done = [n \in 0 .. c |-> done[n]]
      BY <1>12, Zenon DEF DoesMatch
    <2> HIDE DEF S
    <2> QED BY <1>15, <2>1
  <1> QED BY <1>1, <1>12, <1>14, <1>16, Zenon

LEMMA ProgressFurther ==
  \A k, f, g, e : Progress(k, f, g) /\ Progress(k, g, e) => Progress(k, f, e)
  BY ExtendsFurther DEF Progress

LEMMA MatchPassFinds ==
  ASSUME pair \in Pairs, NEW k, NEW stray, NEW f, IsFound(f)
  PROVE  /\ Progress(k, f, MatchPass(k, stray, f))
         /\ k = 3 => \A h \in Tokens(hyp) : IsSettled(MatchPass(k, stray, f), h)
  <1>1. PICK c \in Nat : c = Cardinality(Tokens(hyp))
    BY PairTrees DEF IsTree
  <1>2. Tokens(hyp) = 0 .. c - 1
    BY <1>1, PairTrees DEF IsTree
  <1>3. PICK done \in [0 .. c -> {e \in Founds : IsFound(e)}] :
          /\ done[0] = f
          /\ \A n \in 1 .. c : done[n] = MatchToken(k, stray, done[n - 1], n - 1)
          /\ MatchPass(k, stray, f) = done[c]
    BY <1>1, MatchUnfolds
  <1> DEFINE T == {n \in 0 .. c : /\ Progress(k, f, done[n])
                                  /\ k = 3 => \A h \in 0 .. n - 1 : IsSettled(done[n], h)}
  <1>4. 0 \in T
    <2>1. Progress(k, f, f)
      BY ExtendsItself DEF Progress
    <2>2. 0 \in 0 .. c /\ 0 .. 0 - 1 = {}
      BY <1>1
    <2> QED BY <1>3, <2>1, <2>2
  <1>5. ASSUME NEW n \in 1 .. c, n - 1 \in T PROVE n \in T
    <2>1. PICK h \in Tokens(hyp) : h = n - 1
      <3>1. n - 1 \in 0 .. c - 1
        BY <1>1
      <3> QED BY <1>2, <3>1
    <2>2. PICK g : g = done[h]
      OBVIOUS
    <2>3. Progress(k, f, g) /\ (k = 3 => \A i \in 0 .. h - 1 : IsSettled(g, i))
      BY <1>5, <2>1, <2>2
    <2>4. done[n] = MatchToken(k, stray, g, h)
      BY <1>3, <2>1, <2>2
    <2>5. IsFound(g)
      BY <2>3 DEF Progress
    <2>6. /\ Progress(k, g, MatchToken(k, stray, g, h))
          /\ k = 3 => IsSettled(MatchToken(k, stray, g, h), h)
      BY <2>5, MatchTokenFinds
    <2> HIDE DEF T
    <2>7. PICK m : m = done[n]
      OBVIOUS
    <2>8. Progress(k, g, m) /\ (k = 3 => IsSettled(m, h))
      BY <2>4, <2>6, <2>7
    <2>9. Progress(k, f, m)
      BY <2>3, <2>8, ProgressFurther
    <2>10. ASSUME k = 3, NEW i \in 0 .. n - 1 PROVE IsSettled(m, i)
      <3>1. CASE i = h
        BY <2>8, <2>10, <3>1
      <3>2. CASE i # h
        <4>1. i \in 0 .. h - 1
          BY <1>1, <2>1, <3>2
        <4>2. IsSettled(g, i) /\ Extends(g, m)
          BY <2>3, <2>8, <2>10, <4>1 DEF Progress
        <4> QED BY <4>2, SettledStays
      <3> QED BY <3>1, <3>2
    <2>11. n \in 0 .. c
      BY <1>1
    <2> QED BY <2>7, <2>9, <2>10, <2>11 DEF T
  <1>6. 0 .. c \subseteq T
    <2> HIDE DEF T
    <2> QED BY <1>1, <1>4, <1>5, IntervalInduction
  <1>7. c \in T
    BY <1>1, <1>6
  <1>8. Progress(k, f, done[c]) /\ (k = 3 => \A h \in 0 .. c - 1 : IsSettled(done[c], h))
    BY <1>7
  <1> HIDE DEF T
  <1> QED BY <1>2, <1>3, <1>8

-------------------------------------------------------------------------------
(* The best come first                                                     *)
Same(f, w) == {h \in Partners(f) : hyp.word[h] = w /\ prem.word[f.of[h]] = w}

WithWord(t, w) == {i \in Keyphrases(t) : t.word[i] = w}

(* Everything with a word is aligned with an equal, on one of the sides.   *)
IsBest(f, w) ==
  \/ WithWord(hyp, w) \subseteq Same(f, w)
  \/ \A p \in WithWord(prem, w) : \E h \in Same(f, w) : f.of[h] = p

LEMMA BestAfterExact ==
  ASSUME NEW f, IsFound(f), AllPaired(f), IsExact(f),
         \A h \in Tokens(hyp) : IsSettled(f, h)
  PROVE  \A w : IsBest(f, w)
  <1> SUFFICES ASSUME NEW w PROVE IsBest(f, w)
    OBVIOUS
  <1>1. \A h \in Partners(f) : hyp.word[h] = w => h \in Same(f, w)
    BY DEF Same, IsExact
  <1>2. CASE \E h \in OpenHyp(f) : hyp.word[h] = w
    <2>1. \A p \in OpenPrem(f) : prem.word[p] # w
      BY <1>2 DEF IsSettled, OpenHyp, Keyphrases
    <2>2. ASSUME NEW p \in WithWord(prem, w) PROVE \E h \in Same(f, w) : f.of[h] = p
      <3>1. p \in IsUsed(f) /\ prem.word[p] = w
        BY <2>1 DEF WithWord, OpenPrem, IsUsed
      <3>2. PICK h \in Partners(f) : f.of[h] = p
        BY <3>1 DEF IsFound, IsPairing
      <3>3. hyp.word[h] = w
        BY <3>1, <3>2 DEF IsExact
      <3> QED BY <1>1, <3>2, <3>3
    <2> QED BY <2>2 DEF IsBest
  <1>3. CASE ~ \E h \in OpenHyp(f) : hyp.word[h] = w
    <2>1. ASSUME NEW h \in WithWord(hyp, w) PROVE h \in Same(f, w)
      <3>1. h \in HasAlignment(f) /\ hyp.word[h] = w
        BY <1>3 DEF WithWord, OpenHyp, HasAlignment
      <3> QED BY <1>1, <3>1 DEF AllPaired
    <2> QED BY <2>1 DEF IsBest
  <1> QED BY <1>2, <1>3

LEMMA BestStays ==
  ASSUME NEW f, NEW g, Extends(f, g), NEW w, IsBest(f, w)
  PROVE  IsBest(g, w)
  <1>1. \A h \in Same(f, w) : h \in Same(g, w) /\ g.of[h] = f.of[h]
    BY DEF Same, Extends
  <1> QED BY <1>1 DEF IsBest

-------------------------------------------------------------------------------
(* The passes after the matching                                           *)
LEMMA SmallerSet ==
  ASSUME NEW S, NEW T, IsFiniteSet(T), NEW g \in [S -> T],
         \A x, y \in S : g[x] = g[y] => x = y
  PROVE  /\ IsFiniteSet(S) /\ Cardinality(S) \in Nat /\ Cardinality(T) \in Nat
         /\ Cardinality(S) <= Cardinality(T)
         /\ (\A y \in T : \E x \in S : g[x] = y) => Cardinality(S) = Cardinality(T)
  <1>1. g \in Injection(S, T)
    BY DEF Injection, IsInjective
  <1>2. IsFiniteSet(S) /\ Cardinality(S) <= Cardinality(T)
        /\ (Cardinality(S) = Cardinality(T) <=> g \in Surjection(S, T))
    BY <1>1, FS_Injection
  <1>3. (\A y \in T : \E x \in S : g[x] = y) => g \in Surjection(S, T)
    BY DEF Surjection
  <1> QED BY <1>2, <1>3, FS_CardinalityType

(* Words are left over on both sides only if two are on each.              *)
FewLeft(f) ==
  OpenHyp(f) # {} /\ OpenPrem(f) # {} =>
    Cardinality(OpenHyp(f)) > 1 /\ Cardinality(OpenPrem(f)) > 1

LEMMA ConstrainedFinds ==
  ASSUME pair \in Pairs, NEW f, IsFound(f), AllPaired(f)
  PROVE  /\ IsFound(Constrained(f)) /\ Extends(f, Constrained(f))
         /\ AllPaired(Constrained(f)) /\ FewLeft(Constrained(f))
  <1>1. PICK hs, ps : hs = OpenHyp(f) /\ ps = OpenPrem(f)
    OBVIOUS
  <1>2. PICK m : m = Constrained(f)
    OBVIOUS
  <1>3. m = IF hs # {} /\ ps # {} /\ (Cardinality(hs) = 1 \/ Cardinality(ps) = 1)
            THEN Align(f, Min(hs), Min(ps)) ELSE f
    BY <1>1, <1>2 DEF Constrained, OpenHyp, OpenPrem
  <1>4. /\ hs \in SUBSET Tokens(hyp) /\ ps \in SUBSET Tokens(prem)
        /\ IsFiniteSet(hs) /\ IsFiniteSet(ps) /\ Cardinality(hs) \in Nat /\ Cardinality(ps) \in Nat
    BY <1>1, PairTrees, KeyphrasesFinite DEF OpenHyp, OpenPrem
  <1>5. CASE hs # {} /\ ps # {} /\ (Cardinality(hs) = 1 \/ Cardinality(ps) = 1)
    <2>1. PICK h \in hs, p \in ps : h = Min(hs) /\ p = Min(ps)
      BY <1>4, <1>5, PairTrees, MinIsOne
    <2>2. h \in Keyphrases(hyp) \ f.hyp /\ p \in Keyphrases(prem) \ f.prem
      BY <1>1, <2>1 DEF OpenHyp, OpenPrem
    <2>3. m = Align(f, h, p)
      BY <1>3, <1>5, <2>1
    <2>4. /\ IsFound(m) /\ Extends(f, m) /\ Partners(m) = Partners(f) \cup {h}
          /\ HasAlignment(m) = HasAlignment(f) \cup {h}
          /\ m.hyp = f.hyp \cup {h} /\ m.prem = f.prem \cup {p}
      BY <2>2, <2>3, AlignKeeps
    <2>5. AllPaired(m)
      BY <2>4 DEF AllPaired
    <2>6. OpenHyp(m) = hs \ {h} /\ OpenPrem(m) = ps \ {p}
      BY <1>1, <2>4 DEF OpenHyp, OpenPrem
    <2>7. \A S, x : IsFiniteSet(S) /\ Cardinality(S) = 1 /\ x \in S => S \ {x} = {}
      <3> SUFFICES ASSUME NEW S, NEW x \in S, IsFiniteSet(S), Cardinality(S) = 1
                   PROVE  S \ {x} = {}
        OBVIOUS
      <3>1. PICK y : S = {y}
        BY FS_Singleton
      <3> QED BY <3>1
    <2>8. OpenHyp(m) = {} \/ OpenPrem(m) = {}
      BY <1>4, <1>5, <2>6, <2>7
    <2> QED BY <1>2, <2>4, <2>5, <2>8 DEF FewLeft
  <1>6. CASE ~(hs # {} /\ ps # {} /\ (Cardinality(hs) = 1 \/ Cardinality(ps) = 1))
    <2>1. m = f
      BY <1>3, <1>6
    <2>2. hs # {} /\ ps # {} => Cardinality(hs) > 1 /\ Cardinality(ps) > 1
      <3>1. \A S : IsFiniteSet(S) => (Cardinality(S) = 0 <=> S = {})
        BY FS_EmptySet
      <3> QED BY <1>4, <1>6, <3>1
    <2>3. FewLeft(f)
      BY <1>1, <2>2 DEF FewLeft
    <2> QED BY <1>2, <2>1, <2>3, ExtendsItself
  <1> QED BY <1>5, <1>6

(* What pass 4 leaves of what was found.                                   *)
LeavesAsFound(f, g) ==
  /\ IsFound(g) /\ g.of = f.of /\ g.prem = f.prem /\ f.hyp \subseteq g.hyp

LEMMA LeaveTokenKeeps ==
  ASSUME pair \in Pairs, NEW f, IsFound(f), NEW h \in Tokens(hyp)
  PROVE  /\ LeavesAsFound(f, LeaveToken(f, h))
         /\ h \in Keyphrases(hyp) => h \in LeaveToken(f, h).hyp
  <1>1. CASE h \notin Keyphrases(hyp) \ f.hyp
    BY <1>1 DEF LeaveToken, LeavesAsFound
  <1>2. CASE h \in Keyphrases(hyp) \ f.hyp
    <2>1. PICK a : a = Instance(h, INVALID_WORD, Polarity(hyp, h))
      OBVIOUS
    <2>2. a \in Instances /\ a.index = h /\ a.target = NoTarget
      <3>1. PICK o \in Polarities : o = Polarity(hyp, h)
        BY PolarityIs
      <3>2. a = [index |-> h, target |-> NoTarget, targetPolarity |-> o]
        BY <2>1, <3>1 DEF Instance, NoTarget
      <3>3. NoTarget \in Nat
        <4>1. PICK n \in Nat \ {0} : n = TargetValues
          BY WordsAssumption
        <4>2. INVALID_WORD % n \in Nat
          BY <4>1, WordsAssumption
        <4> QED BY <4>1, <4>2 DEF NoTarget
      <3> QED BY <3>2, <3>3 DEF Instances
    <2>3. PICK g : g = LeaveToken(f, h)
      OBVIOUS
    <2>4. f = [of |-> f.of, hyp |-> f.hyp, prem |-> f.prem, alignments |-> f.alignments]
      BY FoundFields DEF IsFound
    <2>5. g = [of |-> f.of, hyp |-> f.hyp \cup {h}, prem |-> f.prem,
               alignments |-> Append(f.alignments, a)]
      BY <1>2, <2>1, <2>3, <2>4 DEF LeaveToken
    <2>6. /\ f.of \in [Tokens(hyp) -> {None} \cup Tokens(prem)]
          /\ f.hyp \cup {h} \in SUBSET Tokens(hyp) /\ f.prem \in SUBSET Tokens(prem)
      BY FoundFields DEF IsFound
    <2>7. Append(f.alignments, a) \in Seq(Instances)
      <3>1. PICK s \in Seq(Instances) : s = f.alignments
        BY FoundFields DEF IsFound
      <3> QED BY <3>1, <2>2
    <2>8. g \in Founds
      BY <2>5, <2>6, <2>7 DEF Founds
    <2>9. /\ g.of = f.of /\ g.hyp = f.hyp \cup {h} /\ g.prem = f.prem
          /\ g.alignments = Append(f.alignments, a)
      BY <2>5
    <2>10. Partners(g) = Partners(f) /\ IsUsed(g) = IsUsed(f)
           /\ HasAlignment(g) = HasAlignment(f) \cup {h}
      BY <1>2, <2>9 DEF Partners, IsUsed, HasAlignment
    <2>11. IsPairing(g)
      BY <2>9, <2>10 DEF IsFound, IsPairing
    <2>12. \A i : TargetOf(g, i) = TargetOf(f, i)
      BY <2>9, <2>10 DEF TargetOf
    <2>13. h \notin Partners(f)
      BY <1>2 DEF IsFound, IsPairing, HasAlignment
    <2>14. a.target = TargetOf(g, h)
      BY <2>2, <2>10, <2>13 DEF TargetOf
    <2>15. IsRecorded(g)
      BY <1>2, <2>2, <2>9, <2>10, <2>12, <2>14, RecordedAppend
    <2> QED BY <2>3, <2>8, <2>9, <2>11, <2>15 DEF LeavesAsFound, IsFound
  <1> QED BY <1>1, <1>2

DoesLeave(f, c, done) ==
  done = [n \in 0 .. c |-> IF n = 0 THEN f ELSE LeaveToken(done[n - 1], n - 1)]

LEMMA LeaveUnfolds ==
  ASSUME pair \in Pairs, NEW f, IsFound(f)
  PROVE  \E done \in [0 .. Cardinality(Tokens(hyp)) -> {e \in Founds : IsFound(e)}] :
           /\ done[0] = f
           /\ \A n \in 1 .. Cardinality(Tokens(hyp)) : done[n] = LeaveToken(done[n - 1], n - 1)
           /\ Unaligned(f) = done[Cardinality(Tokens(hyp))]
  <1> DEFINE S == {e \in Founds : IsFound(e)}
  <1>1. PICK c \in Nat : c = Cardinality(Tokens(hyp))
    BY PairTrees DEF IsTree
  <1>2. Tokens(hyp) = 0 .. c - 1
    BY <1>1, PairTrees DEF IsTree
  <1> DEFINE step == [q \in (1 .. c) \X S |-> LeaveToken(q[2], q[1] - 1)]
  <1>3. f \in S
    BY DEF IsFound
  <1>4. ASSUME NEW n \in 1 .. c, NEW s \in S PROVE LeaveToken(s, n - 1) \in S
    <2>1. n - 1 \in Tokens(hyp) /\ IsFound(s)
      <3>1. n - 1 \in 0 .. c - 1
        BY <1>1
      <3> QED BY <1>2, <3>1
    <2>2. PICK h \in Tokens(hyp) : h = n - 1
      BY <2>1
    <2>3. LeavesAsFound(s, LeaveToken(s, h))
      BY <2>1, LeaveTokenKeeps
    <2>4. IsFound(LeaveToken(s, n - 1))
      BY <2>2, <2>3 DEF LeavesAsFound
    <2> QED BY <2>4 DEF IsFound
  <1>5. step \in [(1 .. c) \X S -> S]
    <2> HIDE DEF S
    <2> QED BY <1>4
  <1>6. PICK a \in [0 .. c -> S] : Unfolds(a, c, f, step)
    <2> HIDE DEF S, step
    <2> QED BY <1>1, <1>3, <1>5, RecursionExists
  <1>7. ASSUME NEW n \in 0 .. c
        PROVE  a[n] = IF n = 0 THEN f ELSE LeaveToken(a[n - 1], n - 1)
    <2>1. a[n] = IF n = 0 THEN f ELSE step[<<n, a[n - 1]>>]
      <3> HIDE DEF step
      <3> QED BY <1>6 DEF Unfolds
    <2>2. CASE n # 0
      <3>1. n \in 1 .. c /\ n - 1 \in 0 .. c
        BY <1>1, <2>2
      <3>2. a[n - 1] \in S
        <4> HIDE DEF S
        <4> QED BY <1>6, <3>1
      <3>3. PICK s : s = a[n - 1]
        OBVIOUS
      <3>4. step[<<n, s>>] = LeaveToken(s, n - 1)
        <4> HIDE DEF S
        <4> QED BY <3>1, <3>2, <3>3
      <3> HIDE DEF step
      <3> QED BY <2>1, <2>2, <3>3, <3>4
    <2> QED BY <2>1, <2>2
  <1>8. DoesLeave(f, c, a)
    <2> HIDE DEF S, step
    <2>1. a = [n \in 0 .. c |-> IF n = 0 THEN f ELSE LeaveToken(a[n - 1], n - 1)]
      BY <1>6, <1>7
    <2> QED BY <2>1, Zenon DEF DoesLeave
  <1> DEFINE d == CHOOSE done : DoesLeave(f, Cardinality(Tokens(hyp)), done)
  <1>9. DoesLeave(f, Cardinality(Tokens(hyp)), d)
    BY <1>1, <1>8, Zenon
  <1>10. Unaligned(f) = d[Cardinality(Tokens(hyp))]
    BY Zenon DEF Unaligned, DoesLeave
  <1>11. PICK done : done = d
    OBVIOUS
  <1>12. DoesLeave(f, c, done) /\ Unaligned(f) = done[c]
    BY <1>1, <1>9, <1>10, <1>11, Zenon
  <1> HIDE DEF d
  <1>13. \A n \in 0 .. c : done[n] = IF n = 0 THEN f ELSE LeaveToken(done[n - 1], n - 1)
    BY <1>12, Zenon DEF DoesLeave
  <1>14. done[0] = f /\ \A n \in 1 .. c : done[n] = LeaveToken(done[n - 1], n - 1)
    <2>1. 0 \in 0 .. c /\ \A n \in 1 .. c : n \in 0 .. c /\ n # 0
      BY <1>1
    <2> QED BY <1>13, <2>1
  <1>15. \A n \in 0 .. c : done[n] \in S
    <2> DEFINE T == {n \in 0 .. c : done[n] \in S}
    <2>1. 0 \in T
      BY <1>1, <1>3, <1>14
    <2>2. ASSUME NEW n \in 1 .. c, n - 1 \in T PROVE n \in T
      <3>1. done[n - 1] \in S /\ n \in 0 .. c
        BY <1>1, <2>2
      <3>2. done[n] \in S
        <4> HIDE DEF S
        <4> QED BY <3>1, <1>4, <1>14
      <3> QED BY <3>1, <3>2
    <2>3. 0 .. c \subseteq T
      <3> HIDE DEF T
      <3> QED BY <1>1, <2>1, <2>2, IntervalInduction
    <2> QED BY <2>3
  <1>16. done \in [0 .. c -> S]
    <2>1. done = [n \in 0 .. c |-> done[n]]
      BY <1>12, Zenon DEF DoesLeave
    <2> HIDE DEF S
    <2> QED BY <1>15, <2>1
  <1> QED BY <1>1, <1>12, <1>14, <1>16, Zenon

LEMMA UnalignedFinds ==
  ASSUME pair \in Pairs, NEW f, IsFound(f)
  PROVE  LeavesAsFound(f, Unaligned(f)) /\ HasAlignment(Unaligned(f)) = Keyphrases(hyp)
  <1>1. PICK c \in Nat : c = Cardinality(Tokens(hyp))
    BY PairTrees DEF IsTree
  <1>2. Tokens(hyp) = 0 .. c - 1
    BY <1>1, PairTrees DEF IsTree
  <1>3. PICK done \in [0 .. c -> {e \in Founds : IsFound(e)}] :
          /\ done[0] = f
          /\ \A n \in 1 .. c : done[n] = LeaveToken(done[n - 1], n - 1)
          /\ Unaligned(f) = done[c]
    BY <1>1, LeaveUnfolds
  <1> DEFINE T == {n \in 0 .. c : LeavesAsFound(f, done[n])
                     /\ \A h \in 0 .. n - 1 : h \in Keyphrases(hyp) => h \in done[n].hyp}
  <1>4. 0 \in T
    <2>1. LeavesAsFound(f, f)
      BY DEF LeavesAsFound
    <2>2. 0 \in 0 .. c /\ 0 .. 0 - 1 = {}
      BY <1>1
    <2> QED BY <1>3, <2>1, <2>2
  <1>5. ASSUME NEW n \in 1 .. c, n - 1 \in T PROVE n \in T
    <2>1. PICK h \in Tokens(hyp) : h = n - 1
      <3>1. n - 1 \in 0 .. c - 1
        BY <1>1
      <3> QED BY <1>2, <3>1
    <2>2. PICK g : g = done[h]
      OBVIOUS
    <2>3. LeavesAsFound(f, g) /\ \A i \in 0 .. h - 1 : i \in Keyphrases(hyp) => i \in g.hyp
      BY <1>5, <2>1, <2>2
    <2>4. done[n] = LeaveToken(g, h)
      BY <1>3, <2>1, <2>2
    <2>5. IsFound(g)
      BY <2>3 DEF LeavesAsFound
    <2> HIDE DEF T
    <2>6. PICK m : m = done[n]
      OBVIOUS
    <2>7. LeavesAsFound(g, m) /\ (h \in Keyphrases(hyp) => h \in m.hyp)
      BY <2>4, <2>5, <2>6, LeaveTokenKeeps
    <2>8. LeavesAsFound(f, m)
      BY <2>3, <2>7 DEF LeavesAsFound
    <2>9. ASSUME NEW i \in 0 .. n - 1, i \in Keyphrases(hyp) PROVE i \in m.hyp
      <3>1. CASE i = h
        BY <2>7, <2>9, <3>1
      <3>2. CASE i # h
        <4>1. i \in 0 .. h - 1
          BY <1>1, <2>1, <3>2
        <4> QED BY <2>3, <2>7, <2>9, <4>1 DEF LeavesAsFound
      <3> QED BY <3>1, <3>2
    <2>10. n \in 0 .. c
      BY <1>1
    <2> QED BY <2>6, <2>8, <2>9, <2>10 DEF T
  <1>6. 0 .. c \subseteq T
    <2> HIDE DEF T
    <2> QED BY <1>1, <1>4, <1>5, IntervalInduction
  <1>7. c \in T
    BY <1>1, <1>6
  <1>8. LeavesAsFound(f, done[c])
        /\ \A h \in 0 .. c - 1 : h \in Keyphrases(hyp) => h \in done[c].hyp
    BY <1>7
  <1> HIDE DEF T
  <1>9. HasAlignment(done[c]) = Keyphrases(hyp)
    BY <1>2, <1>8 DEF HasAlignment, Keyphrases
  <1> QED BY <1>3, <1>8, <1>9

-------------------------------------------------------------------------------
(* The counts.  Here pass 4 is done, and words were left over on both      *)
(* sides only if there were two or more on each.                           *)
IsDone(f, n) ==
  /\ IsFound(f) /\ HasAlignment(f) = Keyphrases(hyp) /\ \A w : IsBest(f, w)
  /\ n = Cardinality(OpenPrem(f))
  /\ Keyphrases(hyp) \ Partners(f) # {} /\ OpenPrem(f) # {} =>
       Cardinality(Keyphrases(hyp) \ Partners(f)) > 1 /\ Cardinality(OpenPrem(f)) > 1

AllDone == pair \in Pairs /\ IsDone(found, unaligned)

(* Alignments with a target are those of the tokens that have a partner.   *)
LEMMA TargetsArePartners ==
  ASSUME AllDone
  PROVE  /\ \A a \in Targets : a.index \in Partners(found) /\ a.target = prem.word[found.of[a.index]]
         /\ \A a, b \in Targets : a.index = b.index => a = b
         /\ \A h \in Partners(found) : \E a \in Targets : a.index = h
  <1>1. PICK s \in Seq(Instances) : s = found.alignments
    BY FoundFields DEF IsFound, AllDone, IsDone
  <1>2. /\ \A k \in DOMAIN s : /\ s[k].index \in HasAlignment(found)
                               /\ s[k].target = TargetOf(found, s[k].index)
        /\ \A k, l \in DOMAIN s : s[k].index = s[l].index => k = l
        /\ \A h \in HasAlignment(found) : \E k \in DOMAIN s : s[k].index = h
    BY <1>1 DEF AllDone, IsDone, IsFound, IsRecorded
  <1>3. Targets = {a \in Range(s) : a.target # NoTarget}
    BY <1>1 DEF Targets
  <1>4. \A a \in Targets : \E k \in DOMAIN s : a = s[k] /\ a.target # NoTarget
    BY <1>3 DEF Range
  <1>5. \A k \in DOMAIN s : s[k].target # NoTarget => s[k] \in Targets
    BY <1>3 DEF Range
  <1>6. ASSUME NEW a \in Targets
        PROVE  a.index \in Partners(found) /\ a.target = prem.word[found.of[a.index]]
    BY <1>2, <1>4 DEF TargetOf
  <1>7. ASSUME NEW a \in Targets, NEW b \in Targets, a.index = b.index PROVE a = b
    BY <1>2, <1>4, <1>7
  <1>8. ASSUME NEW h \in Partners(found) PROVE \E a \in Targets : a.index = h
    <2>1. h \in HasAlignment(found) /\ found.of[h] \in IsUsed(found)
      BY DEF AllDone, IsDone, IsFound, IsPairing
    <2>2. PICK k \in DOMAIN s : s[k].index = h
      BY <1>2, <2>1
    <2>3. s[k].target = prem.word[found.of[h]]
      BY <1>2, <2>2 DEF TargetOf
    <2>4. found.of[h] \in Tokens(prem)
      BY <2>1 DEF IsUsed, Keyphrases
    <2>5. s[k].target # NoTarget
      BY <2>3, <2>4, PairTrees DEF IsTree, AllDone, IsDone
    <2> QED BY <1>5, <2>2, <2>5
  <1> QED BY <1>6, <1>7, <1>8

LEMMA FoundSizes ==
  ASSUME AllDone
  PROVE  /\ IsFiniteSet(Keyphrases(hyp)) /\ IsFiniteSet(Keyphrases(prem))
         /\ IsFiniteSet(Partners(found)) /\ Partners(found) \subseteq Keyphrases(hyp)
         /\ \A h \in Partners(found) : found.of[h] \in Keyphrases(prem) \cap found.prem
         /\ Cardinality(Targets) = Cardinality(Partners(found))
         /\ Cardinality(IsUsed(found)) = Cardinality(Partners(found))
         /\ Len(found.alignments) = Cardinality(Keyphrases(hyp))
  <1>1. IsFiniteSet(Keyphrases(hyp)) /\ IsFiniteSet(Keyphrases(prem))
    BY PairTrees, KeyphrasesFinite DEF AllDone, IsDone
  <1>2. /\ Partners(found) \subseteq Keyphrases(hyp)
        /\ \A h \in Partners(found) : found.of[h] \in IsUsed(found)
        /\ \A h, i \in Partners(found) : found.of[h] = found.of[i] => h = i
        /\ \A p \in IsUsed(found) : \E h \in Partners(found) : found.of[h] = p
    BY DEF AllDone, IsDone, IsFound, IsPairing
  <1>3. IsFiniteSet(Partners(found))
    BY <1>1, <1>2, FS_Subset
  <1>4. IsUsed(found) \in SUBSET Keyphrases(prem) /\ IsUsed(found) = Keyphrases(prem) \cap found.prem
    BY DEF IsUsed
  <1>5. Cardinality(Targets) = Cardinality(Partners(found))
    <2>1. PICK g : g = [a \in Targets |-> a.index]
      OBVIOUS
    <2>2. PICK S, T : S = Targets /\ T = Partners(found)
      OBVIOUS
    <2>3. /\ g \in [S -> T] /\ \A a, b \in S : g[a] = g[b] => a = b
          /\ \A h \in T : \E a \in S : g[a] = h
      <3>1. \A a \in S : g[a] = a.index
        BY <2>1, <2>2
      <3> QED BY <3>1, <2>1, <2>2, TargetsArePartners
    <2> QED BY <1>3, <2>2, <2>3, SmallerSet
  <1>6. Cardinality(IsUsed(found)) = Cardinality(Partners(found))
    <2>1. PICK S, T : S = Partners(found) /\ T = IsUsed(found)
      OBVIOUS
    <2>2. PICK g : g = [h \in S |-> found.of[h]]
      OBVIOUS
    <2>3. /\ g \in [S -> T] /\ \A a, b \in S : g[a] = g[b] => a = b
          /\ \A p \in T : \E h \in S : g[h] = p
      BY <1>2, <2>1, <2>2
    <2>4. IsFiniteSet(T)
      BY <1>1, <1>4, <2>1, FS_Subset
    <2> QED BY <2>1, <2>3, <2>4, SmallerSet
  <1>7. Len(found.alignments) = Cardinality(Keyphrases(hyp))
    <2>1. PICK s \in Seq(Instances) : s = found.alignments
      BY FoundFields DEF IsFound, AllDone, IsDone
    <2>2. PICK n \in Nat : n = Len(s)
      OBVIOUS
    <2>3. DOMAIN s = 1 .. n
      BY <2>2
    <2>4. /\ \A k \in 1 .. n : s[k].index \in Keyphrases(hyp)
          /\ \A k, l \in 1 .. n : s[k].index = s[l].index => k = l
          /\ \A h \in Keyphrases(hyp) : \E k \in 1 .. n : s[k].index = h
      BY <2>1, <2>3 DEF AllDone, IsDone, IsFound, IsRecorded
    <2>5. PICK S, T : S = 1 .. n /\ T = Keyphrases(hyp)
      OBVIOUS
    <2>6. PICK g : g = [k \in S |-> s[k].index]
      OBVIOUS
    <2>7. /\ g \in [S -> T] /\ \A k, l \in S : g[k] = g[l] => k = l
          /\ \A h \in T : \E k \in S : g[k] = h
      BY <2>4, <2>5, <2>6
    <2>8. Cardinality(S) = Cardinality(T)
      BY <1>1, <2>5, <2>7, SmallerSet
    <2>9. Cardinality(1 .. n) = n
      <3>1. Cardinality(1 .. n) = IF 1 > n THEN 0 ELSE n - 1 + 1
        BY FS_Interval
      <3> QED BY <3>1, <2>2
    <2> QED BY <2>1, <2>2, <2>5, <2>8, <2>9
  <1> QED BY <1>1, <1>2, <1>3, <1>4, <1>5, <1>6, <1>7

LEMMA RestSize ==
  ASSUME NEW S, IsFiniteSet(S), NEW T \in SUBSET S
  PROVE  /\ Cardinality(S \ T) = Cardinality(S) - Cardinality(T)
         /\ IsFiniteSet(S \ T) /\ Cardinality(S \ T) \in Nat
         /\ Cardinality(S) \in Nat /\ Cardinality(T) \in Nat
         /\ Cardinality(S \ T) > 0 => S \ T # {}
  <1>1. S \cap T = T
    OBVIOUS
  <1>2. IsFiniteSet(S \ T) /\ IsFiniteSet(T)
    BY FS_Subset
  <1>3. Cardinality(S \ T) = Cardinality(S) - Cardinality(S \cap T)
    BY <1>2, FS_Difference
  <1>4. Cardinality(S \ T) \in Nat /\ Cardinality(S) \in Nat /\ Cardinality(T) \in Nat
    BY <1>2, FS_CardinalityType
  <1>5. Cardinality({}) = 0
    BY FS_EmptySet
  <1> QED BY <1>1, <1>2, <1>3, <1>4, <1>5

LEMMA CountsOnce == AllDone => EachAlignedOnce
  <1> SUFFICES ASSUME AllDone PROVE EachAlignedOnce
    OBVIOUS
  <1>1. PICK s \in Seq(Instances) : s = found.alignments
    BY FoundFields DEF IsFound, AllDone, IsDone
  <1>2. /\ \A k \in DOMAIN s : s[k].index \in Keyphrases(hyp)
        /\ \A k, l \in DOMAIN s : s[k].index = s[l].index => k = l
        /\ \A h \in Keyphrases(hyp) : \E k \in DOMAIN s : s[k].index = h
    BY <1>1 DEF AllDone, IsDone, IsFound, IsRecorded
  <1>3. IsInjective([k \in DOMAIN found.alignments |-> found.alignments[k].index])
    BY <1>1, <1>2 DEF IsInjective
  <1>4. {a.index : a \in Range(found.alignments)} = Keyphrases(hyp)
    BY <1>1, <1>2 DEF Range
  <1>5. ASSUME NEW w PROVE TimesTarget(w) <= Times(prem, w)
    <2>1. PICK S, T : S = {a \in Targets : a.target = w} /\ T = {i \in Keyphrases(prem) : prem.word[i] = w}
      OBVIOUS
    <2>2. PICK g : g = [a \in S |-> found.of[a.index]]
      OBVIOUS
    <2>3. ASSUME NEW a \in S
          PROVE  /\ a \in Targets /\ a.index \in Partners(found)
                 /\ found.of[a.index] \in T
      <3>1. a \in Targets /\ a.target = w
        BY <2>1
      <3>2. a.index \in Partners(found) /\ prem.word[found.of[a.index]] = w
        BY <3>1, TargetsArePartners
      <3>3. found.of[a.index] \in Keyphrases(prem)
        BY <3>2, FoundSizes
      <3> QED BY <2>1, <3>1, <3>2, <3>3
    <2>4. g \in [S -> T]
      BY <2>2, <2>3
    <2>5. ASSUME NEW a \in S, NEW b \in S, g[a] = g[b] PROVE a = b
      <3>1. found.of[a.index] = found.of[b.index]
        BY <2>2, <2>5
      <3>2. a.index = b.index
        BY <2>3, <3>1 DEF AllDone, IsDone, IsFound, IsPairing
      <3> QED BY <2>3, <3>2, TargetsArePartners
    <2>6. IsFiniteSet(T)
      BY <2>1, FoundSizes, FS_Subset
    <2>7. Cardinality(S) <= Cardinality(T)
      BY <2>4, <2>5, <2>6, SmallerSet
    <2> QED BY <2>1, <2>7 DEF TimesTarget, Times
  <1>6. unaligned = Cardinality(Keyphrases(prem)) - Cardinality(Targets)
    <2>1. OpenPrem(found) = Keyphrases(prem) \ IsUsed(found)
      BY DEF OpenPrem, IsUsed
    <2>2. IsUsed(found) \in SUBSET Keyphrases(prem)
      BY DEF IsUsed
    <2>3. Cardinality(Keyphrases(prem) \ IsUsed(found))
            = Cardinality(Keyphrases(prem)) - Cardinality(IsUsed(found))
      BY <2>2, FoundSizes, RestSize
    <2> QED BY <2>1, <2>3, FoundSizes DEF AllDone, IsDone
  <1> QED BY <1>3, <1>4, <1>5, <1>6 DEF EachAlignedOnce

LEMMA CountsBest == AllDone => BestFirst
  <1> SUFFICES ASSUME AllDone PROVE BestFirst
    OBVIOUS
  <1>1. ASSUME NEW w
        PROVE  Cardinality({a \in Targets : a.target = w /\ hyp.word[a.index] = w})
                 = IF Times(hyp, w) < Times(prem, w) THEN Times(hyp, w) ELSE Times(prem, w)
    <2>1. PICK S, T : S = {a \in Targets : a.target = w /\ hyp.word[a.index] = w} /\ T = Same(found, w)
      OBVIOUS
    <2>2. PICK A, B : A = WithWord(hyp, w) /\ B = WithWord(prem, w)
      OBVIOUS
    <2>3. IsFiniteSet(A) /\ IsFiniteSet(B) /\ Cardinality(A) \in Nat /\ Cardinality(B) \in Nat
      <3>1. A \subseteq Keyphrases(hyp) /\ B \subseteq Keyphrases(prem)
        BY <2>2 DEF WithWord
      <3> QED BY <3>1, FoundSizes, FS_Subset, FS_CardinalityType
    <2>4. T \subseteq A
      BY <2>1, <2>2, FoundSizes DEF Same, WithWord
    <2>5. IsFiniteSet(T) /\ Cardinality(T) \in Nat /\ Cardinality(T) <= Cardinality(A)
      BY <2>3, <2>4, FS_Subset, FS_CardinalityType
    <2>6. Cardinality(S) = Cardinality(T)
      <3>1. PICK g : g = [a \in S |-> a.index]
        OBVIOUS
      <3>2. \A a \in S : a.index \in T
        BY <2>1, TargetsArePartners DEF Same
      <3>3. \A a, b \in S : a.index = b.index => a = b
        BY <2>1, TargetsArePartners
      <3>4. ASSUME NEW h \in T PROVE \E a \in S : a.index = h
        <4>1. h \in Partners(found) /\ hyp.word[h] = w /\ prem.word[found.of[h]] = w
          BY <2>1 DEF Same
        <4>2. PICK a \in Targets : a.index = h
          BY <4>1, TargetsArePartners
        <4>3. a.target = w
          BY <4>1, <4>2, TargetsArePartners
        <4> QED BY <2>1, <4>1, <4>2, <4>3
      <3>5. g \in [S -> T] /\ \A a \in S : g[a] = a.index
        BY <3>1, <3>2
      <3>6. /\ \A a, b \in S : g[a] = g[b] => a = b
            /\ \A h \in T : \E a \in S : g[a] = h
        BY <3>3, <3>4, <3>5
      <3> QED BY <2>5, <3>5, <3>6, SmallerSet
    <2>7. PICK g : g = [h \in T |-> found.of[h]]
      OBVIOUS
    <2>8. /\ g \in [T -> B] /\ \A h, i \in T : g[h] = g[i] => h = i
      <3>1. \A h \in T : found.of[h] \in B /\ h \in Partners(found)
        BY <2>1, <2>2, FoundSizes DEF Same, WithWord
      <3> QED BY <2>7, <3>1 DEF AllDone, IsDone, IsFound, IsPairing
    <2>9. Cardinality(T) <= Cardinality(B)
      BY <2>3, <2>8, SmallerSet
    <2>10. A \subseteq T \/ \A p \in B : \E h \in T : g[h] = p
      BY <2>1, <2>2, <2>7 DEF AllDone, IsDone, IsBest
    <2>11. Cardinality(T) = Cardinality(A) \/ Cardinality(T) = Cardinality(B)
      <3>1. CASE A \subseteq T
        BY <2>4, <3>1
      <3>2. CASE \A p \in B : \E h \in T : g[h] = p
        BY <2>3, <2>8, <3>2, SmallerSet
      <3> QED BY <2>10, <3>1, <3>2
    <2>12. Cardinality(T) = IF Cardinality(A) < Cardinality(B) THEN Cardinality(A) ELSE Cardinality(B)
      <3>1. PICK a \in Nat, b \in Nat, t \in Nat :
              a = Cardinality(A) /\ b = Cardinality(B) /\ t = Cardinality(T)
        BY <2>3, <2>5
      <3>2. t <= a /\ t <= b /\ (t = a \/ t = b)
        BY <2>5, <2>9, <2>11, <3>1
      <3> QED BY <3>1, <3>2
    <2> QED BY <2>1, <2>2, <2>6, <2>12 DEF Times, WithWord
  <1>2. PICK alone : alone = Len(found.alignments) - Cardinality(Targets)
    OBVIOUS
  <1>3. ASSUME alone > 0, unaligned > 0 PROVE alone > 1 /\ unaligned > 1
    <2>1. alone = Cardinality(Keyphrases(hyp) \ Partners(found)) /\ (alone > 0 => Keyphrases(hyp) \ Partners(found) # {})
      BY <1>2, FoundSizes, RestSize
    <2>2. Cardinality({}) = 0
      BY FS_EmptySet
    <2>3. OpenPrem(found) # {}
      BY <1>3, <2>2 DEF AllDone, IsDone
    <2> QED BY <1>3, <2>1, <2>3 DEF AllDone, IsDone
  <1> QED BY <1>1, <1>2, <1>3 DEF BestFirst

-------------------------------------------------------------------------------
(* The score follows the words                                             *)
LEMMA WordsOfTree == pair \in Pairs => hyp.word = [i \in Tokens(hyp) |-> hyp.word[i]]
  <1> SUFFICES ASSUME pair \in Pairs PROVE hyp.word = [i \in Tokens(hyp) |-> hyp.word[i]]
    OBVIOUS
  <1>1. PICK n : n = Cardinality(Tokens(hyp))
    OBVIOUS
  <1>2. hyp.word \in [0 .. n - 1 -> Nat]
    BY <1>1, PairsAssumption DEF hyp
  <1> QED BY <1>2 DEF Tokens

(* The alignments that these words match, and those that have no target.   *)
MatchedAt(s, word, marks, truth) ==
  {k \in DOMAIN s : Matched(s[k], word[s[k].index], PolarityAt(hyp, marks, s[k].index), truth)}

NoneAt(s) == {k \in DOMAIN s : s[k].target = INVALID_WORD}

IsWords(word) ==
  /\ word = [j \in Tokens(hyp) |-> word[j]]
  /\ \A j \in Tokens(hyp) : word[j] # INVALID_WORD

LEMMA IndexIsToken ==
  \A s \in Seq(Instances) : \A k \in DOMAIN s : s[k].index \in Tokens(hyp)
  <1> SUFFICES ASSUME NEW s \in Seq(Instances), NEW k \in DOMAIN s PROVE s[k].index \in Tokens(hyp)
    OBVIOUS
  <1>1. s[k] \in Instances
    OBVIOUS
  <1> QED BY <1>1 DEF Instances

LEMMA ScoreIs ==
  ASSUME NEW s \in Seq(Instances), NEW n, NEW word, IsWords(word), NEW marks, NEW truth,
         NEW e, e = MatchedAt(s, word, marks, truth)
  PROVE  /\ e \cap NoneAt(s) = {}
         /\ Score(hyp, s, n, word, marks, truth) =
              [aligned |-> Cardinality(e), alignable |-> Cardinality(DOMAIN s \ NoneAt(s)),
               inexact |-> Cardinality((DOMAIN s \ NoneAt(s)) \ e),
               unPremise |-> n, unConclusion |-> Cardinality(NoneAt(s))]
  <1> DEFINE deleted == {k \in DOMAIN s \ e : s[k].target = INVALID_WORD}
             inexact == DOMAIN s \ (e \cup deleted)
  <1>1. Score(hyp, s, n, word, marks, truth) =
          [aligned |-> Cardinality(e), alignable |-> Cardinality(e \cup inexact),
           inexact |-> Cardinality(inexact), unPremise |-> n, unConclusion |-> Cardinality(deleted)]
    BY Zenon DEF Score, MatchedAt
  <1>2. \A k \in DOMAIN s : s[k].index \in Tokens(hyp)
    BY IndexIsToken
  <1>3. \A k \in e : word[s[k].index] = s[k].target
    BY DEF MatchedAt, Matched
  <1>4. e \cap NoneAt(s) = {}
    BY <1>2, <1>3 DEF IsWords, NoneAt, MatchedAt
  <1>5. e \subseteq DOMAIN s
    BY DEF MatchedAt
  <1>6. deleted = NoneAt(s)
    BY <1>4 DEF NoneAt
  <1>7. inexact = (DOMAIN s \ NoneAt(s)) \ e /\ e \cup inexact = DOMAIN s \ NoneAt(s)
    BY <1>4, <1>5, <1>6
  <1> HIDE DEF deleted, inexact
  <1>8. Score(hyp, s, n, word, marks, truth) =
          [aligned |-> Cardinality(e), alignable |-> Cardinality(DOMAIN s \ NoneAt(s)),
           inexact |-> Cardinality((DOMAIN s \ NoneAt(s)) \ e),
           unPremise |-> n, unConclusion |-> Cardinality(NoneAt(s))]
    BY <1>1, <1>6, <1>7
  <1> QED BY <1>4, <1>8

Counts(a, alignable, b, premise, conclusion) ==
  [aligned |-> a, alignable |-> alignable, inexact |-> b,
   unPremise |-> premise, unConclusion |-> conclusion]

OneLess(score) == [score EXCEPT !.aligned = @ - 1, !.inexact = @ + 1]
OneMore(score) == [score EXCEPT !.aligned = @ + 1, !.inexact = @ - 1]

LEMMA CountsMove ==
  ASSUME NEW a, NEW b, NEW c, NEW n, NEW u
  PROVE  /\ OneLess(Counts(a, c, b, n, u)) = Counts(a - 1, c, b + 1, n, u)
         /\ OneMore(Counts(a, c, b, n, u)) = Counts(a + 1, c, b - 1, n, u)
  <1>1. \A x : [Counts(a, c, b, n, u) EXCEPT !.aligned = x] = Counts(x, c, b, n, u)
    BY DEF Counts
  <1>2. \A x, y : [Counts(x, c, b, n, u) EXCEPT !.inexact = y] = Counts(x, c, y, n, u)
    BY DEF Counts
  <1>3. Counts(a, c, b, n, u).aligned = a /\ Counts(a, c, b, n, u).inexact = b
    BY DEF Counts
  <1>4. PICK r : r = Counts(a, c, b, n, u)
    OBVIOUS
  <1>5. \A x, y : [r EXCEPT !.aligned = x, !.inexact = y] = [[r EXCEPT !.aligned = x] EXCEPT !.inexact = y]
    OBVIOUS
  <1>6. \A x, y : [r EXCEPT !.aligned = x, !.inexact = y] = Counts(x, c, y, n, u)
    BY <1>1, <1>2, <1>4, <1>5
  <1> QED BY <1>3, <1>4, <1>6 DEF OneLess, OneMore

IsOnce(s) == \A k, l \in DOMAIN s : s[k].index = s[l].index => k = l

IsMutated(word, i, w, next) == next = [word EXCEPT ![i] = w]

LEMMA ScoreFollows ==
  ASSUME NEW s \in Seq(Instances), IsOnce(s),
         NEW n, NEW word, IsWords(word), NEW marks, NEW truth,
         NEW i \in Tokens(hyp), NEW w, w # INVALID_WORD, NEW next, IsMutated(word, i, w, next),
         NEW score, score = Score(hyp, s, n, word, marks, truth)
  PROVE  /\ IsWords(next)
         /\ UpdateScore(score, s, i, word[i], w, PolarityAt(hyp, marks, i),
                        PolarityAt(hyp, marks, i), truth, truth)
              = Score(hyp, s, n, next, marks, truth)
  <1> DEFINE was(k) == Matched(s[k], word[s[k].index], PolarityAt(hyp, marks, s[k].index), truth)
             is(k)  == Matched(s[k], next[s[k].index], PolarityAt(hyp, marks, s[k].index), truth)
  <1>1. IsWords(next) /\ next[i] = w /\ \A j \in Tokens(hyp) : j # i => next[j] = word[j]
    BY DEF IsWords, IsMutated
  <1>2. PICK e, f, none, D : /\ e = MatchedAt(s, word, marks, truth)
                             /\ f = MatchedAt(s, next, marks, truth)
                             /\ none = NoneAt(s) /\ D = DOMAIN s
    OBVIOUS
  <1>3. /\ e \cap none = {} /\ f \cap none = {}
        /\ score = [aligned |-> Cardinality(e), alignable |-> Cardinality(D \ none),
                    inexact |-> Cardinality((D \ none) \ e),
                    unPremise |-> n, unConclusion |-> Cardinality(none)]
        /\ Score(hyp, s, n, next, marks, truth)
             = [aligned |-> Cardinality(f), alignable |-> Cardinality(D \ none),
                inexact |-> Cardinality((D \ none) \ f),
                unPremise |-> n, unConclusion |-> Cardinality(none)]
    <2>1. /\ e \cap NoneAt(s) = {}
          /\ Score(hyp, s, n, word, marks, truth) =
               [aligned |-> Cardinality(e), alignable |-> Cardinality(DOMAIN s \ NoneAt(s)),
                inexact |-> Cardinality((DOMAIN s \ NoneAt(s)) \ e),
                unPremise |-> n, unConclusion |-> Cardinality(NoneAt(s))]
      BY <1>2, ScoreIs
    <2>2. /\ f \cap NoneAt(s) = {}
          /\ Score(hyp, s, n, next, marks, truth) =
               [aligned |-> Cardinality(f), alignable |-> Cardinality(DOMAIN s \ NoneAt(s)),
                inexact |-> Cardinality((DOMAIN s \ NoneAt(s)) \ f),
                unPremise |-> n, unConclusion |-> Cardinality(NoneAt(s))]
      <3>1. PICK v : v = next
        OBVIOUS
      <3>2. IsWords(v) /\ f = MatchedAt(s, v, marks, truth)
        BY <1>1, <1>2, <3>1
      <3>3. /\ f \cap NoneAt(s) = {}
            /\ Score(hyp, s, n, v, marks, truth) =
                 [aligned |-> Cardinality(f), alignable |-> Cardinality(DOMAIN s \ NoneAt(s)),
                  inexact |-> Cardinality((DOMAIN s \ NoneAt(s)) \ f),
                  unPremise |-> n, unConclusion |-> Cardinality(NoneAt(s))]
        BY <3>2, ScoreIs
      <3> QED BY <3>1, <3>3
    <2> QED BY <1>2, <2>1, <2>2
  <1>4. /\ \A k : k \in e <=> k \in D /\ was(k)
        /\ \A k : k \in f <=> k \in D /\ is(k)
    BY <1>2 DEF MatchedAt
  <1>5. \A k \in D : s[k].index \in Tokens(hyp)
    BY <1>2, IndexIsToken
  <1>6. ASSUME NEW k \in D, s[k].index # i PROVE k \in e <=> k \in f
    <2>1. next[s[k].index] = word[s[k].index]
      BY <1>1, <1>5, <1>6
    <2> QED BY <1>4, <2>1
  <1> DEFINE mine     == {a \in Range(s) : a.index = i}
             before(a) == Matched(a, word[i], PolarityAt(hyp, marks, i), truth)
             after(a) == Matched(a, w, PolarityAt(hyp, marks, i), truth)
             isLost   == \E a \in mine : before(a) /\ ~after(a)
             isGained == \E a \in mine : ~before(a) /\ after(a)
             update   == UpdateScore(score, s, i, word[i], w, PolarityAt(hyp, marks, i),
                                     PolarityAt(hyp, marks, i), truth, truth)
  <1>7. update = IF isLost THEN OneLess(score)
                 ELSE IF isGained THEN OneMore(score)
                 ELSE score
    <2>1. w # INVALID_WORD
      OBVIOUS
    <2> QED BY <2>1, Zenon DEF UpdateScore, OneLess, OneMore
  <1>8. IsFiniteSet(D)
    <2>1. PICK len \in Nat : len = Len(s)
      OBVIOUS
    <2>2. D = 1 .. len
      BY <1>2, <2>1
    <2> QED BY <2>2, FS_Interval
  <1>9. e \subseteq D /\ f \subseteq D
    BY <1>4
  <1>10. CASE \E k \in D : s[k].index = i
    <2>1. PICK k \in D : s[k].index = i
      BY <1>10
    <2>2. mine = {s[k]}
      BY <1>2, <2>1 DEF Range, IsOnce
    <2>3. (k \in e <=> before(s[k])) /\ (k \in f <=> after(s[k]))
      BY <1>1, <1>4, <2>1
    <2>4. (isLost <=> k \in e \ f) /\ (isGained <=> k \in f \ e)
      BY <2>2, <2>3
    <2>5. \A l \in D : l # k => (l \in e <=> l \in f)
      BY <1>2, <1>6, <2>1 DEF IsOnce
    <2> HIDE DEF mine, before, after, isLost, isGained, update, was, is
    <2>6. PICK A, B : A = (D \ none) \ e /\ B = (D \ none) \ f
      OBVIOUS
    <2>12. PICK c, u : c = Cardinality(D \ none) /\ u = Cardinality(none)
      OBVIOUS
    <2>13. /\ score = Counts(Cardinality(e), c, Cardinality(A), n, u)
           /\ Score(hyp, s, n, next, marks, truth) = Counts(Cardinality(f), c, Cardinality(B), n, u)
      BY <1>3, <2>6, <2>12 DEF Counts
    <2>7. IsFiniteSet(e) /\ IsFiniteSet(f) /\ IsFiniteSet(A) /\ IsFiniteSet(B)
      BY <1>8, <1>9, <2>6, FS_Subset
    <2>8. /\ Cardinality(e) \in Nat /\ Cardinality(f) \in Nat
          /\ Cardinality(A) \in Nat /\ Cardinality(B) \in Nat
      BY <2>7, FS_CardinalityType
    <2>9. CASE k \in e \ f
      <3>1. f = e \ {k} /\ B = A \cup {k} /\ k \notin A
        BY <1>3, <1>9, <2>1, <2>5, <2>6, <2>9
      <3>2. Cardinality(f) = Cardinality(e) - 1
        BY <2>7, <2>9, <3>1, FS_RemoveElement
      <3>3. Cardinality(B) = Cardinality(A) + 1
        BY <2>7, <3>1, FS_AddElement
      <3>4. update = OneLess(score)
        BY <1>7, <2>4, <2>9
      <3>5. update = Score(hyp, s, n, next, marks, truth)
        BY <2>13, <3>2, <3>3, <3>4, CountsMove
      <3> QED BY <1>1, <3>5 DEF update
    <2>10. CASE k \in f \ e
      <3>1. f = e \cup {k} /\ B = A \ {k} /\ k \in A
        BY <1>3, <1>9, <2>1, <2>5, <2>6, <2>10
      <3>2. Cardinality(f) = Cardinality(e) + 1
        BY <2>7, <2>10, <3>1, FS_AddElement
      <3>3. Cardinality(B) = Cardinality(A) - 1
        BY <2>7, <3>1, FS_RemoveElement
      <3>4. update = OneMore(score)
        BY <1>7, <2>4, <2>10
      <3>5. update = Score(hyp, s, n, next, marks, truth)
        BY <2>13, <3>2, <3>3, <3>4, CountsMove
      <3> QED BY <1>1, <3>5 DEF update
    <2>11. CASE k \in e <=> k \in f
      <3>1. \A l \in D : l \in e <=> l \in f
        BY <2>5, <2>11
      <3>3. e = f
        BY <1>9, <3>1
      <3>2. update = score
        BY <1>7, <2>4, <2>11
      <3> QED BY <1>3, <3>3, <3>2, <1>1 DEF update
    <2> QED BY <2>9, <2>10, <2>11
  <1>11. CASE ~ \E k \in D : s[k].index = i
    <2>1. mine = {}
      BY <1>2, <1>11 DEF Range
    <2>2. ~isLost /\ ~isGained
      BY <2>1
    <2>3. e = f
      BY <1>6, <1>9, <1>11
    <2> HIDE DEF mine, before, after, isLost, isGained, update, was, is
    <2>4. update = score
      BY <1>7, <2>2
    <2> QED BY <1>3, <2>3, <2>4, <1>1 DEF update
  <1> QED BY <1>10, <1>11

-------------------------------------------------------------------------------
(* The invariant                                                           *)
SoFar(k, f) ==
  /\ IsFound(f) /\ AllPaired(f)
  /\ k <= 3 => IsExact(f)
  /\ k >= 3 => \A w : IsBest(f, w)

IsScored(f, n, c) ==
  /\ c.plain \in BOOLEAN
  /\ c.plain => /\ IsWords(c.word)
                /\ c.score = Score(hyp, f.alignments, n, c.word, c.marks, c.truth)

AlignInv ==
  /\ pair \in Pairs /\ pass \in 0 .. 11
  /\ pass < 11 => SoFar(pass, found)
  /\ pass = 11 => IsDone(found, unaligned) /\ IsScored(found, unaligned, node)

LEMMA SamePair ==
  ASSUME pair' = pair
  PROVE  /\ SoFar(pass, found)' <=> SoFar(pass', found')
         /\ IsDone(found, unaligned)' <=> IsDone(found', unaligned')
         /\ IsScored(found, unaligned, node)' <=> IsScored(found', unaligned', node')
  <1>1. hyp' = hyp /\ prem' = prem
    BY DEF hyp, prem
  <1>2. IsFound(found)' <=> IsFound(found')
    BY <1>1 DEF IsFound, Founds, Instances, IsPairing, IsRecorded, Partners, HasAlignment,
                IsUsed, TargetOf
  <1>3. AllPaired(found)' <=> AllPaired(found')
    BY <1>1 DEF AllPaired, HasAlignment, Partners
  <1>4. IsExact(found)' <=> IsExact(found')
    BY <1>1 DEF IsExact, Partners
  <1>5. ASSUME NEW w PROVE IsBest(found, w)' <=> IsBest(found', w)
    BY <1>1 DEF IsBest, Same, Partners
  <1>6. SoFar(pass, found)' <=> SoFar(pass', found')
    BY <1>2, <1>3, <1>4, <1>5 DEF SoFar
  <1>7. IsDone(found, unaligned)' <=> IsDone(found', unaligned')
    BY <1>1, <1>2, <1>5 DEF IsDone, HasAlignment, OpenPrem, Partners
  <1>8. IsScored(found, unaligned, node)' <=> IsScored(found', unaligned', node')
    BY <1>1 DEF IsScored, IsWords
  <1> QED BY <1>6, <1>7, <1>8

LEMMA AlignStarts == AlignInit => AlignInv
  <1> SUFFICES ASSUME AlignInit PROVE AlignInv
    OBVIOUS
  <1>1. pair \in Pairs /\ pass = 0 /\ found = NoPairs
    BY DEF AlignInit
  <1>2. PICK f : f = found
    OBVIOUS
  <1>3. /\ f = [of |-> [h \in Tokens(hyp) |-> None], hyp |-> {}, prem |-> {}, alignments |-> <<>>]
        /\ f.of = [h \in Tokens(hyp) |-> None] /\ f.hyp = {} /\ f.prem = {} /\ f.alignments = <<>>
    BY <1>1, <1>2 DEF NoPairs, hyp
  <1>4. f \in Founds
    <2>1. <<>> \in Seq(Instances)
      OBVIOUS
    <2>2. [h \in Tokens(hyp) |-> None] \in [Tokens(hyp) -> {None} \cup Tokens(prem)]
      OBVIOUS
    <2> QED BY <1>3, <2>1, <2>2 DEF Founds
  <1>5. Partners(f) = {} /\ HasAlignment(f) = {} /\ IsUsed(f) = {}
    BY <1>3 DEF Partners, HasAlignment, IsUsed
  <1>6. IsFound(f)
    <2>1. PICK s \in Seq(Instances) : s = <<>> /\ f.alignments = s
      <3>1. <<>> \in Seq(Instances)
        OBVIOUS
      <3> QED BY <1>3, <3>1, Zenon
    <2>2. DOMAIN s = {}
      BY <2>1
    <2>3. IsPairing(f)
      BY <1>5 DEF IsPairing
    <2>4. IsRecorded(f)
      BY <1>5, <2>1, <2>2 DEF IsRecorded
    <2> QED BY <1>4, <2>3, <2>4 DEF IsFound
  <1>7. AllPaired(f) /\ IsExact(f)
    BY <1>5 DEF AllPaired, IsExact
  <1> QED BY <1>1, <1>2, <1>6, <1>7 DEF AlignInv, SoFar

LEMMA PassKeeps == AlignInv /\ Pass => AlignInv'
  <1> SUFFICES ASSUME AlignInv, Pass PROVE AlignInv'
    OBVIOUS
  <1>1. /\ pair \in Pairs /\ pass \in 0 .. 9 /\ SoFar(pass, found)
        /\ pair' = pair /\ pass' = pass + 1
    BY DEF AlignInv, Pass
  <1>2. PICK k : k = pass + 1
    OBVIOUS
  <1>3. PICK stray : found' = MatchPass(k, stray, found)
    BY <1>2 DEF Pass
  <1>4. PICK f : f = found
    OBVIOUS
  <1>5. PICK m : m = found'
    OBVIOUS
  <1>6. IsFound(f) /\ AllPaired(f) /\ (pass <= 3 => IsExact(f)) /\ (pass >= 3 => \A w : IsBest(f, w))
    BY <1>1, <1>4 DEF SoFar
  <1>7. Progress(k, f, m) /\ (k = 3 => \A h \in Tokens(hyp) : IsSettled(m, h))
    BY <1>1, <1>3, <1>4, <1>5, <1>6, MatchPassFinds
  <1>8. /\ IsFound(m) /\ Extends(f, m) /\ AllPaired(m)
        /\ k \in {1, 2, 3} /\ IsExact(f) => IsExact(m)
    BY <1>6, <1>7 DEF Progress
  <1>9. k <= 3 => IsExact(m)
    BY <1>1, <1>2, <1>6, <1>8
  <1>10. ASSUME k >= 3, NEW w PROVE IsBest(m, w)
    <2>1. CASE k = 3
      BY <1>7, <1>8, <1>9, <2>1, BestAfterExact
    <2>2. CASE k # 3
      <3>1. IsBest(f, w)
        BY <1>1, <1>2, <1>6, <1>10, <2>2
      <3> QED BY <3>1, <1>8, BestStays
    <2> QED BY <2>1, <2>2
  <1>11. SoFar(k, m)
    BY <1>8, <1>9, <1>10 DEF SoFar
  <1>12. SoFar(pass, found)'
    BY <1>1, <1>2, <1>5, <1>11, SamePair
  <1>13. pass' \in 1 .. 10 /\ pass' \in 0 .. 11 /\ pass' # 11
    BY <1>1
  <1>14. pair' \in Pairs
    BY <1>1
  <1> QED BY <1>12, <1>13, <1>14 DEF AlignInv

LEMMA FinishKeeps == AlignInv /\ Finish => AlignInv'
  <1> SUFFICES ASSUME AlignInv, Finish PROVE AlignInv'
    OBVIOUS
  <1>1. /\ pair \in Pairs /\ SoFar(10, found) /\ pair' = pair /\ pass' = 11
    BY DEF AlignInv, Finish
  <1>2. PICK f : f = Constrained(found)
    OBVIOUS
  <1>3. PICK g : g = Unaligned(f)
    OBVIOUS
  <1>4. PICK n : n = Cardinality(Keyphrases(prem) \ f.prem)
    OBVIOUS
  <1>5. PICK truth \in BOOLEAN : node' = StartNode(g.alignments, n, truth)
    BY <1>2, <1>3, <1>4 DEF Finish
  <1>6. found' = g /\ unaligned' = n
    BY <1>2, <1>3, <1>4 DEF Finish
  <1>7. IsFound(found) /\ AllPaired(found) /\ \A w : IsBest(found, w)
    BY <1>1 DEF SoFar
  <1>8. IsFound(f) /\ Extends(found, f) /\ AllPaired(f) /\ FewLeft(f)
    BY <1>1, <1>2, <1>7, ConstrainedFinds
  <1>9. \A w : IsBest(f, w)
    BY <1>7, <1>8, BestStays
  <1>10. /\ IsFound(g) /\ g.of = f.of /\ g.prem = f.prem
         /\ HasAlignment(g) = Keyphrases(hyp)
    BY <1>1, <1>3, <1>8, UnalignedFinds DEF LeavesAsFound
  <1>11. Partners(g) = Partners(f) /\ OpenPrem(g) = OpenPrem(f) /\ \A w : Same(g, w) = Same(f, w)
    BY <1>10 DEF Partners, OpenPrem, Same
  <1>12. \A w : IsBest(g, w)
    BY <1>9, <1>10, <1>11 DEF IsBest
  <1>13. Keyphrases(hyp) \ Partners(g) = OpenHyp(f)
    BY <1>8, <1>11 DEF IsFound, IsPairing, AllPaired, HasAlignment, OpenHyp
  <1>14. IsDone(g, n)
    BY <1>4, <1>8, <1>10, <1>11, <1>12, <1>13 DEF IsDone, FewLeft, OpenPrem
  <1>15. PICK c : c = StartNode(g.alignments, n, truth)
    OBVIOUS
  <1>16. IsScored(g, n, c)
    <2>1. IsWords(hyp.word)
      BY <1>1, WordsOfTree, PairTrees DEF IsWords, IsTree
    <2>2. /\ c.plain = TRUE /\ c.word = hyp.word /\ c.marks = Markings(hyp) /\ c.truth = truth
          /\ c.score = Score(hyp, g.alignments, n, hyp.word, Markings(hyp), truth)
      BY <1>15 DEF StartNode
    <2> QED BY <2>1, <2>2 DEF IsScored
  <1>17. IsDone(found, unaligned)' /\ IsScored(found, unaligned, node)'
    BY <1>1, <1>5, <1>6, <1>14, <1>15, <1>16, SamePair
  <1>18. pass' \in 0 .. 11 /\ ~(pass' < 11) /\ pair' \in Pairs
    BY <1>1
  <1> QED BY <1>17, <1>18 DEF AlignInv

(* A step of the search leaves the alignment alone.                        *)
LEMMA SearchKeeps ==
  ASSUME AlignInv, pass = 11, UNCHANGED <<pair, pass, found, unaligned>>,
         NEW c, node' = c, IsScored(found, unaligned, c)
  PROVE  AlignInv'
  <1>1. pair' = pair /\ pass' = pass /\ found' = found /\ unaligned' = unaligned
    OBVIOUS
  <1>2. IsDone(found, unaligned)' <=> IsDone(found, unaligned)
    BY <1>1, SamePair
  <1>3. IsScored(found, unaligned, node)' <=> IsScored(found, unaligned, c)
    BY <1>1, SamePair
  <1>4. IsDone(found, unaligned) /\ pair \in Pairs
    BY DEF AlignInv
  <1>5. pass' \in 0 .. 11 /\ ~(pass' < 11) /\ pair' \in Pairs
    BY <1>1, <1>4
  <1> QED BY <1>2, <1>3, <1>4, <1>5 DEF AlignInv

LEMMA MutateKeeps ==
  ASSUME AlignInv, NEW i \in Tokens(hyp), NEW w \in NewWords, NEW truth \in BOOLEAN,
         Mutate(i, w, truth)
  PROVE  AlignInv'
  <1>1. pass = 11
    BY DEF Mutate, Visit, Aligned
  <1>2. PICK plain \in BOOLEAN : plain <=> node.plain /\ truth = node.truth
    <2>1. (node.plain /\ truth = node.truth) \in BOOLEAN
      OBVIOUS
    <2> QED BY <2>1
  <1>3. PICK c : c = Child(i, [node.word EXCEPT ![i] = w], node.marks, node.deleted, truth, w,
                           node.plain /\ truth = node.truth)
    OBVIOUS
  <1>4. IsDone(found, unaligned) /\ IsScored(found, unaligned, node)
    BY <1>1 DEF AlignInv
  <1>5. PICK next : next = [node.word EXCEPT ![i] = w]
    OBVIOUS
  <1>6. /\ c.plain = (node.plain /\ truth = node.truth) /\ c.word = next
        /\ c.marks = node.marks /\ c.truth = truth
        /\ c.score = UpdateScore(node.score, found.alignments, i, node.word[i], w,
                       PolarityAt(hyp, node.marks, i), PolarityAt(hyp, node.marks, i), node.truth, truth)
    BY <1>3, <1>5, Zenon DEF Child
  <1>7. ASSUME c.plain PROVE IsWords(next) /\ c.score = Score(hyp, found.alignments, unaligned, next, node.marks, truth)
    <2>1. node.plain /\ truth = node.truth
      BY <1>6, <1>7
    <2>2. PICK s \in Seq(Instances) : s = found.alignments
      BY <1>4, FoundFields DEF IsDone, IsFound
    <2>3. IsOnce(s)
      BY <1>4, <2>2 DEF IsDone, IsFound, IsRecorded, IsOnce
    <2>4. PICK word, score, marks, n :
            word = node.word /\ score = node.score /\ marks = node.marks /\ n = unaligned
      OBVIOUS
    <2>5. IsWords(word) /\ score = Score(hyp, s, n, word, marks, truth)
      BY <1>4, <2>1, <2>2, <2>4 DEF IsScored
    <2>6. w # INVALID_WORD
      BY WordsAssumption
    <2>7. IsMutated(word, i, w, next)
      BY <1>5, <2>4 DEF IsMutated
    <2>8. /\ IsWords(next)
          /\ UpdateScore(score, s, i, word[i], w, PolarityAt(hyp, marks, i),
                         PolarityAt(hyp, marks, i), truth, truth)
               = Score(hyp, s, n, next, marks, truth)
      BY <2>3, <2>5, <2>6, <2>7, ScoreFollows
    <2> QED BY <1>6, <2>1, <2>2, <2>4, <2>8
  <1>8. IsScored(found, unaligned, c)
    BY <1>6, <1>7 DEF IsScored
  <1>9. node' = c /\ UNCHANGED <<pair, pass, found, unaligned>>
    BY <1>3 DEF Mutate
  <1> QED BY <1>1, <1>8, <1>9, SearchKeeps

LEMMA PlainEnds ==
  ASSUME AlignInv, pass = 11, UNCHANGED <<pair, pass, found, unaligned>>,
         NEW i, NEW word, NEW marks, NEW deleted, NEW truth, NEW new,
         node' = Child(i, word, marks, deleted, truth, new, FALSE)
  PROVE  AlignInv'
  <1>1. PICK c : c = Child(i, word, marks, deleted, truth, new, FALSE)
    OBVIOUS
  <1>2. c.plain = FALSE
    BY <1>1 DEF Child
  <1>3. IsScored(found, unaligned, c)
    BY <1>2 DEF IsScored
  <1> QED BY <1>1, <1>3, SearchKeeps

LEMMA AlignStays == AlignInv /\ UNCHANGED alignVars => AlignInv'
  <1> SUFFICES ASSUME AlignInv, UNCHANGED alignVars PROVE AlignInv'
    OBVIOUS
  <1>1. /\ pair' = pair /\ pass' = pass /\ found' = found /\ unaligned' = unaligned
        /\ node' = node
    BY DEF alignVars
  <1> QED BY <1>1, SamePair DEF AlignInv

LEMMA AlignInvariant == AlignSpec => []AlignInv
  <1>1. AlignInit => AlignInv
    BY AlignStarts
  <1>2. AlignInv /\ [AlignNext]_alignVars => AlignInv'
    <2> SUFFICES ASSUME AlignInv, [AlignNext]_alignVars PROVE AlignInv'
      OBVIOUS
    <2>1. CASE Pass
      BY <2>1, PassKeeps
    <2>2. CASE Finish
      BY <2>2, FinishKeeps
    <2>3. ASSUME NEW i \in Tokens(hyp), NEW w \in NewWords, NEW truth \in BOOLEAN, Mutate(i, w, truth)
          PROVE  AlignInv'
      BY <2>3, MutateKeeps
    <2>4. ASSUME NEW q \in Quantifiers(hyp), NEW w \in NewWords, NEW m \in NewMarks,
                 NEW truth \in BOOLEAN, MutateQuantifier(q, w, m, truth)
          PROVE  AlignInv'
      <3>1. PICK i : i = hyp.quantifiers[q].token
        OBVIOUS
      <3>2. /\ pass = 11 /\ UNCHANGED <<pair, pass, found, unaligned>>
            /\ node' = Child(i, [node.word EXCEPT ![i] = w], [node.marks EXCEPT ![q] = m],
                             node.deleted, truth, w, FALSE)
        BY <2>4, <3>1 DEF MutateQuantifier, Visit, Aligned
      <3> QED BY <3>2, PlainEnds
    <2>5. ASSUME NEW d \in Tokens(hyp), NEW truth \in BOOLEAN, Delete(d, truth)
          PROVE  AlignInv'
      <3>1. PICK i, marks :
              /\ pass = 11 /\ UNCHANGED <<pair, pass, found, unaligned>>
              /\ node' = Child(i, node.word, marks, node.deleted \cup DeleteMask(hyp, d), truth,
                               INVALID_WORD, FALSE)
        BY <2>5, Zenon DEF Delete, Visit, Aligned
      <3> QED BY <3>1, PlainEnds
    <2>6. CASE UNCHANGED alignVars
      BY <2>6, AlignStays
    <2> QED BY <2>1, <2>2, <2>3, <2>4, <2>5, <2>6 DEF AlignNext
  <1> QED BY <1>1, <1>2, PTL DEF AlignSpec

(* AlignmentRight: for every pair of trees and whatever the reads outside  *)
(* the array find, each keyphrase of the hypothesis ends up with one       *)
(* alignment, the best ones first, and what is left over is counted.       *)
THEOREM AlignmentIsRight == AlignSpec => []AlignmentRight
  <1>1. AlignInv => AlignmentRight
    <2>1. AlignInv /\ Aligned => AllDone
      BY DEF AlignInv, Aligned, AllDone
    <2> QED BY <2>1, CountsOnce, CountsBest DEF AlignmentRight
  <1> QED BY <1>1, AlignInvariant, PTL

(* ScoreTracksTree: as long as words are mutated under one truth value, a  *)
(* score that is kept up to date is the score of the tree that is reached. *)
THEOREM ScoreIsTracked == AlignSpec => []ScoreTracksTree
  <1>1. AlignInv => ScoreTracksTree
    BY DEF AlignInv, Aligned, ScoreTracksTree, IsScored
  <1> QED BY <1>1, AlignInvariant, PTL
===============================================================================
