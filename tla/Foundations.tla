------------------------------ MODULE Foundations ------------------------------
(***************************************************************************)
(* What the proofs share: induction over the naturals, stated of sets so   *)
(* that a set can be given for what is proved; the functions that recursion *)
(* defines; the elements of sequences; texts one after the other, what is  *)
(* left of them behind a place, and how reading a symbol moves it on.      *)
(***************************************************************************)
EXTENDS Integers, Sequences, Functions, WellFoundedInduction, SequenceTheorems, TLAPS

LEMMA LeastExists ==
  ASSUME NEW S \in SUBSET Nat, S # {} PROVE \E n \in S : \A m \in S : n <= m
  <1>1. PICK n \in S : \A m \in S : <<m, n>> \notin OpToRel(<, Nat)
    BY NatLessThanWellFounded, WFMin, Zenon
  <1>2. ASSUME NEW m \in S PROVE n <= m
    <2>1. m \in Nat /\ n \in Nat /\ <<m, n>> \notin OpToRel(<, Nat)
      BY <1>1
    <2>2. ASSUME m < n PROVE <<m, n>> \in OpToRel(<, Nat)
      BY <2>1, <2>2 DEF OpToRel
    <2>3. ~(m < n)
      BY <2>1, <2>2, Zenon
    <2>4. m \in Nat /\ n \in Nat
      BY <2>1, Zenon
    <2> HIDE <2>1
    <2> QED BY <2>3, <2>4
  <1> QED BY <1>2

(* A set of naturals that is not everything lacks a least one.             *)
LEMMA NatSetInduction ==
  ASSUME NEW S, 0 \in S, \A n \in Nat : n \in S => n + 1 \in S
  PROVE  Nat \subseteq S
  <1> DEFINE T == Nat \ S
  <1> SUFFICES ASSUME T # {} PROVE FALSE
    OBVIOUS
  <1>1. PICK n \in T : \A m \in T : n <= m
    <2>1. T \in SUBSET Nat
      OBVIOUS
    <2> HIDE DEF T
    <2> QED BY <2>1, LeastExists
  <1>2. n \in Nat /\ n # 0 /\ n - 1 \in Nat /\ ~(n <= n - 1) /\ n = (n - 1) + 1
    OBVIOUS
  <1> QED BY <1>1, <1>2

(* The same up to a bound.                                                 *)
LEMMA IntervalInduction ==
  ASSUME NEW n \in Nat, NEW S, 0 \in S, \A i \in 1 .. n : i - 1 \in S => i \in S
  PROVE  0 .. n \subseteq S
  <1> DEFINE T == {k \in Nat : k <= n => k \in S}
  <1>1. 0 \in T
    OBVIOUS
  <1>2. ASSUME NEW k \in Nat, k \in T PROVE k + 1 \in T
    <2> SUFFICES ASSUME k + 1 <= n PROVE k + 1 \in S
      OBVIOUS
    <2>1. k \in S /\ k + 1 \in 1 .. n /\ (k + 1) - 1 = k
      BY <1>2
    <2> QED BY <2>1
  <1>3. Nat \subseteq T
    <2> HIDE DEF T
    <2> QED BY <1>1, <1>2, NatSetInduction
  <1> QED BY <1>3

(* f is defined by recursion on 0 .. n: from base, by the step g.          *)
Unfolds(f, n, base, g) ==
  f = [i \in 0 .. n |-> IF i = 0 THEN base ELSE g[<<i, f[i - 1]>>]]

LEMMA RecursionExists ==
  ASSUME NEW n \in Nat, NEW S, NEW base \in S, NEW g \in [(1 .. n) \X S -> S]
  PROVE  \E f \in [0 .. n -> S] : Unfolds(f, n, base, g)
  <1> DEFINE T == {k \in Nat : k <= n => \E f \in [0 .. k -> S] : Unfolds(f, k, base, g)}
  <1>1. 0 \in T
    <2> DEFINE f == [i \in 0 .. 0 |-> base]
    <2>1. f \in [0 .. 0 -> S] /\ Unfolds(f, 0, base, g)
      BY DEF Unfolds
    <2> QED BY <2>1
  <1>2. ASSUME NEW k \in Nat, k \in T PROVE k + 1 \in T
    <2> SUFFICES ASSUME k + 1 <= n PROVE \E f \in [0 .. k + 1 -> S] : Unfolds(f, k + 1, base, g)
      OBVIOUS
    <2>1. PICK f \in [0 .. k -> S] : Unfolds(f, k, base, g)
      BY <1>2
    <2> DEFINE h == [i \in 0 .. k + 1 |-> IF i = k + 1 THEN g[<<i, f[k]>>] ELSE f[i]]
    <2>2. g[<<k + 1, f[k]>>] \in S
      OBVIOUS
    <2>3. h \in [0 .. k + 1 -> S]
      BY <2>2
    <2>4. ASSUME NEW i \in 0 .. k + 1 PROVE h[i] = IF i = 0 THEN base ELSE g[<<i, h[i - 1]>>]
      <3>1. CASE i = k + 1
        BY <3>1
      <3>2. CASE i \in 0 .. k
        <4>1. f[i] = IF i = 0 THEN base ELSE g[<<i, f[i - 1]>>]
          BY <2>1, <3>2 DEF Unfolds
        <4>2. h[i] = f[i] /\ (i # 0 => h[i - 1] = f[i - 1])
          BY <3>2
        <4> QED BY <4>1, <4>2
      <3> QED BY <3>1, <3>2
    <2>5. Unfolds(h, k + 1, base, g)
      BY <2>4 DEF Unfolds
    <2> QED BY <2>3, <2>5
  <1>3. n \in T
    <2> HIDE DEF T
    <2> QED BY <1>1, <1>2, NatSetInduction
  <1> QED BY <1>3

(* Numbers below a bound have a greatest one.                              *)
LEMMA GreatestExists ==
  ASSUME NEW n \in Nat, NEW S \in SUBSET (0 .. n), S # {}
  PROVE  \E m \in S : \A i \in S : m >= i
  <1> DEFINE T == {k \in Nat : \A Q \in SUBSET (0 .. k) :
                                 Q # {} => \E m \in Q : \A i \in Q : m >= i}
  <1>1. 0 \in T
    <2>1. ASSUME NEW Q \in SUBSET (0 .. 0), Q # {} PROVE \E m \in Q : \A i \in Q : m >= i
      <3>1. \A i \in Q : i = 0
        OBVIOUS
      <3>2. 0 \in Q /\ 0 >= 0
        <4>1. \E x : x \in Q
          BY <2>1, Zenon
        <4> QED BY <3>1, <4>1
      <3>3. \A i \in Q : 0 >= i
        BY <3>1, <3>2
      <3> QED BY <3>2, <3>3
    <2> QED BY <2>1
  <1>2. ASSUME NEW k \in Nat, k \in T PROVE k + 1 \in T
    <2> SUFFICES ASSUME NEW Q \in SUBSET (0 .. k + 1), Q # {}
                 PROVE  \E m \in Q : \A i \in Q : m >= i
      OBVIOUS
    <2>1. CASE k + 1 \in Q
      BY <2>1
    <2>2. CASE k + 1 \notin Q
      <3>1. Q \in SUBSET (0 .. k)
        BY <2>2
      <3> QED BY <1>2, <3>1
    <2> QED BY <2>1, <2>2
  <1>3. n \in T
    <2> HIDE DEF T
    <2> QED BY <1>1, <1>2, NatSetInduction
  <1> QED BY <1>3

-------------------------------------------------------------------------------
(* The elements of a sequence                                              *)

LEMMA OwnRange ==
  ASSUME NEW A, NEW s \in Seq(A) PROVE s \in Seq(Range(s))
  BY DEF Range

LEMMA RangeEmpty == Range(<<>>) = {} /\ <<>> \in Seq(Range(<<>>))
  BY DEF Range

LEMMA RangeAppend ==
  ASSUME NEW s, s \in Seq(Range(s)), NEW e
  PROVE  Range(Append(s, e)) = Range(s) \cup {e} /\ Append(s, e) \in Seq(Range(Append(s, e)))
  <1> DEFINE A == Range(s) \cup {e}
  <1>1. PICK t : t = Append(s, e)
    OBVIOUS
  <1>2. s \in Seq(A) /\ e \in A /\ \A i \in 1 .. Len(s) : s[i] \in Range(s)
    BY DEF Range
  <1>3. /\ Len(s) \in Nat /\ DOMAIN s = 1 .. Len(s) /\ DOMAIN t = 1 .. Len(s) + 1
        /\ t[Len(s) + 1] = e /\ \A i \in 1 .. Len(s) : t[i] = s[i]
        /\ Len(t) = Len(s) + 1 /\ t \in Seq(A)
    <2> HIDE DEF A
    <2> QED BY <1>1, <1>2
  <1>4. Range(t) = Range(s) \cup {e}
    BY <1>3 DEF Range
  <1> QED BY <1>1, <1>3, <1>4

LEMMA RangeTail ==
  ASSUME NEW s, s \in Seq(Range(s)), s # <<>>
  PROVE  Range(s) = {Head(s)} \cup Range(Tail(s)) /\ Tail(s) \in Seq(Range(Tail(s)))
  <1>1. PICK t : t = Tail(s)
    OBVIOUS
  <1>2. PICK A : A = Range(s)
    OBVIOUS
  <1>3. /\ Len(s) \in Nat \ {0} /\ DOMAIN s = 1 .. Len(s) /\ DOMAIN t = 1 .. Len(s) - 1
        /\ Head(s) = s[1] /\ \A i \in 1 .. Len(s) - 1 : t[i] = s[i + 1]
        /\ Len(t) = Len(s) - 1 /\ t \in Seq(A)
    BY <1>1, <1>2
  <1>4. Range(s) = {Head(s)} \cup Range(t)
    <2>1. ASSUME NEW i \in 1 .. Len(s) PROVE s[i] \in {Head(s)} \cup Range(t)
      <3>1. i = 1 \/ (i - 1 \in 1 .. Len(s) - 1 /\ s[i] = t[i - 1])
        BY <1>3
      <3> QED BY <1>3, <3>1 DEF Range
    <2>2. ASSUME NEW i \in 1 .. Len(s) - 1 PROVE t[i] \in Range(s)
      <3>1. i + 1 \in 1 .. Len(s) /\ t[i] = s[i + 1]
        BY <1>3
      <3> QED BY <1>3, <3>1 DEF Range
    <2>3. 1 \in DOMAIN s
      BY <1>3
    <2> QED BY <1>3, <2>1, <2>2, <2>3 DEF Range
  <1>5. t \in Seq(Range(t))
    BY <1>3 DEF Range
  <1> QED BY <1>1, <1>4, <1>5

LEMMA RangeConcat ==
  ASSUME NEW s, s \in Seq(Range(s)), NEW t, t \in Seq(Range(t))
  PROVE  Range(s \o t) = Range(s) \cup Range(t) /\ s \o t \in Seq(Range(s \o t))
  <1> DEFINE A == Range(s) \cup Range(t)
  <1>1. PICK u : u = s \o t
    OBVIOUS
  <1>2. s \in Seq(A) /\ t \in Seq(A)
    OBVIOUS
  <1>3. /\ Len(s) \in Nat /\ Len(t) \in Nat /\ DOMAIN s = 1 .. Len(s) /\ DOMAIN t = 1 .. Len(t)
        /\ u \in Seq(A) /\ Len(u) = Len(s) + Len(t) /\ DOMAIN u = 1 .. Len(s) + Len(t)
        /\ \A i \in 1 .. Len(u) : u[i] = IF i <= Len(s) THEN s[i] ELSE t[i - Len(s)]
    <2> HIDE DEF A
    <2> QED BY <1>1, <1>2
  <1>4. ASSUME NEW i \in 1 .. Len(u) PROVE u[i] \in A
    <2>1. CASE i <= Len(s)
      BY <1>3, <2>1 DEF Range
    <2>2. CASE ~(i <= Len(s))
      <3>1. i - Len(s) \in 1 .. Len(t) /\ u[i] = t[i - Len(s)]
        BY <1>3, <2>2
      <3> QED BY <1>3, <3>1 DEF Range
    <2> QED BY <2>1, <2>2
  <1>5. ASSUME NEW i \in 1 .. Len(s) PROVE s[i] \in Range(u)
    <2>1. i \in 1 .. Len(u) /\ u[i] = s[i]
      BY <1>3
    <2> QED BY <1>3, <2>1 DEF Range
  <1>6. ASSUME NEW i \in 1 .. Len(t) PROVE t[i] \in Range(u)
    <2>1. i + Len(s) \in 1 .. Len(u) /\ u[i + Len(s)] = t[i]
      BY <1>3
    <2> QED BY <1>3, <2>1 DEF Range
  <1>7. Range(u) = A
    BY <1>3, <1>4, <1>5, <1>6 DEF Range
  <1> QED BY <1>1, <1>3, <1>7

LEMMA RangeSplit ==
  ASSUME NEW s, s \in Seq(Range(s)), NEW k \in 0 .. Len(s)
  PROVE  /\ Range(s) = Range(SubSeq(s, 1, k)) \cup Range(SubSeq(s, k + 1, Len(s)))
         /\ SubSeq(s, k + 1, Len(s)) \in Seq(Range(SubSeq(s, k + 1, Len(s))))
  <1>1. PICK a, b : a = SubSeq(s, 1, k) /\ b = SubSeq(s, k + 1, Len(s))
    OBVIOUS
  <1>2. PICK A : A = Range(s)
    OBVIOUS
  <1>3. /\ Len(s) \in Nat /\ a \in Seq(A) /\ b \in Seq(A) /\ Len(a) = k /\ Len(b) = Len(s) - k
        /\ \A i \in 1 .. k : a[i] = s[i]
        /\ \A i \in 1 .. Len(s) - k : b[i] = s[k + i]
    BY <1>1, <1>2
  <1>4. a \in Seq(Range(a)) /\ b \in Seq(Range(b))
    BY <1>3, OwnRange
  <1>5. s = a \o b
    <2>1. /\ a \o b \in Seq(A) /\ Len(a \o b) = Len(s)
          /\ \A i \in 1 .. Len(s) : (a \o b)[i] = IF i <= k THEN a[i] ELSE b[i - k]
      BY <1>3
    <2>2. \A i \in 1 .. Len(s) : (a \o b)[i] = s[i]
      <3>1. ASSUME NEW i \in 1 .. Len(s), ~(i <= k) PROVE b[i - k] = s[i]
        <4>1. i - k \in 1 .. Len(s) - k /\ k + (i - k) = i
          BY <1>3, <3>1
        <4> QED BY <1>3, <4>1
      <3> QED BY <1>3, <2>1, <3>1
    <2>3. s \in Seq(A) /\ Len(s) = Len(a \o b)
      BY <1>2, <2>1
    <2> QED BY <2>1, <2>2, <2>3, SeqEqual
  <1> QED BY <1>1, <1>4, <1>5, RangeConcat

-------------------------------------------------------------------------------
(* Texts                                                                   *)

(* What is left of a sequence from a place on.                             *)
From(s, k) == SubSeq(s, k, Len(s))

LEMMA FromIndex ==
  ASSUME NEW A, NEW s \in Seq(A), NEW k \in 1 .. Len(s) + 1, NEW i \in 1 .. Len(s) - k + 1
  PROVE  From(s, k)[i] = s[k + i - 1]
  BY DEF From

LEMMA FromProperties ==
  ASSUME NEW A, NEW s \in Seq(A)
  PROVE  /\ From(s, 1) = s
         /\ \A k \in 1 .. Len(s) + 1 : From(s, k) \in Seq(A) /\ Len(From(s, k)) = Len(s) - k + 1
         /\ From(s, Len(s) + 1) = <<>>
         /\ \A k \in 1 .. Len(s) :
              From(s, k) # <<>> /\ Head(From(s, k)) = s[k] /\ Tail(From(s, k)) = From(s, k + 1)
  <1>1. ASSUME NEW k \in 1 .. Len(s) + 1
        PROVE  /\ From(s, k) \in Seq(A) /\ Len(From(s, k)) = Len(s) - k + 1
               /\ \A i \in 1 .. Len(s) - k + 1 : From(s, k)[i] = s[k + i - 1]
    BY DEF From
  <1>2. From(s, 1) = s /\ From(s, Len(s) + 1) = <<>>
    BY DEF From
  <1>3. ASSUME NEW k \in 1 .. Len(s)
        PROVE  From(s, k) # <<>> /\ Head(From(s, k)) = s[k] /\ Tail(From(s, k)) = From(s, k + 1)
    <2>1. From(s, k) # <<>> /\ Head(From(s, k)) = s[k]
      <3>1. From(s, k) \in Seq(A) /\ Len(From(s, k)) >= 1 /\ From(s, k)[1] = s[k]
        BY <1>1
      <3> QED BY <3>1
    <2>2. /\ Tail(From(s, k)) \in Seq(A) /\ Len(Tail(From(s, k))) = Len(s) - k
          /\ \A i \in 1 .. Len(s) - k : Tail(From(s, k))[i] = s[k + i]
      BY <1>1, <2>1
    <2>3. /\ From(s, k + 1) \in Seq(A) /\ Len(From(s, k + 1)) = Len(s) - k
          /\ \A i \in 1 .. Len(s) - k : From(s, k + 1)[i] = s[k + i]
      BY <1>1
    <2> QED BY <2>1, <2>2, <2>3, SeqEqual
  <1> QED BY <1>1, <1>2, <1>3

(* The texts of a sequence one after the other, joined from the last one.  *)
Joins(texts, f) ==
  f = [k \in 0 .. Len(texts) |-> IF k = 0 THEN <<>> ELSE texts[Len(texts) - k + 1] \o f[k - 1]]

Flat(texts) == LET f == CHOOSE f : Joins(texts, f) IN f[Len(texts)]

LEMMA JoinsExists ==
  ASSUME NEW A, NEW texts \in Seq(Seq(A))
  PROVE  \E f \in [0 .. Len(texts) -> Seq(A)] : Joins(texts, f)
  <1> DEFINE n == Len(texts)
             S == Seq(A)
             g == [p \in (1 .. n) \X S |-> texts[n - p[1] + 1] \o p[2]]
  <1>1. g \in [(1 .. n) \X S -> S]
    OBVIOUS
  <1>2. PICK f \in [0 .. n -> S] : Unfolds(f, n, <<>>, g)
    <2>1. n \in Nat /\ <<>> \in S
      OBVIOUS
    <2> HIDE DEF g, S, n
    <2> QED BY <1>1, <2>1, RecursionExists
  <1>3. ASSUME NEW k \in 0 .. n PROVE f[k] = IF k = 0 THEN <<>> ELSE texts[n - k + 1] \o f[k - 1]
    <2>1. f[k] = IF k = 0 THEN <<>> ELSE g[<<k, f[k - 1]>>]
      BY <1>2 DEF Unfolds
    <2>2. CASE k = 0
      BY <2>1, <2>2
    <2>3. CASE k # 0
      <3>1. k \in 1 .. n /\ f[k - 1] \in S
        BY <2>3, SMTT(30)
      <3> QED BY <2>1, <2>3, <3>1
    <2> QED BY <2>2, <2>3
  <1>4. Joins(texts, f)
    BY <1>3 DEF Joins
  <1> QED BY <1>4

LEMMA JoinsRows ==
  ASSUME NEW texts, Len(texts) \in Nat, NEW f, Joins(texts, f)
  PROVE  /\ f[0] = <<>>
         /\ \A k \in 1 .. Len(texts) : f[k] = texts[Len(texts) - k + 1] \o f[k - 1]
  <1>1. \A k \in 0 .. Len(texts) :
          f[k] = IF k = 0 THEN <<>> ELSE texts[Len(texts) - k + 1] \o f[k - 1]
    BY Zenon DEF Joins
  <1>2. Len(texts) \in Nat /\ 0 \in 0 .. Len(texts) /\ \A k \in 1 .. Len(texts) : k # 0 /\ k \in 0 .. Len(texts)
    OBVIOUS
  <1> QED BY <1>1, <1>2, Zenon

EndsWith(more, texts) ==
  /\ Len(texts) <= Len(more)
  /\ \A k \in 1 .. Len(texts) : texts[Len(texts) - k + 1] = more[Len(more) - k + 1]

LEMMA JoinsUnique ==
  ASSUME NEW texts, Len(texts) \in Nat, NEW f, Joins(texts, f),
         NEW more, Len(more) \in Nat, NEW h, Joins(more, h), EndsWith(more, texts)
  PROVE  f[Len(texts)] = h[Len(texts)]
  <1> DEFINE T == {k \in 0 .. Len(texts) : f[k] = h[k]}
  <1>1. 0 \in T
    <2>1. f[0] = <<>> /\ h[0] = <<>>
      BY JoinsRows
    <2> QED BY <2>1
  <1>2. ASSUME NEW k \in 1 .. Len(texts), k - 1 \in T PROVE k \in T
    <2>1. f[k] = texts[Len(texts) - k + 1] \o f[k - 1]
      BY JoinsRows
    <2>2. k \in 1 .. Len(more)
      BY DEF EndsWith
    <2>3. h[k] = more[Len(more) - k + 1] \o h[k - 1]
      BY <2>2, JoinsRows
    <2>4. f[k - 1] = h[k - 1] /\ k \in 0 .. Len(texts)
      BY <1>2
    <2>5. texts[Len(texts) - k + 1] = more[Len(more) - k + 1]
      BY DEF EndsWith
    <2>6. f[k] = h[k]
      BY <2>1, <2>3, <2>4, <2>5, Zenon
    <2> QED BY <2>4, <2>6
  <1>3. 0 .. Len(texts) \subseteq T
    <2>1. Len(texts) \in Nat
      OBVIOUS
    <2> HIDE DEF T
    <2> QED BY <1>1, <1>2, <2>1, IntervalInduction
  <1> QED BY <1>3

LEMMA FlatProperties ==
  ASSUME NEW A, NEW texts \in Seq(Seq(A))
  PROVE  /\ Flat(texts) \in Seq(A)
         /\ texts = <<>> => Flat(texts) = <<>>
         /\ texts # <<>> => Flat(texts) = Head(texts) \o Flat(Tail(texts))
  <1>1. PICK f \in [0 .. Len(texts) -> Seq(A)] : Joins(texts, f)
    BY JoinsExists
  <1>2. Flat(texts) = f[Len(texts)]
    <2> DEFINE h == CHOOSE h : Joins(texts, h)
    <2>1. Joins(texts, h)
      BY <1>1, Zenon
    <2>2. Flat(texts) = h[Len(texts)]
      BY Zenon DEF Flat
    <2>3. EndsWith(texts, texts)
      BY DEF EndsWith
    <2> HIDE DEF h
    <2> QED BY <1>1, <2>1, <2>2, <2>3, JoinsUnique
  <1>3. Flat(texts) \in Seq(A)
    BY <1>2
  <1>4. texts = <<>> => Flat(texts) = <<>>
    BY <1>1, <1>2 DEF Joins
  <1>5. ASSUME texts # <<>> PROVE Flat(texts) = Head(texts) \o Flat(Tail(texts))
    <2> DEFINE rest == Tail(texts)
    <2>1. /\ rest \in Seq(Seq(A)) /\ Len(rest) = Len(texts) - 1
          /\ Len(rest) \in Nat /\ Len(texts) \in Nat
          /\ \A k \in 1 .. Len(rest) : rest[k] = texts[k + 1]
      BY <1>5
    <2>2. PICK h \in [0 .. Len(rest) -> Seq(A)] : Joins(rest, h)
      BY <2>1, JoinsExists
    <2>3. Flat(rest) = h[Len(rest)]
      <3> DEFINE e == CHOOSE e : Joins(rest, e)
      <3>1. Joins(rest, e)
        BY <2>2, Zenon
      <3>2. Flat(rest) = e[Len(rest)]
        BY Zenon DEF Flat
      <3> HIDE DEF e, rest
      <3>3. EndsWith(rest, rest)
        BY <2>1 DEF EndsWith
      <3>4. e[Len(rest)] = h[Len(rest)]
        BY <2>1, <2>2, <3>1, <3>3, JoinsUnique, Zenon
      <3> QED BY <3>2, <3>4
    <2>4. h[Len(rest)] = f[Len(rest)]
      <3>1. EndsWith(texts, rest)
        BY <2>1 DEF EndsWith
      <3> HIDE DEF rest
      <3> QED BY <1>1, <2>1, <2>2, <3>1, JoinsUnique
    <2>5. f[Len(texts)] = texts[1] \o f[Len(texts) - 1]
      <3>1. Len(texts) \in 1 .. Len(texts) /\ Len(texts) - Len(texts) + 1 = 1
        BY <1>5
      <3>2. f[Len(texts)] = texts[Len(texts) - Len(texts) + 1] \o f[Len(texts) - 1]
        BY <1>1, <2>1, <3>1, JoinsRows, Zenon
      <3> QED BY <3>1, <3>2
    <2>6. Head(texts) = texts[1] /\ Len(rest) = Len(texts) - 1
      BY <1>5, <2>1
    <2> HIDE DEF rest
    <2>7. Flat(rest) = f[Len(texts) - 1]
      BY <2>3, <2>4, <2>6
    <2> QED BY <1>2, <2>5, <2>6, <2>7 DEF rest
  <1> QED BY <1>3, <1>4, <1>5

LEMMA HeadConcat ==
  ASSUME NEW A, NEW s \in Seq(A), NEW t \in Seq(A), s # <<>>
  PROVE  s \o t # <<>> /\ Head(s \o t) = Head(s) /\ Tail(s \o t) = Tail(s) \o t
  <1>1. /\ s \o t \in Seq(A) /\ Len(s \o t) = Len(s) + Len(t) /\ Len(s) >= 1
        /\ \A i \in 1 .. Len(s) + Len(t) : (s \o t)[i] = IF i <= Len(s) THEN s[i] ELSE t[i - Len(s)]
    OBVIOUS
  <1>2. /\ Tail(s) \in Seq(A) /\ Len(Tail(s)) = Len(s) - 1
        /\ \A i \in 1 .. Len(s) - 1 : Tail(s)[i] = s[i + 1]
    OBVIOUS
  <1>3. s \o t # <<>> /\ Head(s \o t) = Head(s)
    BY <1>1
  <1>4. /\ Tail(s \o t) \in Seq(A) /\ Len(Tail(s \o t)) = Len(s) + Len(t) - 1
        /\ \A i \in 1 .. Len(s) + Len(t) - 1 : Tail(s \o t)[i] = (s \o t)[i + 1]
    BY <1>1, <1>3
  <1>5. /\ Tail(s) \o t \in Seq(A) /\ Len(Tail(s) \o t) = Len(s) + Len(t) - 1
        /\ \A i \in 1 .. Len(s) + Len(t) - 1 :
             (Tail(s) \o t)[i] = IF i <= Len(s) - 1 THEN s[i + 1] ELSE t[i - (Len(s) - 1)]
    BY <1>2
  <1>6. \A i \in 1 .. Len(s) + Len(t) - 1 : Tail(s \o t)[i] = (Tail(s) \o t)[i]
    <2> SUFFICES ASSUME NEW i \in 1 .. Len(s) + Len(t) - 1
                 PROVE  Tail(s \o t)[i] = (Tail(s) \o t)[i]
      OBVIOUS
    <2>1. i + 1 \in 1 .. Len(s) + Len(t) /\ i + 1 - Len(s) = i - (Len(s) - 1)
      BY <1>1
    <2> QED BY <1>1, <1>4, <1>5, <2>1
  <1> QED BY <1>1, <1>3, <1>4, <1>5, <1>6, SeqEqual

(* What is left of texts behind the jth symbol of the ith.                 *)
Ahead(texts, i, j) == From(texts[i], j + 1) \o Flat(From(texts, i + 1))

LEMMA AheadProperties ==
  ASSUME NEW A, NEW texts \in Seq(Seq(A))
  PROVE  /\ texts # <<>> => Flat(texts) = Ahead(texts, 1, 0)
         /\ \A i \in 1 .. Len(texts) :
              /\ Ahead(texts, i, Len(texts[i])) = Flat(From(texts, i + 1))
              /\ \A j \in 0 .. Len(texts[i]) : Ahead(texts, i, j) \in Seq(A)
              /\ \A j \in 0 .. Len(texts[i]) - 1 :
                   /\ Ahead(texts, i, j) # <<>>
                   /\ Head(Ahead(texts, i, j)) = texts[i][j + 1]
                   /\ Tail(Ahead(texts, i, j)) = Ahead(texts, i, j + 1)
         /\ \A i \in 1 .. Len(texts) - 1 :
              Ahead(texts, i, Len(texts[i])) = Ahead(texts, i + 1, 0)
  <1>1. ASSUME NEW k \in 1 .. Len(texts)
        PROVE  /\ From(texts, k + 1) \in Seq(Seq(A)) /\ Flat(From(texts, k + 1)) \in Seq(A)
               /\ Flat(From(texts, k)) = Ahead(texts, k, 0)
    <2>1. k + 1 \in 1 .. Len(texts) + 1 /\ k \in 1 .. Len(texts) + 1 /\ texts[k] \in Seq(A)
      OBVIOUS
    <2>2. From(texts, k + 1) \in Seq(Seq(A)) /\ From(texts, k) \in Seq(Seq(A))
      BY <2>1, FromProperties
    <2>3. From(texts, k) # <<>> /\ Head(From(texts, k)) = texts[k] /\ Tail(From(texts, k)) = From(texts, k + 1)
      BY FromProperties
    <2>4. Flat(From(texts, k)) = texts[k] \o Flat(From(texts, k + 1))
      BY <2>2, <2>3, FlatProperties
    <2>5. From(texts[k], 0 + 1) = texts[k]
      <3>1. 0 + 1 = 1
        OBVIOUS
      <3>2. From(texts[k], 1) = texts[k]
        BY <2>1, FromProperties, Zenon
      <3> QED BY <3>1, <3>2, Zenon
    <2>6. Flat(From(texts, k + 1)) \in Seq(A)
      BY <2>2, FlatProperties
    <2> QED BY <2>2, <2>4, <2>5, <2>6 DEF Ahead
  <1>2. texts # <<>> => Flat(texts) = Ahead(texts, 1, 0)
    <2> SUFFICES ASSUME texts # <<>> PROVE Flat(texts) = Ahead(texts, 1, 0)
      OBVIOUS
    <2>1. 1 \in 1 .. Len(texts) /\ From(texts, 1) = texts
      BY FromProperties
    <2> QED BY <1>1, <2>1
  <1>3. ASSUME NEW i \in 1 .. Len(texts)
        PROVE  /\ Ahead(texts, i, Len(texts[i])) = Flat(From(texts, i + 1))
               /\ \A j \in 0 .. Len(texts[i]) : Ahead(texts, i, j) \in Seq(A)
               /\ \A j \in 0 .. Len(texts[i]) - 1 :
                    /\ Ahead(texts, i, j) # <<>>
                    /\ Head(Ahead(texts, i, j)) = texts[i][j + 1]
                    /\ Tail(Ahead(texts, i, j)) = Ahead(texts, i, j + 1)
    <2> DEFINE t == texts[i]
               rest == Flat(From(texts, i + 1))
    <2>1. t \in Seq(A) /\ Len(t) \in Nat /\ rest \in Seq(A)
      BY <1>1
    <2>2. \A j : Ahead(texts, i, j) = From(t, j + 1) \o rest
      BY DEF Ahead
    <2> HIDE DEF t, rest
    <2>3. ASSUME NEW j \in 0 .. Len(t) PROVE Ahead(texts, i, j) \in Seq(A)
      <3>1. j + 1 \in 1 .. Len(t) + 1
        BY <2>1
      <3>2. From(t, j + 1) \in Seq(A)
        BY <2>1, <3>1, FromProperties
      <3>3. From(t, j + 1) \o rest \in Seq(A)
        BY <2>1, <3>2, ConcatProperties
      <3> QED BY <2>2, <3>3, Zenon
    <2>4. ASSUME NEW j \in 0 .. Len(t) - 1
          PROVE  /\ Ahead(texts, i, j) # <<>> /\ Head(Ahead(texts, i, j)) = t[j + 1]
                 /\ Tail(Ahead(texts, i, j)) = Ahead(texts, i, j + 1)
      <3>1. j + 1 \in 1 .. Len(t) /\ j + 1 \in 1 .. Len(t) + 1
        BY <2>1
      <3>2. From(t, j + 1) \in Seq(A) /\ From(t, j + 1) # <<>> /\ Head(From(t, j + 1)) = t[j + 1]
            /\ Tail(From(t, j + 1)) = From(t, j + 1 + 1)
        BY <2>1, <3>1, FromProperties
      <3>3. /\ From(t, j + 1) \o rest # <<>> /\ Head(From(t, j + 1) \o rest) = t[j + 1]
            /\ Tail(From(t, j + 1) \o rest) = From(t, j + 1 + 1) \o rest
        BY <2>1, <3>2, HeadConcat
      <3> QED BY <2>2, <3>3, Zenon
    <2>5. Ahead(texts, i, Len(t)) = rest
      <3>1. From(t, Len(t) + 1) = <<>>
        BY <2>1, FromProperties
      <3> QED BY <2>1, <2>2, <3>1, ConcatEmptySeq
    <2> QED BY <2>3, <2>4, <2>5 DEF t, rest
  <1>4. ASSUME NEW i \in 1 .. Len(texts) - 1
        PROVE  Ahead(texts, i, Len(texts[i])) = Ahead(texts, i + 1, 0)
    <2>1. i \in 1 .. Len(texts) /\ i + 1 \in 1 .. Len(texts)
      OBVIOUS
    <2> QED BY <1>1, <1>3, <2>1
  <1> QED BY <1>2, <1>3, <1>4
===============================================================================
