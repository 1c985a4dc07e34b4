---------------------------- MODULE JavaBridgeProofs ----------------------------
(***************************************************************************)
(* Theorems about JavaBridge, for any number of threads and any sentences: *)
(* one thread at a time is inside annotate(), the bytes of a response are  *)
(* framed right whatever became of earlier calls, and where no sentence    *)
(* fails every call is answered as JavaBridge.h promises.                  *)
(***************************************************************************)
EXTENDS JavaBridge, Foundations

-------------------------------------------------------------------------------
(* The symbols of a pipe, and a response                                   *)

Line   == [call : Callers \X Nat, tree : Nat, line : Nat]
Symbol == Line \cup {NL}
Text   == Seq(Symbol) \ {<<>>}

(* What a sentence of a program satisfies, and a healthy one.              *)
Wellformed(s) == s \in Sentence /\ (s.short => s.trees = <<1>> /\ ~s.fails)
Whole(s)      == ~s.fails /\ ~s.short /\ s.trees # <<>>

Tree(call, s, i) == Promise!Lines(call, i, s.trees[i])

(* Response(call), of the sentence s.                                      *)
Output(call, s) ==
  [i \in DOMAIN s.trees |-> Println(ConllDump(Tree(call, s, i), s.short))] \o Ending(s)

(* Every tree is printed line by line, with a blank line behind it, and    *)
(* then come one or two more blank lines, two where the sentence failed.   *)
LEMMA OutputProperties ==
  ASSUME NEW call \in Callers \X Nat, NEW s, Wellformed(s)
  PROVE  /\ Output(call, s) \in Seq(Text) /\ Output(call, s) # <<>>
         /\ Len(s.trees) \in Nat /\ Len(Output(call, s)) > Len(s.trees)
         /\ \A i \in 1 .. Len(s.trees) :
              /\ s.trees[i] \in Nat \ {0}
              /\ Tree(call, s, i) \in Seq(Line) /\ Len(Tree(call, s, i)) = s.trees[i]
              /\ Len(Output(call, s)[i]) = s.trees[i] + (IF s.short THEN 2 ELSE 1)
              /\ \A j \in 1 .. s.trees[i] : Output(call, s)[i][j] = Tree(call, s, i)[j]
              /\ \A j \in s.trees[i] + 1 .. Len(Output(call, s)[i]) : Output(call, s)[i][j] = NL
         /\ From(Output(call, s), Len(s.trees) + 1) = Ending(s)
  <1> DEFINE n == Len(s.trees)
             shown == [i \in DOMAIN s.trees |-> Println(ConllDump(Tree(call, s, i), s.short))]
  <1>1. s.trees \in Seq(Nat \ {0}) /\ n \in Nat /\ DOMAIN s.trees = 1 .. n /\ s.short \in BOOLEAN
    BY DEF Wellformed, Sentence
  <1>2. ASSUME NEW i \in 1 .. n
        PROVE  /\ s.trees[i] \in Nat \ {0}
               /\ Tree(call, s, i) \in Seq(Line) /\ Len(Tree(call, s, i)) = s.trees[i]
    <2>1. s.trees[i] \in Nat \ {0} /\ i \in Nat
      BY <1>1
    <2>2. Tree(call, s, i) = [j \in 1 .. s.trees[i] |-> [call |-> call, tree |-> i, line |-> j]]
      BY DEF Tree, Promise!Lines
    <2>3. \A j \in 1 .. s.trees[i] : [call |-> call, tree |-> i, line |-> j] \in Line
      BY <2>1 DEF Line
    <2>4. Tree(call, s, i) \in [1 .. s.trees[i] -> Line]
      BY <2>2, <2>3
    <2> QED BY <2>1, <2>4, LenProperties
  <1>3. ASSUME NEW i \in 1 .. n
        PROVE  /\ shown[i] \in Text
               /\ Len(shown[i]) = s.trees[i] + (IF s.short THEN 2 ELSE 1)
               /\ \A j \in 1 .. s.trees[i] : shown[i][j] = Tree(call, s, i)[j]
               /\ \A j \in s.trees[i] + 1 .. Len(shown[i]) : shown[i][j] = NL
    <2> DEFINE t == Tree(call, s, i)
    <2>1. t \in Seq(Symbol) /\ Len(t) = s.trees[i] /\ s.trees[i] \in Nat \ {0} /\ NL \in Symbol
      BY <1>2 DEF Symbol
    <2>2. shown[i] = Println(ConllDump(t, s.short))
      BY <1>1
    <2> HIDE DEF t, shown
    <2>3. CASE s.short
      <3>1. shown[i] = Append(Append(t, NL), NL)
        BY <2>2, <2>3 DEF Println, ConllDump
      <3> QED BY <2>1, <2>3, <3>1 DEF t, Text
    <2>4. CASE ~s.short
      <3>1. shown[i] = Append(t, NL)
        BY <2>2, <2>4 DEF Println, ConllDump
      <3> QED BY <2>1, <2>4, <3>1 DEF t, Text
    <2> QED BY <2>3, <2>4
  <1>4. shown \in Seq(Text) /\ Len(shown) = n
    <2>1. DOMAIN shown = 1 .. n
      BY <1>1
    <2> HIDE DEF shown
    <2>2. shown = [i \in 1 .. n |-> shown[i]]
      <3>1. shown = [i \in DOMAIN shown |-> shown[i]]
        BY DEF shown
      <3> QED BY <2>1, <3>1
    <2>3. shown \in [1 .. n -> Text]
      BY <1>3, <2>2
    <2> HIDE DEF n
    <2> QED BY <1>1, <2>3, LenProperties
  <1>5. Ending(s) \in Seq(Text) /\ Len(Ending(s)) \in {1, 2}
    <2> DEFINE blank == Println(<<>>)
    <2>1. blank \in Text
      BY DEF Println, Text, Symbol
    <2>2. Ending(s) = <<blank, blank>> \/ Ending(s) = <<blank>>
      BY Zenon DEF Ending
    <2> HIDE DEF blank
    <2>3. <<blank, blank>> \in Seq(Text) /\ <<blank>> \in Seq(Text)
      BY <2>1
    <2>4. Len(<<blank, blank>>) = 2 /\ Len(<<blank>>) = 1
      OBVIOUS
    <2> QED BY <2>2, <2>3, <2>4
  <1>6. /\ Output(call, s) \in Seq(Text) /\ Len(Output(call, s)) = n + Len(Ending(s))
        /\ \A i \in 1 .. n : Output(call, s)[i] = shown[i]
        /\ \A i \in 1 .. Len(Ending(s)) : Output(call, s)[n + i] = Ending(s)[i]
    <2>1. Output(call, s) = shown \o Ending(s)
      BY DEF Output
    <2> HIDE DEF shown, n
    <2> DEFINE ending == Ending(s)
    <2>2. n \in Nat /\ ending \in Seq(Text) /\ Len(ending) \in Nat
      BY <1>1, <1>5
    <2> HIDE DEF ending
    <2>3. /\ shown \o ending \in Seq(Text) /\ Len(shown \o ending) = n + Len(ending)
          /\ \A i \in 1 .. n + Len(ending) :
               (shown \o ending)[i] = IF i <= n THEN shown[i] ELSE ending[i - n]
      BY <1>4, <2>2, ConcatProperties
    <2>4. \A i \in 1 .. n : (shown \o ending)[i] = shown[i]
      BY <2>2, <2>3
    <2>5. \A i \in 1 .. Len(ending) : (shown \o ending)[n + i] = ending[i]
      BY <2>2, <2>3
    <2> QED BY <2>1, <2>3, <2>4, <2>5 DEF ending
  <1>7. Output(call, s) # <<>> /\ Len(Output(call, s)) > n
    <2> HIDE DEF n
    <2>1. PICK l : l = Len(Output(call, s))
      OBVIOUS
    <2>2. PICK e \in Nat : e = Len(Ending(s)) /\ e >= 1
      BY <1>5
    <2>3. l = n + e
      BY <1>6, <2>1, <2>2
    <2>4. n \in Nat
      BY <1>1
    <2>5. l >= 1 /\ l > n
      BY <2>2, <2>3, <2>4
    <2>6. Len(Output(call, s)) # 0
      BY <2>1, <2>5
    <2> QED BY <2>1, <2>5, <2>6
  <1>8. From(Output(call, s), n + 1) = Ending(s)
    <2> DEFINE texts == Output(call, s)
               left == From(texts, n + 1)
    <2> HIDE DEF n
    <2>1. /\ left \in Seq(Text) /\ Len(left) = Len(Ending(s))
          /\ \A i \in 1 .. Len(left) : left[i] = texts[n + i]
      <3>1. /\ texts \in Seq(Text) /\ n + 1 \in 1 .. Len(texts) + 1 /\ n \in Nat
            /\ Len(texts) = n + Len(Ending(s)) /\ Len(Ending(s)) \in Nat
        BY <1>1, <1>5, <1>6
      <3> HIDE DEF texts
      <3>2. left \in Seq(Text) /\ Len(left) = Len(texts) - n
        BY <3>1, FromProperties
      <3>3. \A i \in 1 .. Len(left) : left[i] = texts[n + i]
        <4> SUFFICES ASSUME NEW i \in 1 .. Len(left) PROVE left[i] = texts[n + i]
          OBVIOUS
        <4>1. i \in 1 .. Len(texts) - (n + 1) + 1 /\ (n + 1) + i - 1 = n + i
          BY <3>1, <3>2
        <4>2. left[i] = texts[(n + 1) + i - 1]
          <5> DEFINE k == n + 1
          <5>1. k \in 1 .. Len(texts) + 1 /\ i \in 1 .. Len(texts) - k + 1
            BY <3>1, <4>1
          <5> HIDE DEF k
          <5>2. From(texts, k)[i] = texts[k + i - 1]
            BY <3>1, <5>1, FromIndex
          <5> QED BY <5>2 DEF k
        <4> QED BY <4>1, <4>2
      <3> QED BY <3>1, <3>2, <3>3
    <2> HIDE DEF left, texts
    <2>2. \A i \in 1 .. Len(left) : left[i] = Ending(s)[i]
      BY <1>5, <1>6, <2>1 DEF texts
    <2>3. left = Ending(s)
      BY <1>5, <2>1, <2>2, SeqEqual
    <2> QED BY <2>3 DEF left, texts
  <1>9. ASSUME NEW i \in 1 .. n
        PROVE  Output(call, s)[i] = shown[i]
    BY <1>6
  <1> HIDE DEF shown
  <1>10. ASSUME NEW i \in 1 .. n
         PROVE  /\ Len(Output(call, s)[i]) = s.trees[i] + (IF s.short THEN 2 ELSE 1)
                /\ \A j \in 1 .. s.trees[i] : Output(call, s)[i][j] = Tree(call, s, i)[j]
                /\ \A j \in s.trees[i] + 1 .. Len(Output(call, s)[i]) : Output(call, s)[i][j] = NL
    BY <1>3, <1>9
  <1> QED BY <1>1, <1>2, <1>6, <1>7, <1>8, <1>10

LEMMA EndingFlat ==
  ASSUME NEW s
  PROVE  Flat(Ending(s)) = IF s.fails THEN <<NL, NL>> ELSE <<NL>>
  <1>1. Println(<<>>) = <<NL>>
    BY DEF Println
  <1>2. Flat(<<>>) = <<>>
    <2>1. <<>> \in Seq(Seq({NL}))
      OBVIOUS
    <2> QED BY <2>1, FlatProperties, Zenon
  <1>3. <<NL>> \in Seq({NL})
    OBVIOUS
  <1>4. Flat(<< <<NL>> >>) = <<NL>>
    <2> DEFINE one == << <<NL>> >>
    <2>1. one \in Seq(Seq({NL})) /\ one # <<>> /\ Head(one) = <<NL>> /\ Tail(one) = <<>>
      OBVIOUS
    <2> HIDE DEF one
    <2>2. Flat(one) = <<NL>> \o <<>>
      BY <1>2, <2>1, FlatProperties
    <2> QED BY <1>3, <2>2, ConcatEmptySeq DEF one
  <1>5. Flat(<< <<NL>>, <<NL>> >>) = <<NL, NL>>
    <2> DEFINE two == << <<NL>>, <<NL>> >>
    <2>1. two \in Seq(Seq({NL})) /\ two # <<>> /\ Head(two) = <<NL>> /\ Tail(two) = << <<NL>> >>
      OBVIOUS
    <2> HIDE DEF two
    <2>2. Flat(two) = <<NL>> \o <<NL>>
      BY <1>4, <2>1, FlatProperties
    <2>3. <<NL>> \o <<NL>> = <<NL, NL>>
      <3>1. <<NL, NL>> \in Seq({NL}) /\ Len(<<NL, NL>>) = 2
        OBVIOUS
      <3>2. <<NL>> \o <<NL>> \in Seq({NL}) /\ Len(<<NL>> \o <<NL>>) = 2
        OBVIOUS
      <3>3. \A i \in 1 .. 2 : (<<NL>> \o <<NL>>)[i] = NL /\ <<NL, NL>>[i] = NL
        BY <3>1, <3>2
      <3> QED BY <3>1, <3>2, <3>3, SeqEqual
    <2> QED BY <2>2, <2>3 DEF two
  <1>6. CASE s.fails
    BY <1>1, <1>5, <1>6, Zenon DEF Ending
  <1>7. CASE ~s.fails
    BY <1>1, <1>4, <1>7, Zenon DEF Ending
  <1> QED BY <1>6, <1>7

-------------------------------------------------------------------------------
(* The trees of an answer, one by one                                      *)

Fits(trees, f) ==
  f = [i \in 0 .. Len(trees) |->
         IF i = 0 THEN <<>>
         ELSE IF Len(trees[i]) + 1 < MAX_FACT_LENGTH THEN Append(f[i - 1], trees[i])
         ELSE f[i - 1]]

(* Those of the first k trees that are not too long.                       *)
FittingTo(trees, k) == LET f == CHOOSE f : Fits(trees, f) IN f[k]

LEMMA FittingRows ==
  ASSUME NEW A, NEW trees \in Seq(A)
  PROVE  /\ FittingTo(trees, 0) = <<>>
         /\ \A i \in 1 .. Len(trees) :
              FittingTo(trees, i) = IF Len(trees[i]) + 1 < MAX_FACT_LENGTH
                                    THEN Append(FittingTo(trees, i - 1), trees[i])
                                    ELSE FittingTo(trees, i - 1)
         /\ Promise!Fitting(trees) = FittingTo(trees, Len(trees))
  <1> DEFINE S == Seq(A)
             n == Len(trees)
             g == [p \in (1 .. n) \X S |->
                     IF Len(trees[p[1]]) + 1 < MAX_FACT_LENGTH THEN Append(p[2], trees[p[1]]) ELSE p[2]]
             h == CHOOSE f : Fits(trees, f)
  <1>1. g \in [(1 .. n) \X S -> S]
    OBVIOUS
  <1>2. PICK f \in [0 .. n -> S] : Unfolds(f, n, <<>>, g)
    <2>1. n \in Nat /\ <<>> \in S
      OBVIOUS
    <2> HIDE DEF g, S, n
    <2> QED BY <1>1, <2>1, RecursionExists
  <1>3. Fits(trees, f)
    <2>1. \A i \in 0 .. n : f[i] = IF i = 0 THEN <<>> ELSE g[<<i, f[i - 1]>>]
      BY <1>2 DEF Unfolds
    <2>2. ASSUME NEW i \in 1 .. n
          PROVE  g[<<i, f[i - 1]>>] = IF Len(trees[i]) + 1 < MAX_FACT_LENGTH
                                      THEN Append(f[i - 1], trees[i]) ELSE f[i - 1]
      <3>1. f[i - 1] \in S
        OBVIOUS
      <3> QED BY <3>1
    <2>3. \A i \in 0 .. n :
            f[i] = IF i = 0 THEN <<>>
                   ELSE IF Len(trees[i]) + 1 < MAX_FACT_LENGTH THEN Append(f[i - 1], trees[i])
                   ELSE f[i - 1]
      BY <2>1, <2>2, SMTT(30)
    <2> QED BY <2>3 DEF Fits
  <1>4. Fits(trees, h)
    BY <1>3, Zenon
  <1>5. \A k : FittingTo(trees, k) = h[k]
    BY Zenon DEF FittingTo
  <1>6. Promise!Fitting(trees) = h[Len(trees)]
    BY Zenon DEF Promise!Fitting, Fits
  <1> HIDE DEF h
  <1>7. \A i \in 0 .. Len(trees) :
          h[i] = IF i = 0 THEN <<>>
                 ELSE IF Len(trees[i]) + 1 < MAX_FACT_LENGTH THEN Append(h[i - 1], trees[i])
                 ELSE h[i - 1]
    BY <1>4, Zenon DEF Fits
  <1>8. 0 \in 0 .. Len(trees) /\ \A i \in 1 .. Len(trees) : i \in 0 .. Len(trees) /\ i # 0
    OBVIOUS
  <1>9. h[0] = <<>>
    BY <1>7, <1>8, Zenon
  <1>10. \A i \in 1 .. Len(trees) :
           h[i] = IF Len(trees[i]) + 1 < MAX_FACT_LENGTH THEN Append(h[i - 1], trees[i]) ELSE h[i - 1]
    BY <1>7, <1>8, Zenon
  <1> QED BY <1>5, <1>6, <1>9, <1>10, Zenon

-------------------------------------------------------------------------------
(* Where the reader is in the response to a call: of l, the variables of   *)
(* annotate(), and rest, what the child has printed or will print and      *)
(* nobody has read.  in is what the child has not read, cs are the calls   *)
(* of all threads.                                                         *)

AllHealthy(cs) ==
  \A c \in Callers : \A sentence \in Range(cs[c]) :
    ~sentence.fails /\ ~sentence.short /\ sentence.trees # <<>>

Allowed(cs, s) == AllHealthy(cs) => Whole(s)

(* The child has not read the sentence: a newline of an earlier response   *)
(* may be read first.                                                      *)
Waiting(call, s, cs, in, rest, l) ==
  /\ in = <<s.mode, call>>
  /\ l.conll = <<>> /\ l.trees = <<>>
  /\ rest \in Seq({NL}) /\ l.numNewlines + Len(rest) <= 1
  /\ AllHealthy(cs) => rest = <<>> /\ l.numNewlines = 0 /\ l.numLines = 0

(* Behind line j of tree i, with a newline of an earlier response ahead in *)
(* late.                                                                   *)
InTree(call, s, cs, in, rest, l, i, j, late) ==
  /\ in = <<>> /\ rest = late \o Ahead(Output(call, s), i, j)
  /\ late # <<>> => late = <<NL>> /\ i = 1 /\ j = 0 /\ l.numNewlines = 0 /\ ~AllHealthy(cs)
  /\ l.conll = SubSeq(Tree(call, s, i), 1, j)
  /\ j > 0 => l.numNewlines = 1
  /\ j = 0 /\ i > 1 => l.numNewlines = 2
  /\ j = 0 /\ i = 1 => l.numNewlines \in {0, 1}
  /\ AllHealthy(cs) => /\ l.numLines = j
                       /\ l.trees = FittingTo(Promise!TreesOf(call, s), i - 1)
                       /\ i = 1 /\ j = 0 => l.numNewlines = 0

(* Behind the last tree: no more than four newlines in a row are ahead.    *)
AtEnd(call, s, cs, in, rest, l) ==
  /\ in = <<>> /\ l.conll = <<>>
  /\ rest \in Seq({NL}) /\ l.numNewlines + Len(rest) <= 4 /\ l.numNewlines <= 3
  /\ AllHealthy(cs) => /\ l.numNewlines >= 2 /\ l.numNewlines + Len(rest) = 3
                       /\ l.trees = Promise!Answer(call, s)

InSomeTree(call, s, cs, in, rest, l) ==
  \E i \in 1 .. Len(s.trees) : \E j \in 0 .. s.trees[i], late \in {<<>>, <<NL>>} :
    InTree(call, s, cs, in, rest, l, i, j, late)

Place(call, s, cs, in, rest, l) ==
  \/ Waiting(call, s, cs, in, rest, l)
  \/ InSomeTree(call, s, cs, in, rest, l)
  \/ AtEnd(call, s, cs, in, rest, l)

(* What the reader holds is of its own call.                               *)
OwnTrees(call, s, l) ==
  \A t \in Range(l.trees) : t = <<>> \/ t \in Range(Promise!TreesOf(call, s))

Locals == [numNewlines : Nat, numLines : Nat, conll : Seq(Line), trees : Seq(Seq(Line))]

(* One symbol of the response.                                             *)
Step(l, symbol) == EndTree(Characters(l, symbol))

LEMMA LocalsUpdated ==
  ASSUME NEW l \in Locals,
         NEW a \in Nat, NEW b \in Nat, NEW c \in Seq(Line), NEW d \in Seq(Seq(Line))
  PROVE  /\ [l EXCEPT !.numLines = a, !.numNewlines = b] \in Locals
         /\ [l EXCEPT !.conll = c, !.numLines = a, !.numNewlines = b] \in Locals
         /\ [l EXCEPT !.conll = c, !.numLines = a, !.trees = d] \in Locals
  <1>1. /\ \A m \in Locals : [m EXCEPT !.numLines = a] \in Locals
        /\ \A m \in Locals : [m EXCEPT !.numNewlines = b] \in Locals
        /\ \A m \in Locals : [m EXCEPT !.conll = c] \in Locals
        /\ \A m \in Locals : [m EXCEPT !.trees = d] \in Locals
    BY DEF Locals
  <1>2. [[l EXCEPT !.numLines = a] EXCEPT !.numNewlines = b] \in Locals
    BY <1>1
  <1>3. [[[l EXCEPT !.conll = c] EXCEPT !.numLines = a] EXCEPT !.numNewlines = b] \in Locals
    BY <1>1
  <1>4. [[[l EXCEPT !.conll = c] EXCEPT !.numLines = a] EXCEPT !.trees = d] \in Locals
    BY <1>1
  <1>5. [l EXCEPT !.numLines = a, !.numNewlines = b]
          = [[l EXCEPT !.numLines = a] EXCEPT !.numNewlines = b]
    BY Zenon
  <1>6. [l EXCEPT !.conll = c, !.numLines = a, !.numNewlines = b]
          = [[[l EXCEPT !.conll = c] EXCEPT !.numLines = a] EXCEPT !.numNewlines = b]
    BY Zenon
  <1>7. [l EXCEPT !.conll = c, !.numLines = a, !.trees = d]
          = [[[l EXCEPT !.conll = c] EXCEPT !.numLines = a] EXCEPT !.trees = d]
    BY Zenon
  <1> QED BY <1>2, <1>3, <1>4, <1>5, <1>6, <1>7

LEMMA StepLine ==
  ASSUME NEW l \in Locals, NEW symbol \in Line
  PROVE  /\ Step(l, symbol) \in Locals
         /\ Step(l, symbol).conll = Append(l.conll, symbol)
         /\ Step(l, symbol).numLines = l.numLines + 1
         /\ Step(l, symbol).numNewlines = 1
         /\ Step(l, symbol).trees = l.trees
  <1> DEFINE m == [l EXCEPT !.conll = Append(@, symbol), !.numLines = @ + 1, !.numNewlines = 1]
  <1>1. symbol # NL
    BY NewlineAssumption DEF Line
  <1>2. /\ m.conll = Append(l.conll, symbol) /\ m.numLines = l.numLines + 1
        /\ m.numNewlines = 1 /\ m.trees = l.trees
    BY DEF Locals
  <1>3. m \in Locals
    <2>1. Append(l.conll, symbol) \in Seq(Line) /\ l.numLines + 1 \in Nat /\ 1 \in Nat /\ l.trees \in Seq(Seq(Line))
      BY DEF Locals
    <2>2. [l EXCEPT !.conll = Append(l.conll, symbol), !.numLines = l.numLines + 1, !.numNewlines = 1] \in Locals
      BY <2>1, LocalsUpdated
    <2> QED BY <2>2
  <1>4. Characters(l, symbol) = m
    BY <1>1 DEF Characters
  <1> HIDE DEF m
  <1>5. Step(l, symbol) = m
    BY <1>2, <1>4 DEF Step, EndTree
  <1> QED BY <1>2, <1>3, <1>5

(* A newline that is not the second in a row.                              *)
LEMMA StepNewline ==
  ASSUME NEW l \in Locals, l.numNewlines # 1
  PROVE  /\ Step(l, NL) \in Locals
         /\ Step(l, NL).conll = l.conll /\ Step(l, NL).trees = l.trees
         /\ Step(l, NL).numLines = l.numLines + 1
         /\ Step(l, NL).numNewlines = l.numNewlines + 1
  <1> DEFINE m == [l EXCEPT !.numLines = @ + 1, !.numNewlines = @ + 1]
  <1>1. /\ m.conll = l.conll /\ m.numLines = l.numLines + 1
        /\ m.numNewlines = l.numNewlines + 1 /\ m.trees = l.trees
    BY DEF Locals
  <1>2. m \in Locals
    <2>1. l.conll \in Seq(Line) /\ l.numLines + 1 \in Nat /\ l.numNewlines + 1 \in Nat /\ l.trees \in Seq(Seq(Line))
      BY DEF Locals
    <2>2. [l EXCEPT !.numLines = l.numLines + 1, !.numNewlines = l.numNewlines + 1] \in Locals
      BY <2>1, LocalsUpdated
    <2> QED BY <2>2
  <1>3. Characters(l, NL) = m
    BY DEF Characters
  <1>4. m.numNewlines # 2
    BY <1>1 DEF Locals
  <1> HIDE DEF m
  <1>5. Step(l, NL) = m
    BY <1>3, <1>4 DEF Step, EndTree
  <1> QED BY <1>1, <1>2, <1>5

(* The second newline in a row.                                            *)
LEMMA StepTree ==
  ASSUME NEW l \in Locals, l.numNewlines = 1
  PROVE  /\ Step(l, NL) \in Locals
         /\ Step(l, NL).conll = <<>> /\ Step(l, NL).numLines = 0 /\ Step(l, NL).numNewlines = 2
         /\ Step(l, NL).trees = IF l.numLines + 1 < MAX_FACT_LENGTH
                                THEN Append(l.trees, l.conll) ELSE l.trees
  <1> DEFINE m == [l EXCEPT !.numLines = @ + 1, !.numNewlines = @ + 1]
             d == IF m.numLines < MAX_FACT_LENGTH THEN Append(m.trees, m.conll) ELSE m.trees
             e == [m EXCEPT !.conll = <<>>, !.numLines = 0, !.trees = d]
  <1>1. /\ m.conll = l.conll /\ m.numLines = l.numLines + 1
        /\ m.numNewlines = 2 /\ m.trees = l.trees
    BY DEF Locals
  <1>2. m \in Locals
    <2>1. l.conll \in Seq(Line) /\ l.numLines + 1 \in Nat /\ l.numNewlines + 1 \in Nat /\ l.trees \in Seq(Seq(Line))
      BY DEF Locals
    <2>2. [l EXCEPT !.numLines = l.numLines + 1, !.numNewlines = l.numNewlines + 1] \in Locals
      BY <2>1, LocalsUpdated
    <2> QED BY <2>2
  <1>3. Characters(l, NL) = m
    BY DEF Characters
  <1> HIDE DEF m
  <1>4. Step(l, NL) = e
    BY <1>1, <1>3 DEF Step, EndTree
  <1>5. d \in Seq(Seq(Line))
    BY <1>2 DEF Locals
  <1>6. e \in Locals
    <2>1. <<>> \in Seq(Line) /\ 0 \in Nat
      OBVIOUS
    <2> HIDE DEF d
    <2> QED BY <1>2, <1>5, <2>1, LocalsUpdated
  <1>7. e.conll = <<>> /\ e.numLines = 0 /\ e.trees = d /\ e.numNewlines = 2
    <2> HIDE DEF d
    <2> QED BY <1>1, <1>2 DEF Locals
  <1>8. d = IF l.numLines + 1 < MAX_FACT_LENGTH THEN Append(l.trees, l.conll) ELSE l.trees
    BY <1>1
  <1> HIDE DEF d, e
  <1> QED BY <1>4, <1>6, <1>7, <1>8

LEMMA OwnMore ==
  ASSUME NEW call, NEW s, NEW l \in Locals, NEW m \in Locals, OwnTrees(call, s, l), NEW t,
         t = <<>> \/ t \in Range(Promise!TreesOf(call, s)),
         m.trees = l.trees \/ m.trees = Append(l.trees, t)
  PROVE  OwnTrees(call, s, m)
  <1> DEFINE own == Range(Promise!TreesOf(call, s))
  <1>1. l.trees \in Seq(Seq(Line))
    BY DEF Locals
  <1>2. \A u \in Range(l.trees) : u = <<>> \/ u \in own
    BY DEF OwnTrees
  <1>3. CASE m.trees = l.trees
    BY <1>2, <1>3 DEF OwnTrees
  <1>4. CASE m.trees = Append(l.trees, t)
    <2>1. ASSUME NEW u \in Range(m.trees) PROVE u = t \/ u \in Range(l.trees)
      <3>1. PICK x \in DOMAIN m.trees : u = m.trees[x]
        BY DEF Range
      <3>2. m.trees \in Seq(Seq(Line)) /\ Len(m.trees) = Len(l.trees) + 1
        BY <1>1, <1>4 DEF Locals
      <3>3. x \in 1 .. Len(l.trees) + 1
        BY <3>1, <3>2
      <3>4. CASE x = Len(l.trees) + 1
        <4>1. m.trees[x] = t
          <5> DEFINE before == l.trees
          <5>1. before \in Seq(Seq(Line))
            BY <1>1
          <5> HIDE DEF before
          <5>2. Append(before, t)[Len(before) + 1] = t
            BY <5>1
          <5> QED BY <1>4, <3>4, <5>2 DEF before
        <4> QED BY <3>1, <4>1
      <3>5. CASE x \in 1 .. Len(l.trees)
        <4>1. m.trees[x] = l.trees[x]
          BY <1>1, <1>4, <3>5
        <4>2. x \in DOMAIN l.trees
          BY <1>1, <3>5
        <4> QED BY <3>1, <4>1, <4>2 DEF Range
      <3> QED BY <1>1, <3>3, <3>4, <3>5
    <2> HIDE DEF own
    <2> QED BY <1>2, <2>1, Zenon DEF OwnTrees, own
  <1> QED BY <1>3, <1>4

LEMMA ReadWaiting ==
  ASSUME NEW call, NEW s, NEW cs, NEW in, NEW rest, NEW l \in Locals,
         Waiting(call, s, cs, in, rest, l), rest # <<>>
  PROVE  /\ Head(rest) = NL
         /\ Waiting(call, s, cs, in, Tail(rest), Step(l, Head(rest)))
         /\ Step(l, Head(rest)).trees = l.trees
  <1>1. rest \in Seq({NL}) /\ Len(rest) >= 1 /\ l.numNewlines + Len(rest) <= 1 /\ ~AllHealthy(cs)
    BY DEF Waiting
  <1>2. l.numNewlines = 0 /\ Len(rest) = 1
    <2> DEFINE newlines == l.numNewlines
               length == Len(rest)
    <2>1. newlines \in Nat /\ length \in Nat /\ length >= 1 /\ newlines + length <= 1
      BY <1>1 DEF Locals
    <2> HIDE DEF newlines, length
    <2>2. newlines = 0 /\ length = 1
      BY <2>1
    <2> QED BY <2>2 DEF newlines, length
  <1>3. Head(rest) = NL /\ Tail(rest) \in Seq({NL}) /\ Len(Tail(rest)) = 0
    BY <1>1, <1>2
  <1>4. /\ Step(l, NL).conll = l.conll /\ Step(l, NL).trees = l.trees
        /\ Step(l, NL).numNewlines = 1
    BY <1>2, StepNewline
  <1> QED BY <1>1, <1>3, <1>4 DEF Waiting

LEMMA ReadEnd ==
  ASSUME NEW call, NEW s, NEW cs, NEW in, NEW rest, NEW l \in Locals,
         AtEnd(call, s, cs, in, rest, l), rest # <<>>, l.numNewlines < 3
  PROVE  /\ Head(rest) = NL
         /\ AtEnd(call, s, cs, in, Tail(rest), Step(l, Head(rest)))
         /\ \/ Step(l, Head(rest)).trees = l.trees
            \/ Step(l, Head(rest)).trees = Append(l.trees, <<>>)
  <1>1. /\ in = <<>> /\ l.conll = <<>> /\ rest \in Seq({NL}) /\ Len(rest) >= 1
        /\ l.numNewlines + Len(rest) <= 4 /\ l.numNewlines \in Nat
    BY DEF AtEnd, Locals
  <1>2. Head(rest) = NL /\ Tail(rest) \in Seq({NL}) /\ Len(Tail(rest)) = Len(rest) - 1
    BY <1>1
  <1>3. CASE l.numNewlines = 1
    <2>1. ~AllHealthy(cs)
      BY <1>3 DEF AtEnd
    <2>2. /\ Step(l, NL).conll = <<>> /\ Step(l, NL).numNewlines = 2
          /\ Step(l, NL).trees = l.trees \/ Step(l, NL).trees = Append(l.trees, <<>>)
      <3>1. Step(l, NL).trees = IF l.numLines + 1 < MAX_FACT_LENGTH
                                THEN Append(l.trees, l.conll) ELSE l.trees
        BY <1>3, StepTree
      <3> QED BY <1>1, <1>3, <3>1, StepTree
    <2> QED BY <1>1, <1>2, <1>3, <2>1, <2>2 DEF AtEnd
  <1>4. CASE l.numNewlines # 1
    <2>1. /\ Step(l, NL).conll = l.conll /\ Step(l, NL).trees = l.trees
          /\ Step(l, NL).numNewlines = l.numNewlines + 1
      BY <1>4, StepNewline
    <2> QED BY <1>1, <1>2, <2>1 DEF AtEnd
  <1> QED BY <1>3, <1>4

(* The line of a tree, or its newline, or what follows the last tree.      *)
LEMMA ReadTree ==
  ASSUME NEW call \in Callers \X Nat, NEW s, Wellformed(s), NEW cs, Allowed(cs, s),
         NEW in, NEW rest, NEW l \in Locals, InSomeTree(call, s, cs, in, rest, l)
  PROVE  /\ \/ InSomeTree(call, s, cs, in, Tail(rest), Step(l, Head(rest)))
            \/ AtEnd(call, s, cs, in, Tail(rest), Step(l, Head(rest)))
         /\ \/ Step(l, Head(rest)).trees = l.trees
            \/ \E i \in 1 .. Len(s.trees) :
                 Step(l, Head(rest)).trees = Append(l.trees, Tree(call, s, i))
  <1>a. PICK i \in 1 .. Len(s.trees) : \E j \in 0 .. s.trees[i], late \in {<<>>, <<NL>>} :
          InTree(call, s, cs, in, rest, l, i, j, late)
    BY DEF InSomeTree
  <1>b. PICK j \in 0 .. s.trees[i], late \in {<<>>, <<NL>>} :
          InTree(call, s, cs, in, rest, l, i, j, late)
    BY <1>a
  <1> SUFFICES /\ Head(rest) \in Symbol
               /\ \/ InSomeTree(call, s, cs, in, Tail(rest), Step(l, Head(rest)))
                  \/ AtEnd(call, s, cs, in, Tail(rest), Step(l, Head(rest)))
               /\ \/ Step(l, Head(rest)).trees = l.trees
                  \/ Step(l, Head(rest)).trees = Append(l.trees, Tree(call, s, i))
    OBVIOUS
  <1> DEFINE n == Len(s.trees)
             texts == Output(call, s)
             m == s.trees[i]
             tree == Tree(call, s, i)
             ahead == Ahead(texts, i, j)
             trees == Promise!TreesOf(call, s)
  <1>1. /\ texts \in Seq(Seq(Symbol)) /\ Len(texts) > n /\ n \in Nat
        /\ m \in Nat \ {0} /\ tree \in Seq(Line) /\ Len(tree) = m
        /\ Len(texts[i]) = m + (IF s.short THEN 2 ELSE 1)
        /\ \A k \in 1 .. m : texts[i][k] = tree[k]
        /\ \A k \in m + 1 .. Len(texts[i]) : texts[i][k] = NL
        /\ From(texts, n + 1) = Ending(s)
        /\ \A k \in 1 .. n : s.trees[k] \in Nat \ {0} /\ Tree(call, s, k) \in Seq(Line)
    <2>1. Seq(Text) \subseteq Seq(Seq(Symbol))
      BY DEF Text
    <2>2. texts \in Seq(Seq(Symbol))
      BY <2>1, OutputProperties
    <2>3. \A k \in 1 .. n : s.trees[k] \in Nat \ {0} /\ Tree(call, s, k) \in Seq(Line)
      BY OutputProperties
    <2> QED BY <2>2, <2>3, OutputProperties
  <1>2. i \in 1 .. n /\ i \in 1 .. Len(texts) /\ j \in 0 .. m /\ n \in Nat /\ m \in Nat \ {0}
    BY <1>1
  <1>3. /\ \A k \in 0 .. Len(texts[i]) : Ahead(texts, i, k) \in Seq(Symbol)
        /\ \A k \in 0 .. Len(texts[i]) - 1 :
             /\ Ahead(texts, i, k) # <<>>
             /\ Head(Ahead(texts, i, k)) = texts[i][k + 1]
             /\ Tail(Ahead(texts, i, k)) = Ahead(texts, i, k + 1)
        /\ Ahead(texts, i, Len(texts[i])) = Flat(From(texts, i + 1))
        /\ i < n => Ahead(texts, i, Len(texts[i])) = Ahead(texts, i + 1, 0)
    <2>1. i < n => i \in 1 .. Len(texts) - 1
      BY <1>1, <1>2
    <2>2. texts \in Seq(Seq(Symbol)) /\ i \in 1 .. Len(texts)
      BY <1>1, <1>2
    <2> HIDE DEF texts, n
    <2>3. i < n => Ahead(texts, i, Len(texts[i])) = Ahead(texts, i + 1, 0)
      BY <2>1, <2>2, AheadProperties
    <2> QED BY <2>2, <2>3, AheadProperties
  <1>4. /\ in = <<>> /\ rest = late \o ahead
        /\ late # <<>> => late = <<NL>> /\ i = 1 /\ j = 0 /\ l.numNewlines = 0 /\ ~AllHealthy(cs)
        /\ l.conll = SubSeq(tree, 1, j)
        /\ j > 0 => l.numNewlines = 1
        /\ j = 0 /\ i > 1 => l.numNewlines = 2
        /\ j = 0 /\ i = 1 => l.numNewlines \in {0, 1}
        /\ AllHealthy(cs) => /\ l.numLines = j /\ l.trees = FittingTo(trees, i - 1)
                             /\ i = 1 /\ j = 0 => l.numNewlines = 0
    BY <1>b DEF InTree
  <1>9. /\ trees \in Seq(Seq(Line)) /\ Len(trees) = n
        /\ \A k \in 1 .. n : trees[k] = Tree(call, s, k)
    <2>1. s.trees \in Seq(Nat \ {0}) /\ DOMAIN s.trees = 1 .. n
      BY DEF Wellformed, Sentence
    <2>2. trees = [k \in 1 .. n |-> Tree(call, s, k)]
      BY <2>1, Zenon DEF Promise!TreesOf, Tree
    <2>3. \A k \in 1 .. n : Tree(call, s, k) \in Seq(Line)
      BY OutputProperties
    <2> HIDE DEF trees, n
    <2>4. \A k \in 1 .. n : trees[k] = Tree(call, s, k)
      BY <2>2, Zenon
    <2>5. trees = [k \in 1 .. n |-> trees[k]]
      BY <2>2, <2>4
    <2>6. \A k \in 1 .. n : trees[k] \in Seq(Line)
      BY <2>3, <2>4
    <2>7. trees \in [1 .. n -> Seq(Line)]
      BY <2>5, <2>6, Zenon
    <2> QED BY <1>1, <2>4, <2>7, LenProperties
  <1>5. ahead \in Seq(Symbol) /\ ahead # <<>>
    <2>1. j \in 0 .. Len(texts[i]) - 1 /\ j \in 0 .. Len(texts[i])
      BY <1>1, <1>2, SMTT(30)
    <2> QED BY <1>3, <2>1
  <1> HIDE DEF texts, tree, n, m, trees
  (* A newline of an earlier response.                                     *)
  <1>6. CASE late # <<>>
    <2>1. late = <<NL>> /\ i = 1 /\ j = 0 /\ l.numNewlines = 0 /\ ~AllHealthy(cs)
      BY <1>4, <1>6
    <2>2. <<NL>> \in Seq(Symbol) /\ <<NL>> # <<>> /\ Head(<<NL>>) = NL /\ Tail(<<NL>>) = <<>>
      BY DEF Symbol
    <2>3. Head(rest) = NL /\ Tail(rest) = <<>> \o ahead
      BY <1>4, <1>5, <2>1, <2>2, HeadConcat
    <2>4. /\ Step(l, NL).conll = l.conll /\ Step(l, NL).trees = l.trees
          /\ Step(l, NL).numNewlines = 1
      BY <2>1, StepNewline
    <2>5. InTree(call, s, cs, in, Tail(rest), Step(l, NL), i, j, <<>>)
      BY <1>4, <2>1, <2>3, <2>4 DEF InTree, texts, tree
    <2>6. InSomeTree(call, s, cs, in, Tail(rest), Step(l, NL))
      BY <2>5 DEF InSomeTree
    <2> QED BY <2>3, <2>4, <2>6 DEF Symbol
  <1>7. CASE late = <<>> /\ j < m
    <2>1. rest = ahead
      BY <1>4, <1>5, <1>7, ConcatEmptySeq
    <2>2. j \in 0 .. Len(texts[i]) - 1 /\ j + 1 \in 1 .. m /\ j + 1 \in 0 .. m
      <3>1. Len(texts[i]) = m + (IF s.short THEN 2 ELSE 1)
        BY <1>1
      <3> QED BY <1>2, <1>7, <3>1
    <2>3. Head(rest) = tree[j + 1] /\ Tail(rest) = Ahead(texts, i, j + 1)
      BY <1>1, <1>3, <2>1, <2>2
    <2>4. Head(rest) \in Line
      BY <1>1, <2>2, <2>3
    <2>5. /\ Step(l, Head(rest)).conll = Append(l.conll, Head(rest))
          /\ Step(l, Head(rest)).numLines = l.numLines + 1
          /\ Step(l, Head(rest)).numNewlines = 1
          /\ Step(l, Head(rest)).trees = l.trees
      BY <2>4, StepLine
    <2>6. Append(SubSeq(tree, 1, j), tree[j + 1]) = SubSeq(tree, 1, j + 1)
      BY <1>1, <2>2
    <2>7. Tail(rest) = <<>> \o Ahead(texts, i, j + 1)
      <3>1. j + 1 \in 0 .. Len(texts[i])
        BY <1>1, <2>2
      <3>2. Ahead(texts, i, j + 1) \in Seq(Symbol)
        BY <1>3, <3>1
      <3> QED BY <2>3, <3>2, ConcatEmptySeq
    <2>8. InTree(call, s, cs, in, Tail(rest), Step(l, Head(rest)), i, j + 1, <<>>)
      <3>1. j + 1 > 0 /\ j + 1 # 0
        BY <1>2, <1>1
      <3>2. AllHealthy(cs) => l.numLines = j /\ l.trees = FittingTo(trees, i - 1)
        BY <1>4
      <3> QED BY <1>4, <2>3, <2>5, <2>6, <2>7, <3>1, <3>2 DEF InTree, texts, tree, trees
    <2>9. InSomeTree(call, s, cs, in, Tail(rest), Step(l, Head(rest)))
      BY <1>2, <2>2, <2>8 DEF InSomeTree, m, n
    <2> QED BY <2>4, <2>5, <2>9 DEF Symbol
  (* The newline behind a tree.                                            *)
  <1>8. CASE late = <<>> /\ j = m
    <2>1. rest = ahead
      BY <1>4, <1>5, <1>8, ConcatEmptySeq
    <2>2. /\ m \in 0 .. Len(texts[i]) - 1 /\ m + 1 \in m + 1 .. Len(texts[i])
          /\ m + 1 \in 0 .. Len(texts[i])
      BY <1>1
    <2>3. Head(rest) = NL /\ Tail(rest) = Ahead(texts, i, m + 1)
      BY <1>1, <1>3, <1>8, <2>1, <2>2
    <2>4. l.numNewlines = 1 /\ l.conll = tree
      <3>1. SubSeq(tree, 1, Len(tree)) = tree
        BY <1>1
      <3> QED BY <1>1, <1>4, <1>8, <3>1
    <2>5. /\ Step(l, NL).conll = <<>> /\ Step(l, NL).numLines = 0 /\ Step(l, NL).numNewlines = 2
          /\ Step(l, NL).trees = IF l.numLines + 1 < MAX_FACT_LENGTH THEN Append(l.trees, tree) ELSE l.trees
      BY <2>4, StepTree
    <2>6. AllHealthy(cs) => Step(l, NL).trees = FittingTo(trees, i)
      <3> SUFFICES ASSUME AllHealthy(cs) PROVE Step(l, NL).trees = FittingTo(trees, i)
        OBVIOUS
      <3>1. l.numLines = Len(trees[i]) /\ l.trees = FittingTo(trees, i - 1) /\ trees[i] = tree
        <4>1. trees[i] = tree
          BY <1>2, <1>9 DEF tree
        <4> QED BY <1>1, <1>4, <1>8, <4>1
      <3>2. trees \in Seq(Seq(Line)) /\ i \in 1 .. Len(trees)
        BY <1>2, <1>9
      <3>3. FittingTo(trees, i) = IF Len(trees[i]) + 1 < MAX_FACT_LENGTH
                                  THEN Append(FittingTo(trees, i - 1), trees[i])
                                  ELSE FittingTo(trees, i - 1)
        BY <3>2, FittingRows
      <3> QED BY <2>5, <3>1, <3>3
    <2>7. CASE i < n
      <3>1. ~s.short
        <4> SUFFICES ASSUME s.short PROVE FALSE
          OBVIOUS
        <4>1. s.trees = <<1>>
          BY DEF Wellformed
        <4>2. n = 1
          BY <4>1 DEF n
        <4> QED BY <1>2, <2>7, <4>2
      <3>2. Len(texts[i]) = m + 1
        BY <1>1, <3>1
      <3>3. Tail(rest) = Ahead(texts, i + 1, 0) /\ Tail(rest) \in Seq(Symbol)
        BY <1>3, <2>2, <2>3, <2>7, <3>2
      <3>4. Tail(rest) = <<>> \o Ahead(texts, i + 1, 0)
        BY <3>3, ConcatEmptySeq
      <3>5. i + 1 \in 1 .. n /\ i + 1 > 1 /\ i + 1 # 1 /\ (i + 1) - 1 = i
        BY <1>2, <2>7
      <3>6. s.trees[i + 1] \in Nat \ {0} /\ 0 \in 0 .. s.trees[i + 1]
        BY <1>1, <3>5
      <3>7. SubSeq(Tree(call, s, i + 1), 1, 0) = <<>>
        <4>1. Tree(call, s, i + 1) \in Seq(Line)
          BY <1>1, <3>5
        <4> QED BY <4>1
      <3>8. InTree(call, s, cs, in, Tail(rest), Step(l, NL), i + 1, 0, <<>>)
        BY <1>4, <2>5, <2>6, <3>4, <3>5, <3>7 DEF InTree, texts, trees
      <3>9. InSomeTree(call, s, cs, in, Tail(rest), Step(l, NL))
        BY <3>5, <3>6, <3>8 DEF InSomeTree, n
      <3> QED BY <2>3, <2>5, <3>9 DEF Symbol, tree
    <2>8. CASE i = n
      <3>1. Flat(From(texts, i + 1)) = IF s.fails THEN <<NL, NL>> ELSE <<NL>>
        BY <1>1, <2>8, EndingFlat
      <3>2. CASE s.short
        <4>1. ~s.fails /\ ~AllHealthy(cs)
          BY <3>2 DEF Wellformed, Whole, Allowed
        <4>2. Len(texts[i]) = m + 2 /\ m + 1 \in 0 .. Len(texts[i]) - 1 /\ m + 2 \in m + 1 .. Len(texts[i])
          BY <1>1, <3>2
        <4>3. /\ Tail(rest) \in Seq(Symbol) /\ Tail(rest) # <<>>
              /\ Head(Tail(rest)) = NL /\ Tail(Tail(rest)) = <<NL>>
          <5>1. (m + 1) + 1 = m + 2
            BY <1>2
          <5>2. m + 1 \in 0 .. Len(texts[i])
            BY <1>2, <4>2
          <5>3. Tail(rest) \in Seq(Symbol)
            BY <1>3, <2>3, <5>2
          <5>4. Tail(rest) # <<>> /\ Head(Tail(rest)) = texts[i][m + 2]
                /\ Tail(Tail(rest)) = Ahead(texts, i, m + 2)
            BY <1>3, <2>3, <4>2, <5>1
          <5>5. texts[i][m + 2] = NL
            BY <1>1, <4>2
          <5>6. Ahead(texts, i, m + 2) = <<NL>>
            BY <1>3, <3>1, <4>1, <4>2
          <5> QED BY <5>3, <5>4, <5>5, <5>6
        <4>4. Tail(rest) \in Seq({NL}) /\ Len(Tail(rest)) = 2
          <5> DEFINE left == Tail(rest)
          <5>1. left \in Seq(Symbol) /\ left # <<>> /\ Head(left) = NL /\ Tail(left) = <<NL>>
            BY <4>3
          <5> HIDE DEF left
          <5>2. Len(Tail(left)) = 1 /\ Tail(left)[1] = NL
            <6>1. Len(<<NL>>) = 1 /\ <<NL>>[1] = NL
              OBVIOUS
            <6> QED BY <5>1, <6>1, Zenon
          <5>3. Len(left) = 2 /\ left[1] = NL /\ left[2] = Tail(left)[1]
            <6>1. /\ Len(Tail(left)) = Len(left) - 1 /\ Head(left) = left[1] /\ Len(left) \in Nat
                  /\ \A k \in 1 .. Len(Tail(left)) : Tail(left)[k] = left[k + 1]
              <7>1. left \in Seq(Symbol) /\ left # <<>>
                BY <5>1
              <7> QED BY <7>1
            <6> QED BY <5>1, <5>2, <6>1
          <5>4. left \in Seq({NL})
            <6>1. \A k \in 1 .. Len(left) : left[k] \in {NL}
              <7>1. left[1] = NL /\ left[2] = NL
                BY <5>2, <5>3, Zenon
              <7>2. 1 .. Len(left) = {1, 2}
                BY <5>3
              <7> QED BY <7>1, <7>2
            <6>2. left \in [1 .. Len(left) -> {NL}] /\ Len(left) \in Nat
              BY <5>1, <6>1
            <6> QED BY <6>2
          <5> QED BY <5>3, <5>4 DEF left
        <4>5. AtEnd(call, s, cs, in, Tail(rest), Step(l, NL))
          BY <1>4, <2>5, <4>1, <4>4 DEF AtEnd
        <4> QED BY <2>3, <2>5, <4>5 DEF Symbol, tree
      <3>3. CASE ~s.short
        <4>1. Tail(rest) = IF s.fails THEN <<NL, NL>> ELSE <<NL>>
          BY <1>1, <1>3, <2>3, <3>1, <3>3
        <4>2. /\ Tail(rest) \in Seq({NL}) /\ Len(Tail(rest)) \in {1, 2}
              /\ ~s.fails => Len(Tail(rest)) = 1
          <5> DEFINE left == Tail(rest)
          <5>1. left = IF s.fails THEN <<NL, NL>> ELSE <<NL>>
            BY <4>1
          <5> HIDE DEF left
          <5>2. /\ <<NL, NL>> \in Seq({NL}) /\ Len(<<NL, NL>>) = 2
                /\ <<NL>> \in Seq({NL}) /\ Len(<<NL>>) = 1
            OBVIOUS
          <5>3. left \in Seq({NL}) /\ Len(left) \in {1, 2} /\ (~s.fails => Len(left) = 1)
            BY <5>1, <5>2
          <5> QED BY <5>3 DEF left
        <4>3. AllHealthy(cs) => Step(l, NL).trees = Promise!Answer(call, s) /\ Len(Tail(rest)) = 1
          <5> SUFFICES ASSUME AllHealthy(cs)
                       PROVE  Step(l, NL).trees = Promise!Answer(call, s) /\ Len(Tail(rest)) = 1
            OBVIOUS
          <5>1. ~s.fails
            BY DEF Whole, Allowed
          <5>2. Promise!Answer(call, s) = FittingTo(trees, Len(trees))
            <6>1. Promise!Answer(call, s) = Promise!Fitting(trees)
              BY <5>1, Zenon DEF Promise!Answer, trees
            <6> QED BY <1>9, <6>1, FittingRows
          <5> QED BY <1>9, <2>6, <2>8, <4>2, <5>1, <5>2
        <4>4. AtEnd(call, s, cs, in, Tail(rest), Step(l, NL))
          BY <1>4, <2>5, <4>2, <4>3 DEF AtEnd
        <4> QED BY <2>3, <2>5, <4>4 DEF Symbol, tree
      <3> QED BY <3>2, <3>3
    <2> QED BY <1>2, <2>7, <2>8
  <1>10. j < m \/ j = m
    BY <1>2
  <1> QED BY <1>6, <1>7, <1>8, <1>10

-------------------------------------------------------------------------------
(* The inductive invariant                                                 *)

CallOf(c) == <<c, Asked(c)>>
SentenceOf(c) == calls[c][Asked(c)]

(* What is on its way back, and what the child will print.                 *)
Rest == childOut \o Flat(printing)

TypeCorrect ==
  /\ calls \in [Callers -> Programs]
  /\ answers \in [Callers -> Seq(Seq(Seq(Line)))]
  /\ lock \in Callers \cup {None}
  /\ pc \in [Callers -> {"idle", "mode", "sentence", "read"}]
  /\ childOut \in Seq(Symbol)
  /\ printing \in Seq(Text)
  /\ local \in [Callers -> Locals]

(* A thread inside annotate() holds the mutex and has a sentence.          *)
Exclusive ==
  \A c \in Callers : /\ (pc[c] # "idle") = (lock = c)
                     /\ Len(answers[c]) <= Len(calls[c])
                     /\ pc[c] # "idle" => Len(answers[c]) < Len(calls[c])

(* Nothing but a newline is left behind by the calls that have returned.   *)
Leftover ==
  /\ Rest \in Seq({NL}) /\ Len(Rest) <= 1
  /\ Healthy => Rest = <<>>

Framed ==
  /\ lock = None => childIn = <<>> /\ Leftover
  /\ \A c \in Callers :
       /\ pc[c] = "mode" => childIn = <<>> /\ Leftover /\ local[c] = Fresh
       /\ pc[c] = "sentence" =>
            childIn = <<SentenceOf(c).mode>> /\ Leftover /\ local[c] = Fresh
       /\ pc[c] = "read" =>
            /\ Place(CallOf(c), SentenceOf(c), calls, childIn, Rest, local[c])
            /\ OwnTrees(CallOf(c), SentenceOf(c), local[c])

BridgeInv == TypeCorrect /\ Exclusive /\ Framed /\ NoMixing

LEMMA ResponseOutput ==
  ASSUME NEW c, NEW k
  PROVE  Response(<<c, k>>) = Output(<<c, k>>, calls[c][k])
  <1>1. <<c, k>>[1] = c /\ <<c, k>>[2] = k
    OBVIOUS
  <1> QED BY <1>1, Zenon DEF Response, Output, Tree

(* The sentences of the calls.                                             *)
LEMMA SentencesRight ==
  ASSUME TypeCorrect, NEW c \in Callers, NEW k \in 1 .. Len(calls[c])
  PROVE  Wellformed(calls[c][k]) /\ (Healthy => Whole(calls[c][k]))
  <1>1. calls[c] \in Programs
    BY DEF TypeCorrect
  <1>2. calls[c] \in Seq(Sentence) /\ \A s \in Range(calls[c]) : s.short => s.trees = <<1>> /\ ~s.fails
    BY <1>1, ProgramsAssumption
  <1>3. calls[c][k] \in Sentence /\ calls[c][k] \in Range(calls[c])
    <2>1. k \in DOMAIN calls[c]
      BY <1>2
    <2> QED BY <1>2, <2>1 DEF Range
  <1>4. Wellformed(calls[c][k])
    BY <1>2, <1>3 DEF Wellformed
  <1>5. Healthy => Whole(calls[c][k])
    BY <1>3 DEF Healthy, Whole
  <1> QED BY <1>4, <1>5

(* A thread inside annotate() has asked for a sentence of its program.     *)
LEMMA AskedRight ==
  ASSUME TypeCorrect, Exclusive, NEW c \in Callers, pc[c] # "idle"
  PROVE  /\ Asked(c) = Len(answers[c]) + 1 /\ Asked(c) \in 1 .. Len(calls[c])
         /\ CallOf(c) \in Callers \X Nat
         /\ Wellformed(SentenceOf(c)) /\ (Healthy => Whole(SentenceOf(c)))
  <1>1. Asked(c) = Len(answers[c]) + 1
    BY DEF Asked
  <1>2. Len(answers[c]) \in Nat /\ Len(calls[c]) \in Nat /\ Len(answers[c]) < Len(calls[c])
    <2>1. calls[c] \in Seq(Sentence)
      BY ProgramsAssumption DEF TypeCorrect
    <2>2. answers[c] \in Seq(Seq(Seq(Line)))
      BY DEF TypeCorrect
    <2>3. Len(answers[c]) < Len(calls[c])
      BY DEF Exclusive
    <2> QED BY <2>1, <2>2, <2>3
  <1>3. Asked(c) \in 1 .. Len(calls[c]) /\ Asked(c) \in Nat
    BY <1>1, <1>2
  <1>4. CallOf(c) \in Callers \X Nat
    BY <1>3 DEF CallOf
  <1>5. Wellformed(SentenceOf(c)) /\ (Healthy => Whole(SentenceOf(c)))
    BY <1>3, SentencesRight DEF SentenceOf
  <1> QED BY <1>1, <1>3, <1>4, <1>5

LEMMA RestType ==
  ASSUME TypeCorrect
  PROVE  /\ Flat(printing) \in Seq(Symbol) /\ Rest \in Seq(Symbol)
         /\ printing \in Seq(Seq(Symbol))
         /\ Rest = <<>> => childOut = <<>> /\ printing = <<>>
  <1>1. printing \in Seq(Seq(Symbol)) /\ childOut \in Seq(Symbol)
    <2>1. Seq(Text) \subseteq Seq(Seq(Symbol))
      BY DEF Text
    <2> QED BY <2>1 DEF TypeCorrect
  <1>2. Flat(printing) \in Seq(Symbol)
    BY <1>1, FlatProperties
  <1>3. Rest \in Seq(Symbol)
    BY <1>1, <1>2 DEF Rest
  <1>4. ASSUME Rest = <<>> PROVE childOut = <<>> /\ printing = <<>>
    <2>1. childOut = <<>>
      <3> SUFFICES ASSUME childOut # <<>> PROVE FALSE
        OBVIOUS
      <3> QED BY <1>1, <1>2, <1>4, HeadConcat DEF Rest
    <2>2. Flat(printing) = <<>>
      BY <1>2, <1>4, <2>1, ConcatEmptySeq DEF Rest
    <2>3. printing = <<>>
      <3> SUFFICES ASSUME printing # <<>> PROVE FALSE
        OBVIOUS
      <3>1. Head(printing) \in Text /\ Tail(printing) \in Seq(Seq(Symbol))
        BY <1>1 DEF TypeCorrect
      <3>2. Head(printing) \in Seq(Symbol) /\ Head(printing) # <<>>
        BY <3>1 DEF Text
      <3>3. Flat(Tail(printing)) \in Seq(Symbol)
        BY <3>1, FlatProperties
      <3>4. Flat(printing) = Head(printing) \o Flat(Tail(printing))
        BY <1>1, FlatProperties
      <3>5. Head(printing) \o Flat(Tail(printing)) # <<>>
        BY <3>2, <3>3, HeadConcat
      <3> QED BY <2>2, <3>4, <3>5, Zenon
    <2> QED BY <2>1, <2>3
  <1> QED BY <1>1, <1>2, <1>3, <1>4

LEMMA BridgeInit == Init => BridgeInv
  <1> SUFFICES ASSUME Init PROVE BridgeInv
    OBVIOUS
  <1>1. TypeCorrect
    <2>1. Fresh \in Locals
      BY DEF Fresh, Locals
    <2> HIDE DEF Fresh
    <2>2. <<>> \in Seq(Seq(Seq(Line))) /\ <<>> \in Seq(Symbol) /\ <<>> \in Seq(Text)
      OBVIOUS
    <2> QED BY <2>1, <2>2 DEF Init, TypeCorrect
  <1>2. ASSUME NEW c \in Callers PROVE calls[c] \in Seq(Sentence) /\ Len(calls[c]) >= 0
    <2>1. calls[c] \in Seq(Sentence)
      BY ProgramsAssumption DEF Init
    <2> QED BY <2>1
  <1>3. Exclusive
    BY <1>2, NoneAssumption DEF Init, Exclusive
  <1>4. Rest = <<>>
    <2>1. Flat(<<>>) = <<>>
      <3>1. <<>> \in Seq(Seq(Symbol))
        OBVIOUS
      <3> QED BY <3>1, FlatProperties, Zenon
    <2>2. <<>> \o <<>> = <<>>
      OBVIOUS
    <2> QED BY <2>1, <2>2, Zenon DEF Init, Rest
  <1>5. Leftover
    <2>1. <<>> \in Seq({NL}) /\ Len(<<>>) <= 1
      OBVIOUS
    <2> QED BY <1>4, <2>1, Zenon DEF Leftover
  <1>6. Framed
    BY <1>5 DEF Init, Framed
  <1>7. NoMixing
    BY DEF Init, NoMixing
  <1> QED BY <1>1, <1>3, <1>6, <1>7 DEF BridgeInv

(* Only the thread that holds the mutex is inside annotate().              *)
LEMMA OthersIdle ==
  ASSUME Exclusive, NEW c \in Callers, pc[c] # "idle", NEW d \in Callers, d # c
  PROVE  pc[d] = "idle" /\ lock = c /\ lock # None
  BY NoneAssumption DEF Exclusive

LEMMA AcquireStep ==
  ASSUME BridgeInv, NEW c \in Callers, Acquire(c)
  PROVE  BridgeInv'
  <1> USE DEF BridgeInv
  <1>1. TypeCorrect'
    <2>1. Fresh \in Locals
      BY DEF Fresh, Locals
    <2> HIDE DEF Fresh
    <2> QED BY <2>1 DEF Acquire, TypeCorrect
  <1>2. Exclusive'
    BY NoneAssumption DEF Acquire, Exclusive, TypeCorrect
  <1>3. Leftover' /\ childIn' = <<>>
    <2>1. Leftover /\ childIn = <<>>
      BY DEF Acquire, Framed
    <2>2. Rest' = Rest /\ Healthy' = Healthy
      BY DEF Acquire, Rest, Healthy
    <2> QED BY <2>1, <2>2 DEF Acquire, Leftover
  <1>4. Framed'
    <2>1. pc'[c] = "mode" /\ local'[c] = Fresh /\ lock' = c
      BY DEF Acquire, TypeCorrect
    <2>2. ASSUME NEW d \in Callers, d # c PROVE pc'[d] = "idle"
      BY <2>2, NoneAssumption DEF Acquire, TypeCorrect, Exclusive
    <2> HIDE DEF BridgeInv
    <2> QED BY <1>3, <2>1, <2>2, NoneAssumption DEF Framed
  <1>5. NoMixing'
    BY DEF Acquire, NoMixing
  <1> QED BY <1>1, <1>2, <1>4, <1>5

LEMMA WriteModeStep ==
  ASSUME BridgeInv, NEW c \in Callers, WriteMode(c)
  PROVE  BridgeInv'
  <1> USE DEF BridgeInv
  <1>1. TypeCorrect'
    BY DEF WriteMode, TypeCorrect
  <1>2. Exclusive'
    BY DEF WriteMode, Exclusive, TypeCorrect
  <1>3. pc[c] = "mode" /\ pc'[c] = "sentence" /\ lock = c /\ lock' = c
    BY DEF WriteMode, Exclusive, TypeCorrect
  <1>4. childIn = <<>> /\ Leftover /\ local[c] = Fresh
    BY <1>3 DEF Framed
  <1>5. Leftover' /\ local'[c] = Fresh
    <2>1. Rest' = Rest /\ Healthy' = Healthy /\ local' = local
      BY DEF WriteMode, Rest, Healthy
    <2> QED BY <1>4, <2>1 DEF Leftover
  <1>6. childIn' = <<SentenceOf(c).mode>>'
    <2>1. SentenceOf(c)' = SentenceOf(c)
      BY <1>3 DEF WriteMode, SentenceOf, Asked
    <2>2. childIn' = <<SentenceOf(c).mode>>
      BY <1>4 DEF WriteMode, SentenceOf
    <2> QED BY <2>1, <2>2
  <1>7. Framed'
    <2>1. ASSUME NEW d \in Callers, d # c PROVE pc'[d] = "idle"
      BY <1>3, <2>1, OthersIdle DEF WriteMode
    <2> HIDE DEF BridgeInv
    <2> QED BY <1>3, <1>5, <1>6, <2>1, NoneAssumption DEF Framed
  <1>8. NoMixing'
    BY DEF WriteMode, NoMixing
  <1> QED BY <1>1, <1>2, <1>7, <1>8

LEMMA WriteSentenceStep ==
  ASSUME BridgeInv, NEW c \in Callers, WriteSentence(c)
  PROVE  BridgeInv'
  <1> USE DEF BridgeInv
  <1>1. TypeCorrect'
    BY DEF WriteSentence, TypeCorrect
  <1>2. Exclusive'
    BY DEF WriteSentence, Exclusive, TypeCorrect
  <1>3. pc[c] = "sentence" /\ pc'[c] = "read" /\ lock = c /\ lock' = c
    BY DEF WriteSentence, Exclusive, TypeCorrect
  <1>4. childIn = <<SentenceOf(c).mode>> /\ Leftover /\ local[c] = Fresh
    BY <1>3 DEF Framed
  <1>5. /\ Rest' = Rest /\ calls' = calls /\ local' = local
        /\ SentenceOf(c)' = SentenceOf(c) /\ CallOf(c)' = CallOf(c)
    BY <1>3 DEF WriteSentence, Rest, SentenceOf, CallOf, Asked
  <1>6. childIn' = <<SentenceOf(c).mode, CallOf(c)>>
    <2>1. ASSUME NEW a, NEW b PROVE Append(<<a>>, b) = <<a, b>>
      <3>1. <<a>> \in Seq({a, b}) /\ Len(<<a>>) = 1 /\ <<a>>[1] = a
        OBVIOUS
      <3>2. /\ Append(<<a>>, b) \in Seq({a, b}) /\ Len(Append(<<a>>, b)) = 2
            /\ Append(<<a>>, b)[1] = a /\ Append(<<a>>, b)[2] = b
        BY <3>1
      <3>3. <<a, b>> \in Seq({a, b}) /\ Len(<<a, b>>) = 2 /\ <<a, b>>[1] = a /\ <<a, b>>[2] = b
        OBVIOUS
      <3>4. \A k \in 1 .. 2 : Append(<<a>>, b)[k] = <<a, b>>[k]
        BY <3>2, <3>3
      <3> QED BY <3>2, <3>3, <3>4, SeqEqual
    <2> QED BY <1>4, <2>1 DEF WriteSentence, CallOf
  <1>7. Waiting(CallOf(c), SentenceOf(c), calls, childIn', Rest, local[c])
    <2>1. Fresh.conll = <<>> /\ Fresh.trees = <<>> /\ Fresh.numNewlines = 0 /\ Fresh.numLines = 0
      BY DEF Fresh
    <2>2. Rest \in Seq({NL}) /\ Len(Rest) <= 1 /\ (AllHealthy(calls) => Rest = <<>>) /\ Len(Rest) \in Nat
      BY <1>4 DEF Leftover, Healthy, AllHealthy
    <2> QED BY <1>4, <1>6, <2>1, <2>2 DEF Waiting
  <1>8. OwnTrees(CallOf(c), SentenceOf(c), local[c])
    <2>1. local[c].trees = <<>>
      BY <1>4 DEF Fresh
    <2> QED BY <2>1 DEF OwnTrees, Range
  <1>9. Framed'
    <2>1. ASSUME NEW d \in Callers, d # c PROVE pc'[d] = "idle"
      BY <1>3, <2>1, OthersIdle DEF WriteSentence
    <2>2. Place(CallOf(c), SentenceOf(c), calls, childIn, Rest, local[c])'
      BY <1>5, <1>7 DEF Place
    <2>3. OwnTrees(CallOf(c), SentenceOf(c), local[c])'
      BY <1>5, <1>8
    <2> HIDE DEF BridgeInv
    <2> QED BY <1>3, <2>1, <2>2, <2>3, NoneAssumption DEF Framed
  <1>10. NoMixing'
    BY DEF WriteSentence, NoMixing
  <1> QED BY <1>1, <1>2, <1>9, <1>10

LEMMA StepType ==
  ASSUME NEW l \in Locals, NEW symbol \in Symbol
  PROVE  Step(l, symbol) \in Locals
  <1>1. CASE symbol \in Line
    BY <1>1, StepLine
  <1>2. CASE symbol = NL /\ l.numNewlines = 1
    BY <1>2, StepTree
  <1>3. CASE symbol = NL /\ l.numNewlines # 1
    BY <1>3, StepNewline
  <1> QED BY <1>1, <1>2, <1>3 DEF Symbol

(* A symbol is read from the child's output as from what is left of it.    *)
LEMMA ReadStep ==
  ASSUME BridgeInv, NEW c \in Callers, Read(c)
  PROVE  BridgeInv'
  <1> USE DEF BridgeInv
  <1> DEFINE l == local[c]
             call == CallOf(c)
             s == SentenceOf(c)
             m == Step(l, Head(Rest))
  <1>1. /\ pc[c] = "read" /\ lock = c /\ l \in Locals /\ l.numNewlines \in Nat
        /\ l.numNewlines < 3 /\ childOut # <<>>
    <2>1. pc[c] = "read" /\ lock = c /\ childOut # <<>>
      BY DEF Read, Exclusive
    <2>2. l \in Locals
      BY DEF TypeCorrect
    <2>3. l.numNewlines \in Nat
      BY <2>2 DEF Locals
    <2>4. ~(l.numNewlines >= 3)
      BY DEF Read, Complete
    <2> HIDE DEF l
    <2> QED BY <2>1, <2>2, <2>3, <2>4
  <1>2. Head(Rest) = Head(childOut) /\ Rest # <<>> /\ Rest' = Tail(Rest) /\ Head(Rest) \in Symbol
    <2>1. Flat(printing) \in Seq(Symbol) /\ childOut \in Seq(Symbol)
      BY RestType DEF TypeCorrect
    <2>2. /\ Rest # <<>> /\ Head(Rest) = Head(childOut)
          /\ Tail(Rest) = Tail(childOut) \o Flat(printing)
      BY <1>1, <2>1, HeadConcat DEF Rest
    <2>3. Rest' = Tail(childOut) \o Flat(printing)
      BY DEF Read, Rest
    <2>4. Head(childOut) \in Symbol
      BY <1>1, <2>1
    <2> QED BY <2>2, <2>3, <2>4
  <1>3. local' = [local EXCEPT ![c] = m]
    BY <1>2 DEF Read, Step
  <1>4. m \in Locals
    BY <1>1, <1>2, StepType
  <1>5. TypeCorrect'
    <2>1. Tail(childOut) \in Seq(Symbol)
      BY <1>1 DEF TypeCorrect
    <2> HIDE DEF m
    <2> QED BY <1>3, <1>4, <2>1 DEF Read, TypeCorrect
  <1>6. Exclusive'
    BY DEF Read, Exclusive
  <1>7. call \in Callers \X Nat /\ Wellformed(s) /\ Allowed(calls, s)
    BY <1>1, AskedRight DEF Healthy, AllHealthy, Allowed
  <1>8. Place(call, s, calls, childIn, Rest, l) /\ OwnTrees(call, s, l)
    BY <1>1 DEF Framed
  <1>9. Place(call, s, calls, childIn, Tail(Rest), m) /\ OwnTrees(call, s, m)
    <2> HIDE DEF call, s, l
    <2>1. CASE Waiting(call, s, calls, childIn, Rest, l)
      <3>1. Waiting(call, s, calls, childIn, Tail(Rest), m) /\ m.trees = l.trees
        BY <1>1, <1>2, <1>7, <2>1, ReadWaiting
      <3> QED BY <1>8, <3>1 DEF Place, OwnTrees
    <2>2. CASE InSomeTree(call, s, calls, childIn, Rest, l)
      <3>1. /\ \/ InSomeTree(call, s, calls, childIn, Tail(Rest), m)
               \/ AtEnd(call, s, calls, childIn, Tail(Rest), m)
            /\ \/ m.trees = l.trees
               \/ \E i \in 1 .. Len(s.trees) : m.trees = Append(l.trees, Tree(call, s, i))
        BY <1>1, <1>7, <2>2, ReadTree
      <3>2. ASSUME NEW i \in 1 .. Len(s.trees)
            PROVE  Tree(call, s, i) \in Range(Promise!TreesOf(call, s))
        <4>1. s.trees \in Seq(Nat \ {0}) /\ DOMAIN s.trees = 1 .. Len(s.trees)
          BY <1>7 DEF Wellformed, Sentence
        <4>2. /\ i \in DOMAIN Promise!TreesOf(call, s)
              /\ Promise!TreesOf(call, s)[i] = Tree(call, s, i)
          BY <4>1 DEF Promise!TreesOf, Tree
        <4> HIDE DEF m
        <4> QED BY <4>2, Zenon DEF Range
      <3> HIDE DEF m
      <3>3. OwnTrees(call, s, m)
        <4>1. CASE m.trees = l.trees
          BY <1>8, <4>1 DEF OwnTrees
        <4>2. CASE \E i \in 1 .. Len(s.trees) : m.trees = Append(l.trees, Tree(call, s, i))
          BY <1>1, <1>4, <1>8, <3>2, <4>2, OwnMore
        <4> QED BY <3>1, <4>1, <4>2
      <3> QED BY <3>1, <3>3 DEF Place
    <2>3. CASE AtEnd(call, s, calls, childIn, Rest, l)
      <3>1. /\ AtEnd(call, s, calls, childIn, Tail(Rest), m)
            /\ m.trees = l.trees \/ m.trees = Append(l.trees, <<>>)
        BY <1>1, <1>2, <1>7, <2>3, ReadEnd
      <3> HIDE DEF m
      <3> QED BY <1>1, <1>4, <1>8, <3>1, OwnMore DEF Place
    <2> QED BY <1>8, <2>1, <2>2, <2>3 DEF Place
  <1>10. Framed'
    <2>1. ASSUME NEW d \in Callers, d # c PROVE pc'[d] = "idle"
      BY <1>1, <2>1, OthersIdle DEF Read
    <2>2. CallOf(c)' = call /\ SentenceOf(c)' = s /\ calls' = calls /\ childIn' = childIn
      BY DEF Read, CallOf, SentenceOf, Asked
    <2>3. local'[c] = m /\ pc'[c] = "read" /\ lock' = c
      <3> HIDE DEF m
      <3> QED BY <1>1, <1>3 DEF Read, TypeCorrect
    <2>4. Place(CallOf(c), SentenceOf(c), calls, childIn, Rest, local[c])'
      <3> HIDE DEF m, call, s
      <3> QED BY <1>2, <1>9, <2>2, <2>3
    <2>5. OwnTrees(CallOf(c), SentenceOf(c), local[c])'
      <3> HIDE DEF m, call, s
      <3> QED BY <1>9, <2>2, <2>3
    <2> HIDE DEF BridgeInv, m, call, s
    <2> QED BY <2>1, <2>3, <2>4, <2>5, NoneAssumption DEF Framed
  <1>11. NoMixing'
    BY DEF Read, NoMixing
  <1> QED BY <1>5, <1>6, <1>10, <1>11

(* The third newline in a row is behind the last tree.                     *)
LEMMA CompleteAtEnd ==
  ASSUME NEW call, NEW s, NEW cs, NEW in, NEW rest, NEW l \in Locals,
         Place(call, s, cs, in, rest, l), l.numNewlines >= 3
  PROVE  AtEnd(call, s, cs, in, rest, l)
  <1>1. CASE Waiting(call, s, cs, in, rest, l)
    <2>1. rest \in Seq({NL}) /\ l.numNewlines + Len(rest) <= 1
      BY <1>1 DEF Waiting
    <2>2. Len(rest) >= 0 /\ Len(rest) \in Nat
      BY <2>1
    <2>3. l.numNewlines \in Nat
      BY DEF Locals
    <2> DEFINE x == l.numNewlines
               y == Len(rest)
    <2>4. x \in Nat /\ y \in Nat /\ x + y <= 1 /\ x >= 3
      BY <2>1, <2>2, <2>3
    <2> HIDE DEF x, y
    <2> QED BY <2>4
  <1>2. CASE InSomeTree(call, s, cs, in, rest, l)
    <2>1. l.numNewlines \in {0, 1, 2}
      <3>1. PICK i \in 1 .. Len(s.trees) : \E j \in 0 .. s.trees[i], late \in {<<>>, <<NL>>} :
              InTree(call, s, cs, in, rest, l, i, j, late)
        BY <1>2 DEF InSomeTree
      <3>2. PICK j \in 0 .. s.trees[i], late \in {<<>>, <<NL>>} :
              InTree(call, s, cs, in, rest, l, i, j, late)
        BY <3>1
      <3>3. /\ j > 0 => l.numNewlines = 1
            /\ j = 0 /\ i > 1 => l.numNewlines = 2
            /\ j = 0 /\ i = 1 => l.numNewlines \in {0, 1}
        BY <3>2 DEF InTree
      <3> QED BY <3>3
    <2> QED BY <2>1
  <1> QED BY <1>1, <1>2 DEF Place

LEMMA ReleaseStep ==
  ASSUME BridgeInv, NEW c \in Callers, Release(c)
  PROVE  BridgeInv'
  <1> USE DEF BridgeInv
  <1> DEFINE l == local[c]
  <1>1. /\ pc[c] = "read" /\ lock = c /\ l \in Locals /\ l.numNewlines >= 3
        /\ lock' = None /\ pc'[c] = "idle" /\ l.numNewlines \in Nat
    <2>1. l \in Locals
      BY DEF TypeCorrect
    <2>2. l.numNewlines \in Nat
      BY <2>1 DEF Locals
    <2> QED BY <2>1, <2>2 DEF Release, Complete, Exclusive, TypeCorrect
  <1>2. AtEnd(CallOf(c), SentenceOf(c), calls, childIn, Rest, l)
    BY <1>1, CompleteAtEnd DEF Framed
  <1>3. OwnTrees(CallOf(c), SentenceOf(c), l)
    BY <1>1 DEF Framed
  <1>4. answers' = [answers EXCEPT ![c] = Append(@, l.trees)]
    BY DEF Release
  <1>5. /\ Asked(c) = Len(answers[c]) + 1 /\ Asked(c) \in 1 .. Len(calls[c])
        /\ answers[c] \in Seq(Seq(Seq(Line))) /\ l.trees \in Seq(Seq(Line))
    BY <1>1, AskedRight DEF TypeCorrect, Locals
  <1>6. answers'[c] = Append(answers[c], l.trees) /\ Len(answers'[c]) = Asked(c)
    BY <1>4, <1>5 DEF TypeCorrect
  <1>7. TypeCorrect'
    <2>1. Append(answers[c], l.trees) \in Seq(Seq(Seq(Line)))
      BY <1>5
    <2> HIDE DEF l
    <2> QED BY <1>4, <2>1 DEF Release, TypeCorrect
  <1>8. ASSUME NEW d \in Callers PROVE pc'[d] = "idle"
    BY <1>1, OthersIdle DEF Release, TypeCorrect
  <1>9. Exclusive'
    <2>1. ASSUME NEW d \in Callers PROVE Len(answers'[d]) <= Len(calls'[d])
      <3>1. calls' = calls
        BY DEF Release
      <3>2. CASE d = c
        <4>1. Len(calls[c]) \in Nat /\ Len(answers'[c]) <= Len(calls[c])
          BY <1>5, <1>6
        <4> QED BY <3>1, <3>2, <4>1
      <3>3. CASE d # c
        <4>1. answers'[d] = answers[d]
          BY <1>4, <3>3 DEF TypeCorrect
        <4> QED BY <3>1, <4>1 DEF Exclusive
      <3> QED BY <3>2, <3>3
    <2> QED BY <1>1, <1>8, <2>1, NoneAssumption DEF Exclusive
  <1>10. childIn' = <<>> /\ Leftover'
    <2>1. Rest' = Rest /\ Healthy' = Healthy /\ childIn' = childIn
      BY DEF Release, Rest, Healthy
    <2> DEFINE newlines == l.numNewlines
               left == Len(Rest)
    <2>2. /\ childIn = <<>> /\ Rest \in Seq({NL}) /\ newlines + left <= 4
          /\ newlines <= 3 /\ left \in Nat /\ newlines \in Nat /\ newlines >= 3
      BY <1>1, <1>2 DEF AtEnd
    <2>3. Healthy => newlines + left = 3
      BY <1>2 DEF AtEnd, Healthy, AllHealthy
    <2>4. left = 0 => Rest = <<>>
      BY <2>2
    <2> HIDE DEF newlines, left, BridgeInv
    <2>5. left <= 1 /\ (Healthy => left = 0)
      BY <2>2, <2>3
    <2> QED BY <2>1, <2>2, <2>4, <2>5 DEF Leftover, left
  <1>11. Framed'
    <2> HIDE DEF BridgeInv
    <2>1. ASSUME NEW d \in Callers
          PROVE  pc'[d] # "mode" /\ pc'[d] # "sentence" /\ pc'[d] # "read"
      BY <1>8
    <2> QED BY <1>10, <2>1 DEF Framed
  <1>12. NoMixing'
    <2> DEFINE Own(d, k, t) == t = <<>> \/ t \in Range(Promise!TreesOf(<<d, k>>, calls[d][k]))
    <2>1. ASSUME NEW d \in Callers, NEW k \in DOMAIN answers'[d], NEW t \in Range(answers'[d][k])
          PROVE  Own(d, k, t)
      <3>1. CASE d = c /\ k = Asked(c)
        <4>1. answers'[c][k] = l.trees
          <5> DEFINE before == answers[c]
          <5>1. before \in Seq(Seq(Seq(Line))) /\ answers'[c] = Append(before, l.trees) /\ k = Len(before) + 1
            BY <1>5, <1>6, <3>1
          <5> HIDE DEF before, l
          <5> QED BY <5>1
        <4>2. <<d, k>> = CallOf(c) /\ calls[d][k] = SentenceOf(c)
          BY <3>1 DEF CallOf, SentenceOf
        <4>3. t \in Range(l.trees)
          BY <3>1, <4>1
        <4> QED BY <1>3, <4>2, <4>3, Zenon DEF OwnTrees
      <3>2. CASE ~(d = c /\ k = Asked(c))
        <4>1. k \in DOMAIN answers[d] /\ answers'[d][k] = answers[d][k]
          <5>1. CASE d = c
            <6>1. k \in 1 .. Len(answers[c]) + 1 /\ k # Len(answers[c]) + 1
              BY <1>5, <1>6, <3>2, <5>1
            <6>2. k \in 1 .. Len(answers[c])
              BY <1>5, <6>1
            <6> QED BY <1>5, <1>6, <5>1, <6>2
          <5>2. CASE d # c
            <6>1. answers'[d] = answers[d]
              BY <1>4, <5>2 DEF TypeCorrect
            <6> QED BY <6>1
          <5> QED BY <5>1, <5>2
        <4> QED BY <4>1, Zenon DEF NoMixing
      <3> QED BY <3>1, <3>2
    <2>2. calls' = calls
      BY DEF Release
    <2> QED BY <2>1, <2>2, Zenon DEF NoMixing
  <1> QED BY <1>7, <1>9, <1>11, <1>12

(* The child reads a sentence only when its call is waiting.               *)
LEMMA SentenceReady ==
  ASSUME BridgeInv, Len(childIn) >= 2
  PROVE  \E c \in Callers : /\ lock = c /\ pc[c] = "read"
                            /\ Waiting(CallOf(c), SentenceOf(c), calls, childIn, Rest, local[c])
  <1>1. lock # None
    BY DEF BridgeInv, Framed
  <1>2. PICK c \in Callers : lock = c
    BY <1>1 DEF BridgeInv, TypeCorrect
  <1>3. pc[c] \in {"mode", "sentence", "read"}
    BY <1>2 DEF BridgeInv, TypeCorrect, Exclusive
  <1>4. pc[c] # "mode"
    BY DEF BridgeInv, Framed
  <1>5. pc[c] # "sentence"
    <2> SUFFICES ASSUME pc[c] = "sentence" PROVE FALSE
      OBVIOUS
    <2>1. childIn = <<SentenceOf(c).mode>>
      BY DEF BridgeInv, Framed
    <2>2. Len(childIn) = 1
      BY <2>1
    <2> QED BY <2>2
  <1>6. Place(CallOf(c), SentenceOf(c), calls, childIn, Rest, local[c])
    BY <1>3, <1>4, <1>5 DEF BridgeInv, Framed
  <1>7. childIn # <<>>
    OBVIOUS
  <1>8. Waiting(CallOf(c), SentenceOf(c), calls, childIn, Rest, local[c])
    BY <1>6, <1>7 DEF Place, InSomeTree, InTree, AtEnd
  <1> QED BY <1>2, <1>3, <1>4, <1>5, <1>8

(* Its response begins with the first tree, or with the end.               *)
LEMMA ResponseStarts ==
  ASSUME NEW call \in Callers \X Nat, NEW s, Wellformed(s), NEW cs, Allowed(cs, s),
         NEW in, NEW rest, NEW l \in Locals, Waiting(call, s, cs, in, rest, l)
  PROVE  Place(call, s, cs, <<>>, rest \o Flat(Output(call, s)), l)
  <1> DEFINE n == Len(s.trees)
             texts == Output(call, s)
  <1>1. texts \in Seq(Seq(Symbol)) /\ texts # <<>> /\ n \in Nat
    <2>1. Seq(Text) \subseteq Seq(Seq(Symbol))
      BY DEF Text
    <2> QED BY <2>1, OutputProperties
  <1>2. /\ rest \in Seq({NL}) /\ Len(rest) \in Nat /\ l.numNewlines \in Nat
        /\ l.numNewlines + Len(rest) <= 1 /\ l.conll = <<>> /\ l.trees = <<>>
        /\ AllHealthy(cs) => rest = <<>> /\ l.numNewlines = 0 /\ l.numLines = 0
    BY DEF Waiting, Locals
  <1>3. rest = <<>> \/ (rest = <<NL>> /\ l.numNewlines = 0)
    <2>1. CASE Len(rest) = 0
      BY <1>2, <2>1
    <2>2. CASE Len(rest) = 1
      <3>1. rest \in Seq({NL}) /\ <<NL>> \in Seq({NL}) /\ Len(<<NL>>) = 1
        BY <1>2
      <3>2. \A k \in 1 .. 1 : rest[k] = <<NL>>[k]
        BY <2>2, <3>1
      <3>3. rest = <<NL>>
        BY <2>2, <3>1, <3>2, SeqEqual
      <3>4. l.numNewlines = 0
        BY <1>2, <2>2
      <3> QED BY <3>3, <3>4
    <2>3. Len(rest) = 0 \/ Len(rest) = 1
      <3> DEFINE x == l.numNewlines
                 y == Len(rest)
      <3>1. x \in Nat /\ y \in Nat /\ x + y <= 1
        BY <1>2
      <3> HIDE DEF x, y
      <3>2. y = 0 \/ y = 1
        BY <3>1
      <3> QED BY <3>2 DEF y
    <2> QED BY <2>1, <2>2, <2>3
  <1>4. CASE n > 0
    <2>1. Flat(texts) = Ahead(texts, 1, 0)
      BY <1>1, AheadProperties
    <2>2. 1 \in 1 .. n /\ s.trees[1] \in Nat /\ 0 \in 0 .. s.trees[1]
      <3>1. 1 \in 1 .. n
        BY <1>1, <1>4
      <3>2. s.trees[1] \in Nat \ {0}
        BY <3>1, OutputProperties
      <3> QED BY <3>1, <3>2
    <2>3. SubSeq(Tree(call, s, 1), 1, 0) = <<>>
      <3>1. Tree(call, s, 1) \in Seq(Line)
        BY <2>2, OutputProperties
      <3> QED BY <3>1
    <2>4. FittingTo(Promise!TreesOf(call, s), 1 - 1) = <<>>
      <3> DEFINE trees == Promise!TreesOf(call, s)
      <3>1. s.trees \in Seq(Nat \ {0}) /\ DOMAIN s.trees = 1 .. n
        BY DEF Wellformed, Sentence
      <3>2. trees = [k \in 1 .. n |-> Tree(call, s, k)]
        BY <3>1, Zenon DEF Promise!TreesOf, Tree
      <3>3. \A k \in 1 .. n : Tree(call, s, k) \in Seq(Line)
        BY OutputProperties
      <3> HIDE DEF trees, n
      <3>4. trees \in Seq(Seq(Line))
        BY <1>1, <3>2, <3>3
      <3>5. FittingTo(trees, 0) = <<>>
        BY <3>4, FittingRows
      <3> QED BY <3>5 DEF trees
    <2>5. rest # <<>> => rest = <<NL>> /\ l.numNewlines = 0 /\ ~AllHealthy(cs)
      BY <1>2, <1>3
    <2>6. l.numNewlines \in {0, 1}
      BY <1>2
    <2> HIDE DEF texts, n
    <2>7. InTree(call, s, cs, <<>>, rest \o Flat(texts), l, 1, 0, rest)
      BY <1>2, <2>1, <2>3, <2>4, <2>5, <2>6 DEF InTree, texts
    <2>8. rest \in {<<>>, <<NL>>}
      BY <1>3
    <2>9. InSomeTree(call, s, cs, <<>>, rest \o Flat(texts), l)
      BY <2>2, <2>7, <2>8, Zenon DEF InSomeTree, n
    <2> QED BY <2>9 DEF Place, texts
  <1>5. CASE n = 0
    <2>1. ~AllHealthy(cs)
      <3>1. s.trees = <<>>
        <4>1. s.trees \in Seq(Nat \ {0})
          BY DEF Wellformed, Sentence
        <4> QED BY <1>5, <4>1
      <3> QED BY <3>1 DEF Whole, Allowed
    <2>2. texts = Ending(s)
      <3>1. From(texts, 0 + 1) = Ending(s)
        BY <1>5, OutputProperties
      <3>2. From(texts, 1) = texts
        BY <1>1, FromProperties
      <3> QED BY <3>1, <3>2
    <2>3. Flat(texts) \in Seq({NL}) /\ Len(Flat(texts)) \in {1, 2}
      <3>1. Flat(texts) = IF s.fails THEN <<NL, NL>> ELSE <<NL>>
        BY <2>2, EndingFlat, Zenon
      <3> HIDE DEF texts
      <3>2. /\ <<NL, NL>> \in Seq({NL}) /\ Len(<<NL, NL>>) = 2
            /\ <<NL>> \in Seq({NL}) /\ Len(<<NL>>) = 1
        OBVIOUS
      <3> QED BY <3>1, <3>2
    <2> HIDE DEF texts
    <2>4. rest \o Flat(texts) \in Seq({NL}) /\ Len(rest \o Flat(texts)) = Len(rest) + Len(Flat(texts))
      BY <1>2, <2>3
    <2>5. l.numNewlines + Len(rest \o Flat(texts)) <= 4 /\ l.numNewlines <= 3
      <3> DEFINE x == l.numNewlines
                 y == Len(rest)
                 z == Len(Flat(texts))
      <3>1. x \in Nat /\ y \in Nat /\ z \in {1, 2} /\ x + y <= 1
        BY <1>2, <2>3
      <3> HIDE DEF x, y, z
      <3>2. x + (y + z) <= 4 /\ x <= 3
        BY <3>1
      <3> QED BY <2>4, <3>2 DEF x, y, z
    <2>6. AtEnd(call, s, cs, <<>>, rest \o Flat(texts), l)
      BY <1>2, <2>1, <2>4, <2>5 DEF AtEnd
    <2> QED BY <2>6 DEF Place, texts
  <1>6. n > 0 \/ n = 0
    BY <1>1
  <1> QED BY <1>4, <1>5, <1>6

LEMMA ReadLineStep ==
  ASSUME BridgeInv, ReadLine
  PROVE  BridgeInv'
  <1> USE DEF BridgeInv
  <1>1. PICK c \in Callers : /\ lock = c /\ pc[c] = "read"
                             /\ Waiting(CallOf(c), SentenceOf(c), calls, childIn, Rest, local[c])
    BY SentenceReady DEF ReadLine
  <1>2. /\ CallOf(c) \in Callers \X Nat /\ Wellformed(SentenceOf(c))
        /\ Allowed(calls, SentenceOf(c)) /\ local[c] \in Locals
    BY <1>1, AskedRight DEF TypeCorrect, Allowed, Healthy, AllHealthy
  <1>3. childIn' = <<>> /\ printing' = Output(CallOf(c), SentenceOf(c)) /\ printing = <<>>
    <2>1. childIn = <<SentenceOf(c).mode, CallOf(c)>>
      BY <1>1 DEF Waiting
    <2>2. childIn[2] = CallOf(c) /\ Len(childIn) = 2
      BY <2>1
    <2>3. SubSeq(childIn, 3, Len(childIn)) = <<>>
      <3> DEFINE a == SentenceOf(c).mode
                 b == CallOf(c)
      <3>1. <<a, b>> \in Seq({a, b})
        OBVIOUS
      <3> HIDE DEF a, b
      <3>2. childIn \in Seq({a, b})
        BY <2>1, <3>1 DEF a, b
      <3> QED BY <2>2, <3>2
    <2>4. Response(CallOf(c)) = Output(CallOf(c), SentenceOf(c))
      BY ResponseOutput DEF CallOf, SentenceOf
    <2> QED BY <2>2, <2>3, <2>4 DEF ReadLine
  <1>4. TypeCorrect'
    <2>1. Output(CallOf(c), SentenceOf(c)) \in Seq(Text)
      BY <1>2, OutputProperties
    <2> QED BY <1>3, <2>1 DEF ReadLine, TypeCorrect
  <1>5. Exclusive'
    BY DEF ReadLine, Exclusive
  <1>6. Rest' = Rest \o Flat(Output(CallOf(c), SentenceOf(c)))
    <2>1. Rest = childOut
      <3>1. <<>> \in Seq(Seq(Symbol)) /\ childOut \in Seq(Symbol)
        BY DEF TypeCorrect
      <3>2. Flat(<<>>) = <<>>
        BY <3>1, FlatProperties, Zenon
      <3> QED BY <1>3, <3>1, <3>2, ConcatEmptySeq DEF Rest
    <2> QED BY <1>3, <2>1 DEF ReadLine, Rest
  <1>7. Place(CallOf(c), SentenceOf(c), calls, <<>>, Rest', local[c])
    BY <1>1, <1>2, <1>6, ResponseStarts
  <1>8. Framed'
    <2>1. ASSUME NEW d \in Callers, d # c PROVE pc'[d] = "idle"
      BY <1>1, <2>1, OthersIdle DEF ReadLine
    <2>2. /\ CallOf(c)' = CallOf(c) /\ SentenceOf(c)' = SentenceOf(c) /\ calls' = calls
          /\ local' = local /\ pc'[c] = "read" /\ lock' = c
      BY <1>1 DEF ReadLine, CallOf, SentenceOf, Asked
    <2>3. Place(CallOf(c), SentenceOf(c), calls, childIn, Rest, local[c])'
      BY <1>3, <1>7, <2>2
    <2>4. OwnTrees(CallOf(c), SentenceOf(c), local[c])'
      <3>1. OwnTrees(CallOf(c), SentenceOf(c), local[c])
        BY <1>1 DEF Framed
      <3> QED BY <2>2, <3>1
    <2> HIDE DEF BridgeInv
    <2> QED BY <2>1, <2>2, <2>3, <2>4, NoneAssumption DEF Framed
  <1>9. NoMixing'
    BY DEF ReadLine, NoMixing
  <1> QED BY <1>4, <1>5, <1>8, <1>9

(* What is printed moves on and is not lost.                               *)
LEMMA PrintNextStep ==
  ASSUME BridgeInv, PrintNext
  PROVE  BridgeInv'
  <1> USE DEF BridgeInv
  <1>1. /\ printing \in Seq(Text) /\ printing \in Seq(Seq(Symbol)) /\ printing # <<>>
        /\ childOut \in Seq(Symbol)
    BY RestType DEF TypeCorrect, PrintNext
  <1>2. /\ Head(printing) \in Seq(Symbol) /\ Tail(printing) \in Seq(Text)
        /\ Tail(printing) \in Seq(Seq(Symbol))
    BY <1>1
  <1>3. TypeCorrect'
    <2>1. childOut \o Head(printing) \in Seq(Symbol)
      BY <1>1, <1>2
    <2> QED BY <1>2, <2>1 DEF PrintNext, TypeCorrect
  <1>4. Exclusive'
    BY DEF PrintNext, Exclusive
  <1>5. Rest' = Rest
    <2>1. Flat(printing) = Head(printing) \o Flat(Tail(printing))
      BY <1>1, FlatProperties
    <2>2. Flat(Tail(printing)) \in Seq(Symbol)
      BY <1>2, FlatProperties
    <2>3. (childOut \o Head(printing)) \o Flat(Tail(printing))
            = childOut \o (Head(printing) \o Flat(Tail(printing)))
      <3> DEFINE a == Head(printing)
                 b == Flat(Tail(printing))
      <3>1. a \in Seq(Symbol) /\ b \in Seq(Symbol) /\ childOut \in Seq(Symbol)
        BY <1>1, <1>2, <2>2
      <3> HIDE DEF a, b
      <3>2. (childOut \o a) \o b = childOut \o (a \o b)
        BY <3>1, ConcatAssociative
      <3> QED BY <3>2 DEF a, b
    <2> QED BY <2>1, <2>3 DEF PrintNext, Rest
  <1>6. Leftover' = Leftover
    BY <1>5 DEF PrintNext, Leftover, Healthy
  <1>7. ASSUME NEW c \in Callers
        PROVE  /\ CallOf(c)' = CallOf(c) /\ SentenceOf(c)' = SentenceOf(c)
               /\ calls' = calls /\ childIn' = childIn /\ local' = local /\ pc' = pc /\ lock' = lock
    BY DEF PrintNext, CallOf, SentenceOf, Asked
  <1>8. Framed'
    <2>1. lock' = lock /\ childIn' = childIn
      BY DEF PrintNext
    <2>2. lock = None => childIn = <<>> /\ Leftover
      BY DEF Framed
    <2>3. ASSUME NEW c \in Callers
          PROVE  /\ (pc[c] = "mode")' => (childIn = <<>> /\ Leftover /\ local[c] = Fresh)'
                 /\ (pc[c] = "sentence")' =>
                      (childIn = <<SentenceOf(c).mode>> /\ Leftover /\ local[c] = Fresh)'
      BY <1>6, <1>7, Zenon DEF Framed, Fresh
    <2>4. ASSUME NEW c \in Callers, pc'[c] = "read"
          PROVE  /\ Place(CallOf(c), SentenceOf(c), calls, childIn, Rest, local[c])'
                 /\ OwnTrees(CallOf(c), SentenceOf(c), local[c])'
      <3>1. /\ Place(CallOf(c), SentenceOf(c), calls, childIn, Rest, local[c])
            /\ OwnTrees(CallOf(c), SentenceOf(c), local[c])
        BY <1>7, <2>4 DEF Framed
      <3> QED BY <1>5, <1>7, <3>1
    <2> HIDE DEF BridgeInv
    <2> QED BY <1>6, <2>1, <2>2, <2>3, <2>4 DEF Framed
  <1>9. NoMixing'
    BY DEF PrintNext, NoMixing
  <1> QED BY <1>3, <1>4, <1>8, <1>9

LEMMA BridgeInductive == BridgeInv /\ [Next]_vars => BridgeInv'
  <1> SUFFICES ASSUME BridgeInv, [Next]_vars PROVE BridgeInv'
    OBVIOUS
  <1>1. CASE ReadLine
    BY <1>1, ReadLineStep
  <1>2. CASE PrintNext
    BY <1>2, PrintNextStep
  <1>3. ASSUME NEW c \in Callers, Annotate(c) PROVE BridgeInv'
    BY <1>3, AcquireStep, WriteModeStep, WriteSentenceStep, ReadStep, ReleaseStep DEF Annotate
  <1>4. CASE UNCHANGED vars
    <2>1. /\ calls' = calls /\ answers' = answers /\ lock' = lock /\ pc' = pc /\ childIn' = childIn
          /\ childOut' = childOut /\ printing' = printing /\ local' = local
      BY <1>4 DEF vars
    <2>2. TypeCorrect' /\ Exclusive'
      BY <2>1 DEF BridgeInv, TypeCorrect, Exclusive
    <2>3. Leftover' = Leftover /\ Rest' = Rest
      BY <2>1 DEF Leftover, Rest, Healthy
    <2>4. ASSUME NEW c \in Callers
          PROVE  /\ CallOf(c)' = CallOf(c) /\ SentenceOf(c)' = SentenceOf(c)
      BY <2>1 DEF CallOf, SentenceOf, Asked
    <2>5. Framed'
      <3>1. lock = None => childIn = <<>> /\ Leftover
        BY DEF BridgeInv, Framed
      <3>2. ASSUME NEW c \in Callers
            PROVE  /\ (pc[c] = "mode")' => (childIn = <<>> /\ Leftover /\ local[c] = Fresh)'
                   /\ (pc[c] = "sentence")' =>
                        (childIn = <<SentenceOf(c).mode>> /\ Leftover /\ local[c] = Fresh)'
        BY <2>1, <2>3, <2>4, Zenon DEF BridgeInv, Framed, Fresh
      <3>3. ASSUME NEW c \in Callers, pc'[c] = "read"
            PROVE  /\ Place(CallOf(c), SentenceOf(c), calls, childIn, Rest, local[c])'
                   /\ OwnTrees(CallOf(c), SentenceOf(c), local[c])'
        <4>1. /\ Place(CallOf(c), SentenceOf(c), calls, childIn, Rest, local[c])
              /\ OwnTrees(CallOf(c), SentenceOf(c), local[c])
          BY <2>1, <3>3 DEF BridgeInv, Framed
        <4> QED BY <2>1, <2>3, <2>4, <4>1
      <3> QED BY <2>1, <2>3, <3>1, <3>2, <3>3 DEF Framed
    <2>6. NoMixing'
      BY <2>1 DEF BridgeInv, NoMixing
    <2> QED BY <2>2, <2>5, <2>6 DEF BridgeInv
  <1> QED BY <1>1, <1>2, <1>3, <1>4 DEF Next, Child

LEMMA BridgeInvariant == Spec => []BridgeInv
  BY BridgeInit, BridgeInductive, PTL DEF Spec

-------------------------------------------------------------------------------
(* The theorems                                                            *)

(* One thread at a time is inside annotate(), and between healthy calls    *)
(* the pipes are empty, for any number of threads and any sentences.       *)
THEOREM BridgeIsQuiescent == Spec => []Quiescent
  <1>1. BridgeInv => Quiescent
    <2> SUFFICES ASSUME BridgeInv PROVE Quiescent
      OBVIOUS
    <2>1. \A c \in Callers : (pc[c] # "idle") = (lock = c)
      BY DEF BridgeInv, Exclusive
    <2>2. ASSUME Healthy, lock = None
          PROVE  childIn = <<>> /\ childOut = <<>> /\ printing = <<>>
      <3>1. childIn = <<>> /\ Rest = <<>>
        BY <2>2 DEF BridgeInv, Framed, Leftover
      <3> QED BY <3>1, RestType DEF BridgeInv
    <2> QED BY <2>1, <2>2 DEF Quiescent
  <1> QED BY <1>1, BridgeInvariant, PTL

(* Whatever sentences fail, are empty or have no trees: no call gets a     *)
(* line of another call, or part of a tree.                                *)
THEOREM CallsNeverMix == Spec => []NoMixing
  <1>1. BridgeInv => NoMixing
    BY DEF BridgeInv
  <1> QED BY <1>1, BridgeInvariant, PTL

(* The bridge implements what JavaBridge.h promises of annotate(): taking  *)
(* the mutex is asking, returning is replying with the trees of the        *)
(* sentence that was asked for, and every other step changes nothing.      *)
LEMMA PromiseInit == Init => Promise!Init
  <1> SUFFICES ASSUME Init PROVE Promise!Init
    OBVIOUS
  <1>1. \A c \in Callers : answers[c] = <<>> /\ pc[c] = "idle"
    BY DEF Init
  <1>2. \A c \in Callers : Asked(c) = 0
    <2>1. Len(<<>>) + 0 = 0
      OBVIOUS
    <2> QED BY <1>1, <2>1, Zenon DEF Asked
  <1>3. [c \in Callers |-> IF Healthy THEN Asked(c) ELSE 0] = [c \in Callers |-> 0]
    BY <1>2
  <1>4. [c \in Callers |-> IF Healthy THEN answers[c] ELSE <<>>] = [c \in Callers |-> <<>>]
    BY <1>1
  <1> QED BY <1>3, <1>4, Zenon DEF Init, Promise!Init

PromisedAsked   == [c \in Callers |-> IF Healthy THEN Asked(c) ELSE 0]
PromisedAnswers == [c \in Callers |-> IF Healthy THEN answers[c] ELSE <<>>]

LEMMA PromiseStep == BridgeInv /\ [Next]_vars => [Promise!Next]_(Promise!vars)
  <1> SUFFICES ASSUME BridgeInv, [Next]_vars PROVE [Promise!Next]_(Promise!vars)
    OBVIOUS
  <1>1. calls' = calls /\ Healthy' = Healthy
    <2>1. calls' = calls
      BY DEF Next, Child, ReadLine, PrintNext, Annotate, Acquire, WriteMode, WriteSentence,
             Read, Release, vars
    <2> QED BY <2>1 DEF Healthy
  <1>2. ASSUME answers' = answers, \A c \in Callers : Asked(c)' = Asked(c)
        PROVE  [Promise!Next]_(Promise!vars)
    <2>1. PromisedAsked' = PromisedAsked /\ PromisedAnswers' = PromisedAnswers
      BY <1>1, <1>2 DEF PromisedAsked, PromisedAnswers
    <2> QED BY <1>1, <2>1 DEF Promise!vars, PromisedAsked, PromisedAnswers
  <1>3. CASE ~Healthy
    <2>1. PromisedAsked' = PromisedAsked /\ PromisedAnswers' = PromisedAnswers
      BY <1>1, <1>3 DEF PromisedAsked, PromisedAnswers
    <2> QED BY <1>1, <2>1 DEF Promise!vars, PromisedAsked, PromisedAnswers
  <1>4. ASSUME Healthy, NEW c \in Callers, Acquire(c) PROVE Promise!Ask(c)
    <2>1. /\ PromisedAsked[c] = Len(answers[c]) /\ PromisedAnswers[c] = answers[c]
          /\ Len(answers[c]) < Len(calls[c])
      <3>1. /\ pc[c] = "idle" /\ Len(answers[c]) < Len(calls[c]) /\ Len(answers[c]) \in Nat
            /\ PromisedAsked[c] = Asked(c) /\ PromisedAnswers[c] = answers[c]
        BY <1>4 DEF BridgeInv, TypeCorrect, Acquire, PromisedAsked, PromisedAnswers
      <3>2. Asked(c) = Len(answers[c]) + 0
        BY <3>1, Zenon DEF Asked
      <3> QED BY <3>1, <3>2
    <2>2. PromisedAsked' = [PromisedAsked EXCEPT ![c] = @ + 1]
      <3>1. ASSUME NEW d \in Callers
            PROVE  PromisedAsked'[d] = IF d = c THEN PromisedAsked[d] + 1 ELSE PromisedAsked[d]
        BY <1>1, <1>4 DEF BridgeInv, TypeCorrect, Acquire, PromisedAsked, Asked
      <3> QED BY <3>1 DEF PromisedAsked
    <2>3. PromisedAnswers' = PromisedAnswers
      BY <1>1, <1>4 DEF Acquire, PromisedAnswers
    <2> QED BY <1>1, <2>1, <2>2, <2>3, Zenon DEF Promise!Ask, PromisedAsked, PromisedAnswers
  <1>5. ASSUME Healthy, NEW c \in Callers, Release(c) PROVE Promise!Reply(c)
    <2>1. /\ pc[c] = "read" /\ local[c] \in Locals /\ local[c].numNewlines >= 3
          /\ Place(CallOf(c), SentenceOf(c), calls, childIn, Rest, local[c])
      BY <1>5 DEF BridgeInv, TypeCorrect, Framed, Release, Complete
    <2>2. local[c].trees = Promise!Answer(CallOf(c), SentenceOf(c))
      BY <1>5, <2>1, CompleteAtEnd DEF AtEnd, Healthy, AllHealthy
    <2>3. Asked(c) = Len(answers[c]) + 1 /\ Len(answers[c]) \in Nat
      BY <2>1, AskedRight DEF BridgeInv, TypeCorrect
    <2>4. PromisedAsked[c] = Asked(c) /\ PromisedAnswers[c] = answers[c]
      BY <1>5 DEF PromisedAsked, PromisedAnswers
    <2>5. PromisedAnswers' = [PromisedAnswers EXCEPT ![c] =
                                Append(@, Promise!Answer(<<c, PromisedAsked[c]>>, calls[c][PromisedAsked[c]]))]
      <3> DEFINE answer == Promise!Answer(<<c, PromisedAsked[c]>>, calls[c][PromisedAsked[c]])
      <3>1. answer = local[c].trees
        BY <2>2, <2>4 DEF CallOf, SentenceOf
      <3> HIDE DEF answer
      <3>2. ASSUME NEW d \in Callers
            PROVE  PromisedAnswers'[d] = IF d = c THEN Append(answers[c], answer) ELSE PromisedAnswers[d]
        BY <1>1, <1>5, <3>1 DEF BridgeInv, TypeCorrect, Release, PromisedAnswers
      <3>3. PromisedAnswers' = [PromisedAnswers EXCEPT ![c] = Append(@, answer)]
        BY <2>4, <3>2 DEF PromisedAnswers
      <3> QED BY <3>3 DEF answer
    <2>6. PromisedAsked' = PromisedAsked
      <3>1. ASSUME NEW d \in Callers PROVE Asked(d)' = Asked(d)
        <4>1. CASE d = c
          <5>1. pc'[c] = "idle" /\ answers'[c] = Append(answers[c], local[c].trees)
            BY <1>5 DEF BridgeInv, TypeCorrect, Release
          <5>2. answers[c] \in Seq(Seq(Seq(Line)))
            BY DEF BridgeInv, TypeCorrect
          <5>3. Len(answers'[c]) = Len(answers[c]) + 1
            BY <5>1, <5>2
          <5>4. Asked(c)' = Len(answers'[c]) + 0
            BY <5>1, Zenon DEF Asked
          <5> QED BY <2>3, <4>1, <5>3, <5>4
        <4>2. CASE d # c
          BY <1>5, <4>2 DEF BridgeInv, TypeCorrect, Release, Asked
        <4> QED BY <4>1, <4>2
      <3> QED BY <1>1, <3>1 DEF PromisedAsked
    <2>7. Len(PromisedAnswers[c]) < PromisedAsked[c]
      BY <2>3, <2>4
    <2> QED BY <1>1, <2>5, <2>6, <2>7, Zenon DEF Promise!Reply, PromisedAsked, PromisedAnswers
  <1>6. ASSUME NEW c \in Callers, WriteMode(c) \/ WriteSentence(c) \/ Read(c)
        PROVE  answers' = answers /\ \A d \in Callers : Asked(d)' = Asked(d)
    BY <1>6 DEF BridgeInv, TypeCorrect, WriteMode, WriteSentence, Read, Asked
  <1>7. ASSUME Child \/ UNCHANGED vars
        PROVE  answers' = answers /\ \A d \in Callers : Asked(d)' = Asked(d)
    BY <1>7 DEF Child, ReadLine, PrintNext, vars, Asked
  <1>8. ASSUME NEW c \in Callers, Annotate(c), Healthy PROVE [Promise!Next]_(Promise!vars)
    BY <1>2, <1>4, <1>5, <1>6, <1>8 DEF Annotate, Promise!Next
  <1> QED BY <1>2, <1>3, <1>7, <1>8 DEF Next

THEOREM BridgeKeepsPromise == Spec => Annotates
  <1> QED BY PromiseInit, PromiseStep, BridgeInvariant, PTL DEF Spec, Annotates, Promise!Spec
===============================================================================
