------------------------------ MODULE GraphProofs ------------------------------
(***************************************************************************)
(* Theorems about the graph that is read from the three files, for all     *)
(* files, all sizes of the buffers and all ways the files may be cut into  *)
(* blocks: that every row is in the graph, and each list of edges in the   *)
(* order of its file.                                                      *)
(***************************************************************************)
EXTENDS Graph, Foundations

(* A file, whatever characters it may hold.                                *)
IsText(file, A) ==
  /\ file.text \in Seq(A) /\ file.cuts \in Seq(Nat) /\ file.complete \in BOOLEAN
  /\ End(file, Len(file.cuts)) = Len(file.text)
  /\ \A k \in 1 .. Len(file.cuts) : End(file, k - 1) <= End(file, k)

Readers(file, A) ==
  [file : {file}, block : 0 .. Len(file.cuts), inflated : 0 .. Len(file.text),
   out : [1 .. BufferSize -> A], outHave : 0 .. BufferSize, outConsumed : 0 .. BufferSize,
   ended : BOOLEAN, filled : BOOLEAN]

(* The output has nothing left but what it had before its last character   *)
(* was read.                                                               *)
CanFill(g) ==
  /\ g.inflated <= End(g.file, g.block)
  /\ g.ended => g.file.complete /\ g.inflated = Len(g.file.text)

AtEndOfText(g) ==
  /\ g.outHave = 0 /\ g.outConsumed = 0 /\ g.inflated = Len(g.file.text)
  /\ g.file.complete => g.ended

(* The output holds the characters of the text in front of the place up to *)
(* which it is inflated, of which one can be read unless there is no more. *)
IsFilled(g) ==
  /\ CanFill(g)
  /\ g.outHave <= g.inflated
  /\ \A i \in 1 .. g.outHave : g.out[i] = g.file.text[g.inflated - g.outHave + i]
  /\ g.outConsumed < g.outHave \/ AtEndOfText(g)

(* Where the reader is in the text.                                        *)
Place(g) == g.inflated - g.outHave + g.outConsumed

LEMMA EndsBounded ==
  ASSUME NEW A, NEW file, IsText(file, A), NEW b \in 0 .. Len(file.cuts)
  PROVE  End(file, b) \in 0 .. Len(file.text)
  <1> DEFINE n == Len(file.cuts)
             S == {k \in Nat : \A c \in 0 .. n : n - c = k => End(file, c) <= Len(file.text)}
  <1>1. n \in Nat /\ \A c \in 0 .. n : End(file, c) \in Nat
    BY DEF IsText, End
  <1>2. 0 \in S
    BY <1>1 DEF IsText
  <1>3. ASSUME NEW k \in Nat, k \in S PROVE k + 1 \in S
    <2>1. ASSUME NEW c \in 0 .. n, n - c = k + 1 PROVE End(file, c) <= Len(file.text)
      <3>1. c + 1 \in 0 .. n /\ n - (c + 1) = k /\ c + 1 \in 1 .. n /\ (c + 1) - 1 = c
        BY <1>1, <2>1
      <3>2. End(file, c + 1) <= Len(file.text)
        BY <1>3, <3>1
      <3>3. End(file, c) <= End(file, c + 1)
        BY <3>1 DEF IsText
      <3>4. Len(file.text) \in Nat
        BY DEF IsText
      <3> QED BY <1>1, <2>1, <3>1, <3>2, <3>3, <3>4
    <2> QED BY <2>1
  <1>4. Nat \subseteq S
    <2> HIDE DEF S
    <2> QED BY <1>2, <1>3, NatSetInduction
  <1>5. n - b \in Nat
    BY <1>1
  <1>6. End(file, b) <= Len(file.text) /\ Len(file.text) \in Nat
    <2>1. n - b \in S
      BY <1>4, <1>5
    <2>2. End(file, b) <= Len(file.text)
      BY <2>1
    <2> QED BY <2>2 DEF IsText
  <1> QED BY <1>1, <1>6

LEMMA NextBlockProperties ==
  ASSUME NEW A, NEW file, IsText(file, A), NEW g \in Readers(file, A)
  PROVE  /\ NextBlock(g) \in g.block .. Len(file.cuts)
         /\ NextBlock(g) = Len(file.cuts) \/ End(file, NextBlock(g)) > g.inflated
         /\ \A c \in g.block .. Len(file.cuts) : c < NextBlock(g) => End(file, c) <= g.inflated
  <1> DEFINE n == Len(file.cuts)
             S == {b \in g.block .. n : b = n \/ End(file, b) > g.inflated}
             Is(b) == /\ b = n \/ End(file, b) > g.inflated
                      /\ \A c \in g.block .. n : c < b => End(file, c) <= g.inflated
  <1>1. n \in Nat /\ g.block \in 0 .. n /\ g.file = file /\ g.inflated \in Nat
    BY DEF IsText, Readers
  <1>2. \A c \in 0 .. n : End(file, c) \in Nat
    BY EndsBounded, <1>1
  <1>3. n \in S /\ S \in SUBSET Nat
    BY <1>1
  <1>4. PICK b \in S : \A m \in S : b <= m
    <2> HIDE DEF S
    <2> QED BY <1>3, LeastExists
  <1>5. b \in g.block .. n /\ Is(b)
    BY <1>1, <1>2, <1>4
  <1>6. NextBlock(g) = CHOOSE c \in g.block .. n : Is(c)
    BY <1>1 DEF NextBlock
  <1>7. NextBlock(g) \in g.block .. n /\ Is(NextBlock(g))
    <2> HIDE DEF Is
    <2> QED BY <1>5, <1>6, Zenon
  <1> QED BY <1>7

LEMMA FillOutProperties ==
  ASSUME NEW A, NEW file, IsText(file, A), NEW g \in Readers(file, A), CanFill(g)
  PROVE  /\ FillOut(g) \in Readers(file, A) /\ IsFilled(FillOut(g))
         /\ Place(FillOut(g)) = g.inflated
         /\ FillOut(g).filled = (g.inflated < Len(file.text))
  <1> DEFINE b == NextBlock(g)
             h == [g EXCEPT !.block = b]
             left == End(file, b) - g.inflated
             n == IF left < BufferSize THEN left ELSE BufferSize
             f == FillOut(g)
  <1>1. /\ Len(file.cuts) \in Nat /\ g.block \in 0 .. Len(file.cuts) /\ g.file = file
        /\ Len(file.text) \in Nat /\ g.inflated \in 0 .. Len(file.text)
        /\ BufferSize \in Nat /\ BufferSize > 0
    BY BufferSizeAssumption DEF IsText, Readers
  <1>2. /\ b \in g.block .. Len(file.cuts)
        /\ b = Len(file.cuts) \/ End(file, b) > g.inflated
        /\ \A c \in g.block .. Len(file.cuts) : c < b => End(file, c) <= g.inflated
    BY NextBlockProperties
  <1> HIDE DEF b
  <1>3. End(file, b) \in 0 .. Len(file.text)
    BY EndsBounded, <1>1, <1>2
  <1>4. End(file, b) >= g.inflated
    <2>1. CASE b = Len(file.cuts)
      BY <1>1, <2>1 DEF IsText
    <2> QED BY <1>1, <1>2, <1>3, <2>1
  <1>5. n \in 0 .. BufferSize /\ n <= left /\ (n = 0 => left = 0) /\ left \in Nat
    BY <1>1, <1>3, <1>4
  <1>6. f = Inflated(h, n)
    BY <1>1 DEF FillOut, Inflate, Readers, b
  <1> HIDE DEF n
  <1>7. n = 0 <=> g.inflated = Len(file.text)
    <2>1. ASSUME n = 0 PROVE g.inflated = Len(file.text)
      <3>1. End(file, b) = g.inflated
        BY <1>1, <1>3, <1>5, <2>1
      <3>2. b = Len(file.cuts)
        BY <1>1, <1>2, <1>3, <3>1
      <3> QED BY <3>1, <3>2 DEF IsText
    <2> QED BY <1>1, <1>3, <1>4, <1>5, <2>1
  <1>8. /\ f.file = file /\ f.block = b /\ f.inflated = g.inflated + n /\ f.outHave = n
        /\ f.outConsumed = 0 /\ f.filled = (n # 0)
        /\ f.out = [i \in 1 .. BufferSize |->
                      IF i <= n THEN file.text[g.inflated + i] ELSE g.out[i]]
        /\ f.ended = (g.ended \/ (/\ file.complete /\ b = Len(file.cuts)
                                  /\ g.inflated + n = End(file, b)))
        /\ f = [file |-> f.file, block |-> f.block, inflated |-> f.inflated, out |-> f.out,
                outHave |-> f.outHave, outConsumed |-> f.outConsumed, ended |-> f.ended,
                filled |-> f.filled]
    <2>1. h = [file |-> file, block |-> b, inflated |-> g.inflated, out |-> g.out,
               outHave |-> g.outHave, outConsumed |-> g.outConsumed, ended |-> g.ended,
               filled |-> g.filled]
      BY <1>1 DEF Readers
    <2>2. f = [file |-> file, block |-> b, inflated |-> g.inflated + n,
               out |-> [i \in 1 .. BufferSize |->
                          IF i <= n THEN file.text[g.inflated + i] ELSE g.out[i]],
               outHave |-> n, outConsumed |-> 0,
               ended |-> g.ended \/ (/\ file.complete /\ b = Len(file.cuts)
                                    /\ g.inflated + n = End(file, b)),
               filled |-> n # 0]
      <3> HIDE DEF h, f
      <3> QED BY <1>6, <2>1 DEF Inflated
    <2> HIDE DEF h, f
    <2> QED BY <2>2
  <1>9. g.inflated + n \in 0 .. Len(file.text) /\ g.inflated + n <= End(file, b)
    BY <1>1, <1>3, <1>4, <1>5
  <1> HIDE DEF f, h
  <1>10. f.out \in [1 .. BufferSize -> A]
    <2>1. \A i \in 1 .. n : file.text[g.inflated + i] \in A
      BY <1>1, <1>5, <1>9 DEF IsText
    <2>2. g.out \in [1 .. BufferSize -> A]
      BY DEF Readers
    <2> QED BY <1>1, <1>5, <1>8, <2>1, <2>2
  <1>11. f \in Readers(file, A)
    <2>1. g.ended \in BOOLEAN /\ file.complete \in BOOLEAN
      BY DEF Readers, IsText
    <2>2. f.ended \in BOOLEAN /\ f.filled \in BOOLEAN
      BY <1>8, <2>1
    <2>3. /\ f.file \in {file} /\ f.block \in 0 .. Len(file.cuts) /\ f.inflated \in 0 .. Len(file.text)
          /\ f.outHave \in 0 .. BufferSize /\ f.outConsumed \in 0 .. BufferSize
      BY <1>1, <1>2, <1>5, <1>8, <1>9
    <2> QED BY <1>8, <1>10, <2>2, <2>3 DEF Readers
  <1>12. CanFill(f)
    <2>1. g.ended => file.complete /\ g.inflated = Len(file.text)
      BY <1>1 DEF CanFill
    <2>2. f.ended => file.complete
      BY <1>8, <2>1
    <2>3. f.ended => f.inflated = Len(file.text)
      <3>1. CASE g.ended
        BY <1>1, <1>7, <1>8, <2>1, <3>1
      <3>2. CASE ~g.ended
        BY <1>8, <3>2 DEF IsText
      <3> QED BY <3>1, <3>2
    <2> QED BY <1>8, <1>9, <2>2, <2>3 DEF CanFill
  <1>13. \A i \in 1 .. f.outHave : f.out[i] = file.text[f.inflated - f.outHave + i]
    BY <1>1, <1>5, <1>8
  <1>14. f.outConsumed < f.outHave \/ AtEndOfText(f)
    <2>1. CASE n = 0
      <3>1. g.inflated = Len(file.text) /\ left = 0 /\ g.inflated + n = End(file, b) /\ End(file, b) = Len(file.text)
        BY <1>1, <1>3, <1>4, <1>5, <1>7, <2>1
      <3>2. b = Len(file.cuts)
        BY <1>1, <1>2, <3>1
      <3>3. file.complete => f.ended
        BY <1>8, <3>1, <3>2
      <3>4. f.inflated = Len(file.text)
        BY <1>1, <1>8, <2>1, <3>1
      <3> QED BY <1>8, <2>1, <3>3, <3>4 DEF AtEndOfText
    <2>2. CASE n # 0
      BY <1>5, <1>8, <2>2
    <2> QED BY <2>1, <2>2
  <1>15. f.outHave <= f.inflated
    BY <1>1, <1>5, <1>8
  <1>16. IsFilled(f)
    BY <1>8, <1>12, <1>13, <1>14, <1>15 DEF IsFilled
  <1>17. Place(f) = g.inflated
    BY <1>1, <1>5, <1>8 DEF Place
  <1>18. f.filled = (g.inflated < Len(file.text))
    BY <1>1, <1>7, <1>8
  <1> QED BY <1>11, <1>16, <1>17, <1>18 DEF f

LEMMA PlaceProperties ==
  ASSUME NEW A, NEW file, IsText(file, A), NEW g \in Readers(file, A), IsFilled(g)
  PROVE  /\ Place(g) \in 0 .. Len(file.text)
         /\ g.outConsumed < g.outHave <=> Place(g) < Len(file.text)
         /\ g.outConsumed < g.outHave => g.out[g.outConsumed + 1] = file.text[Place(g) + 1]
         /\ g.outConsumed + 1 \in 1 .. BufferSize
         /\ file.complete => (HasNext(g) <=> Place(g) < Len(file.text))
         /\ ~HasNext(g) => file.complete
  <1>1. /\ g.file = file /\ Len(file.text) \in Nat /\ g.inflated \in 0 .. Len(file.text)
        /\ g.outHave \in 0 .. BufferSize /\ g.outConsumed \in 0 .. BufferSize
        /\ BufferSize \in Nat /\ BufferSize > 0 /\ g.ended \in BOOLEAN /\ file.complete \in BOOLEAN
    BY BufferSizeAssumption DEF IsText, Readers
  <1>2. g.ended => file.complete /\ g.inflated = Len(file.text)
    BY <1>1 DEF IsFilled, CanFill
  <1>3. CASE g.outConsumed < g.outHave
    <2>1. g.outHave <= g.inflated
      BY DEF IsFilled
    <2>2. Place(g) \in 0 .. Len(file.text) /\ Place(g) < Len(file.text) /\ g.outConsumed + 1 \in 1 .. BufferSize
      BY <1>1, <1>3, <2>1 DEF Place
    <2>3. g.out[g.outConsumed + 1] = file.text[g.inflated - g.outHave + (g.outConsumed + 1)]
      <3>1. g.outConsumed + 1 \in 1 .. g.outHave
        BY <1>1, <1>3
      <3> QED BY <1>1, <3>1 DEF IsFilled
    <2>4. g.inflated - g.outHave + (g.outConsumed + 1) = Place(g) + 1
      <3>1. \A i, j, k \in Int : i - j + (k + 1) = i - j + k + 1
        OBVIOUS
      <3>2. g.inflated \in Int /\ g.outHave \in Int /\ g.outConsumed \in Int
        BY <1>1
      <3> QED BY <3>1, <3>2 DEF Place
    <2>5. HasNext(g)
      BY <1>1, <1>3 DEF HasNext
    <2> QED BY <1>3, <2>2, <2>3, <2>4, <2>5
  <1>4. CASE ~(g.outConsumed < g.outHave)
    <2>1. AtEndOfText(g)
      BY <1>4 DEF IsFilled
    <2>2. Place(g) = Len(file.text)
      BY <1>1, <2>1 DEF Place, AtEndOfText
    <2>3. HasNext(g) <=> ~g.ended
      BY <1>1, <2>1 DEF HasNext, AtEndOfText
    <2>4. g.ended <=> file.complete
      BY <1>1, <1>2, <2>1 DEF AtEndOfText
    <2> QED BY <1>1, <1>4, <2>1, <2>2, <2>3, <2>4 DEF AtEndOfText
  <1> QED BY <1>3, <1>4

(* What Consume makes of a reader: it moves on, unless there is no more.   *)
LEMMA ConsumeProperties ==
  ASSUME NEW A, NEW file, IsText(file, A), NEW g \in Readers(file, A), IsFilled(g)
  PROVE  /\ Consume(g) \in Readers(file, A) /\ IsFilled(Consume(g))
         /\ Place(g) < Len(file.text) => Place(Consume(g)) = Place(g) + 1
         /\ Place(g) = Len(file.text) => Place(Consume(g)) = Len(file.text)
         /\ Consume(g).filled = (Place(Consume(g)) < Len(file.text))
  <1> DEFINE h == [g EXCEPT !.outConsumed = @ + 1]
  <1>1. /\ g.file = file /\ Len(file.text) \in Nat /\ g.inflated \in 0 .. Len(file.text)
        /\ g.outHave \in 0 .. BufferSize /\ g.outConsumed \in 0 .. BufferSize
    BY BufferSizeAssumption DEF IsText, Readers
  <1>2. /\ g.outConsumed + 1 \in 1 .. BufferSize /\ Place(g) \in 0 .. Len(file.text)
        /\ g.outConsumed < g.outHave <=> Place(g) < Len(file.text)
    BY PlaceProperties
  <1>3. h = [file |-> g.file, block |-> g.block, inflated |-> g.inflated, out |-> g.out,
             outHave |-> g.outHave, outConsumed |-> g.outConsumed + 1, ended |-> g.ended,
             filled |-> g.filled]
    BY DEF Readers
  <1>4. h \in Readers(file, A)
    BY <1>2, <1>3 DEF Readers
  <1>5. CASE g.outConsumed + 1 >= g.outHave
    <2>1. Consume(g) = FillOut(h)
      BY <1>3, <1>5 DEF Consume
    <2>2. CanFill(h)
      BY <1>3 DEF IsFilled, CanFill
    <2>3. /\ FillOut(h) \in Readers(file, A) /\ IsFilled(FillOut(h))
          /\ Place(FillOut(h)) = h.inflated
          /\ FillOut(h).filled = (h.inflated < Len(file.text))
      BY FillOutProperties, <1>4, <2>2
    <2>4. h.inflated = g.inflated
      BY <1>3
    <2>5. Place(g) < Len(file.text) => g.inflated = Place(g) + 1
      BY <1>1, <1>2, <1>5 DEF Place
    <2>6. Place(g) = Len(file.text) => g.inflated = Len(file.text)
      BY <1>1, <1>2 DEF IsFilled, AtEndOfText
    <2> HIDE DEF h
    <2> QED BY <1>1, <2>1, <2>3, <2>4, <2>5, <2>6
  <1>6. CASE ~(g.outConsumed + 1 >= g.outHave)
    <2> DEFINE f == [h EXCEPT !.filled = TRUE]
    <2>1. f = [file |-> g.file, block |-> g.block, inflated |-> g.inflated, out |-> g.out,
               outHave |-> g.outHave, outConsumed |-> g.outConsumed + 1, ended |-> g.ended,
               filled |-> TRUE]
      <3> DEFINE t == TRUE
      <3>1. t \in BOOLEAN
        OBVIOUS
      <3> HIDE DEF h, t
      <3>2. [h EXCEPT !.filled = t] =
              [file |-> g.file, block |-> g.block, inflated |-> g.inflated, out |-> g.out,
               outHave |-> g.outHave, outConsumed |-> g.outConsumed + 1, ended |-> g.ended,
               filled |-> t]
        BY <1>3
      <3> QED BY <3>2 DEF t
    <2>2. Consume(g) = f
      BY <1>3, <1>6 DEF Consume
    <2> HIDE DEF f
    <2>3. f \in Readers(file, A)
      BY <1>2, <2>1 DEF Readers
    <2>4. IsFilled(f)
      <3>1. CanFill(f)
        BY <2>1 DEF IsFilled, CanFill
      <3>2. f.outConsumed < f.outHave
        BY <1>1, <1>6, <2>1
      <3>3. f.outHave <= f.inflated
        BY <2>1 DEF IsFilled
      <3>4. \A i \in 1 .. f.outHave : f.out[i] = f.file.text[f.inflated - f.outHave + i]
        BY <2>1 DEF IsFilled
      <3> QED BY <3>1, <3>2, <3>3, <3>4 DEF IsFilled
    <2>5. Place(f) = Place(g) + 1
      BY <1>1, <2>1 DEF Place
    <2>6. Place(f) < Len(file.text)
      <3>1. f.outConsumed < f.outHave
        BY <1>1, <1>6, <2>1
      <3> QED BY PlaceProperties, <2>3, <2>4, <3>1
    <2>7. Place(g) < Len(file.text)
      BY <1>1, <1>2, <1>6
    <2>8. f.filled = (Place(f) < Len(file.text))
      BY <2>1, <2>6
    <2>9. Place(g) # Len(file.text)
      BY <1>1, <1>2, <2>7
    <2> QED BY <2>2, <2>3, <2>4, <2>5, <2>8, <2>9
  <1> QED BY <1>5, <1>6

LEMMA GZIteratorProperties ==
  ASSUME NEW A, Garbage \in A, NEW file, IsText(file, A)
  PROVE  /\ GZIterator(file) \in Readers(file, A) /\ IsFilled(GZIterator(file))
         /\ Place(GZIterator(file)) = 0
  <1> DEFINE g == [file |-> file, block |-> 0, inflated |-> 0,
                   out |-> [i \in 1 .. BufferSize |-> Garbage], outHave |-> 0, outConsumed |-> 0,
                   ended |-> FALSE, filled |-> FALSE]
  <1>1. Len(file.text) \in Nat /\ Len(file.cuts) \in Nat /\ BufferSize \in Nat
    BY BufferSizeAssumption DEF IsText
  <1>2. g \in Readers(file, A)
    BY <1>1 DEF Readers
  <1>3. CanFill(g)
    BY DEF CanFill, End
  <1>4. g.inflated = 0
    OBVIOUS
  <1>5. GZIterator(file) = FillOut(g)
    BY DEF GZIterator
  <1> HIDE DEF g
  <1> QED BY FillOutProperties, <1>2, <1>3, <1>4, <1>5

-------------------------------------------------------------------------------
(* The rounds of the loop that makes a line.                               *)
Rounds(file, A) ==
  {s \in [reader : Readers(file, A), line : Seq(A), over : BOOLEAN] : IsFilled(s.reader)}

LEMMA RoundType ==
  ASSUME NEW A, NEW file, IsText(file, A), NEW s \in Rounds(file, A)
  PROVE  /\ s.reader \in Readers(file, A) /\ IsFilled(s.reader)
         /\ s.line \in Seq(A) /\ s.over \in BOOLEAN
         /\ s = [reader |-> s.reader, line |-> s.line, over |-> s.over]
         /\ Place(s.reader) \in 0 .. Len(file.text)
  <1>1. s \in [reader : Readers(file, A), line : Seq(A), over : BOOLEAN] /\ IsFilled(s.reader)
    BY DEF Rounds
  <1>2. s.reader \in Readers(file, A)
    BY <1>1
  <1>3. Place(s.reader) \in 0 .. Len(file.text)
    BY <1>1, <1>2, PlaceProperties
  <1> QED BY <1>1, <1>2, <1>3

LEMMA ReadCharacterProperties ==
  ASSUME NEW A, NEW file, IsText(file, A), NEW s \in Rounds(file, A)
  PROVE  /\ ReadCharacter(s) \in Rounds(file, A)
         /\ s.over => ReadCharacter(s) = s
         /\ Len(ReadCharacter(s).line) \in Len(s.line) .. Len(s.line) + 1
         /\ ~s.over /\ Place(s.reader) < Len(file.text) =>
              /\ Place(ReadCharacter(s).reader) = Place(s.reader) + 1
              /\ file.text[Place(s.reader) + 1] = Newline =>
                   ReadCharacter(s).line = s.line /\ ReadCharacter(s).over
              /\ file.text[Place(s.reader) + 1] # Newline =>
                   /\ ReadCharacter(s).line = Append(s.line, file.text[Place(s.reader) + 1])
                   /\ ReadCharacter(s).over <=> Place(s.reader) + 1 >= Len(file.text)
  <1> DEFINE g == s.reader
             c == g.out[g.outConsumed + 1]
             next == Consume(g)
             r == ReadCharacter(s)
  <1>1. /\ g \in Readers(file, A) /\ IsFilled(g) /\ s.line \in Seq(A) /\ s.over \in BOOLEAN
        /\ s = [reader |-> g, line |-> s.line, over |-> s.over]
        /\ Place(g) \in 0 .. Len(file.text) /\ Len(file.text) \in Nat /\ Len(s.line) \in Nat
    BY RoundType DEF IsText
  <1>2. /\ next \in Readers(file, A) /\ IsFilled(next) /\ next.filled \in BOOLEAN
        /\ Place(g) < Len(file.text) => Place(next) = Place(g) + 1
        /\ next.filled = (Place(next) < Len(file.text))
    <2>1. next.filled \in BOOLEAN
      BY <1>1, ConsumeProperties DEF Readers
    <2> QED BY <1>1, <2>1, ConsumeProperties
  <1>3. c \in A /\ (Place(g) < Len(file.text) => c = file.text[Place(g) + 1])
    <2>1. g.outConsumed + 1 \in 1 .. BufferSize
      BY <1>1, PlaceProperties
    <2>2. c \in A
      BY <1>1, <2>1 DEF Readers
    <2>3. Place(g) < Len(file.text) => g.outConsumed < g.outHave
      BY <1>1, PlaceProperties
    <2>4. g.outConsumed < g.outHave => c = file.text[Place(g) + 1]
      BY <1>1, PlaceProperties
    <2> QED BY <2>2, <2>3, <2>4
  <1>4. r = IF s.over THEN s
            ELSE IF c = Newline THEN [s EXCEPT !.reader = next, !.over = TRUE]
            ELSE [reader |-> next, line |-> Append(s.line, c), over |-> ~next.filled]
    BY DEF ReadCharacter
  <1> HIDE DEF g, c, next, r
  <1>5. CASE s.over
    BY <1>1, <1>4, <1>5 DEF r
  <1>6. CASE ~s.over /\ c = Newline
    <2>1. r = [s EXCEPT !.reader = next, !.over = TRUE]
      BY <1>4, <1>6
    <2>2. r = [reader |-> next, line |-> s.line, over |-> TRUE]
      BY <1>1, <2>1
    <2>3. r \in Rounds(file, A)
      BY <1>1, <1>2, <2>2 DEF Rounds
    <2>4. Place(g) < Len(file.text) =>
            Place(r.reader) = Place(g) + 1 /\ file.text[Place(g) + 1] = Newline
      BY <1>2, <1>3, <1>6, <2>2
    <2> QED BY <1>1, <1>6, <2>2, <2>3, <2>4 DEF r, g
  <1>7. CASE ~s.over /\ c # Newline
    <2>1. r = [reader |-> next, line |-> Append(s.line, c), over |-> ~next.filled]
      BY <1>4, <1>7
    <2>2. r \in Rounds(file, A)
      BY <1>1, <1>2, <1>3, <2>1 DEF Rounds
    <2>3. Place(g) < Len(file.text) =>
            /\ Place(r.reader) = Place(g) + 1 /\ file.text[Place(g) + 1] # Newline
            /\ r.line = Append(s.line, file.text[Place(g) + 1])
      BY <1>2, <1>3, <1>7, <2>1
    <2>5. Place(g) < Len(file.text) => (r.over <=> Place(g) + 1 >= Len(file.text))
      <3>1. r.over <=> ~next.filled
        BY <2>1
      <3>2. next.filled <=> Place(next) < Len(file.text)
        BY <1>2
      <3> QED BY <1>1, <1>2, <3>1, <3>2
    <2>4. Len(r.line) = Len(s.line) + 1
      BY <1>1, <1>3, <2>1
    <2> QED BY <1>1, <1>7, <2>2, <2>3, <2>4, <2>5 DEF r, g
  <1> QED BY <1>1, <1>5, <1>6, <1>7

Reads(g, read) ==
  read = [n \in 0 .. BufferSize |->
            IF n = 0 THEN [reader |-> g, line |-> <<>>, over |-> FALSE]
                     ELSE ReadCharacter(read[n - 1])]

LEMMA NextLineUnfolds ==
  ASSUME NEW A, NEW file, IsText(file, A), NEW g \in Readers(file, A), IsFilled(g)
  PROVE  \E read \in [0 .. BufferSize -> Rounds(file, A)] :
           /\ read[0] = [reader |-> g, line |-> <<>>, over |-> FALSE]
           /\ \A n \in 1 .. BufferSize : read[n] = ReadCharacter(read[n - 1])
           /\ NextLine(g) = read[BufferSize]
  <1> DEFINE S == Rounds(file, A)
             start == [reader |-> g, line |-> <<>>, over |-> FALSE]
             step == [q \in (1 .. BufferSize) \X S |-> ReadCharacter(q[2])]
  <1>1. BufferSize \in Nat /\ start \in S
    BY BufferSizeAssumption DEF Rounds
  <1>2. step \in [(1 .. BufferSize) \X S -> S]
    <2>1. \A s \in S : ReadCharacter(s) \in S
      BY ReadCharacterProperties
    <2> HIDE DEF S
    <2> QED BY <2>1
  <1>3. PICK f \in [0 .. BufferSize -> S] : Unfolds(f, BufferSize, start, step)
    <2> HIDE DEF S, start, step
    <2> QED BY <1>1, <1>2, RecursionExists
  <1>4. ASSUME NEW n \in 0 .. BufferSize
        PROVE  f[n] = IF n = 0 THEN start ELSE ReadCharacter(f[n - 1])
    <2>1. f[n] = IF n = 0 THEN start ELSE step[<<n, f[n - 1]>>]
      <3> HIDE DEF step, start
      <3> QED BY <1>3 DEF Unfolds
    <2>2. CASE n # 0
      <3>1. n \in 1 .. BufferSize /\ n - 1 \in 0 .. BufferSize
        BY <1>1, <2>2
      <3>2. f[n - 1] \in S
        <4> HIDE DEF S
        <4> QED BY <1>3, <3>1
      <3>3. PICK s : s = f[n - 1]
        OBVIOUS
      <3>4. step[<<n, s>>] = ReadCharacter(s)
        <4> HIDE DEF S
        <4> QED BY <3>1, <3>2, <3>3
      <3> HIDE DEF step, start
      <3> QED BY <2>1, <2>2, <3>3, <3>4
    <2> QED BY <2>1, <2>2
  <1>5. Reads(g, f)
    <2> HIDE DEF S, step
    <2>1. f = [n \in 0 .. BufferSize |-> IF n = 0 THEN start ELSE ReadCharacter(f[n - 1])]
      <3> HIDE DEF start
      <3> QED BY <1>3, <1>4
    <2> QED BY <2>1, Zenon DEF Reads
  <1> DEFINE d == CHOOSE read : Reads(g, read)
  <1>6. Reads(g, d)
    BY <1>5, Zenon
  <1>7. NextLine(g) = d[BufferSize]
    BY Zenon DEF NextLine, Reads
  <1>8. PICK read : read = d
    OBVIOUS
  <1>9. Reads(g, read) /\ NextLine(g) = read[BufferSize]
    BY <1>6, <1>7, <1>8, Zenon
  <1> HIDE DEF d
  <1>10. \A n \in 0 .. BufferSize : read[n] = IF n = 0 THEN start ELSE ReadCharacter(read[n - 1])
    BY <1>9, Zenon DEF Reads
  <1>11. read[0] = start /\ \A n \in 1 .. BufferSize : read[n] = ReadCharacter(read[n - 1])
    <2>1. 0 \in 0 .. BufferSize /\ \A n \in 1 .. BufferSize : n \in 0 .. BufferSize /\ n # 0
      BY <1>1
    <2> HIDE DEF start
    <2> QED BY <1>10, <2>1
  <1>12. \A n \in 0 .. BufferSize : read[n] \in S
    <2> DEFINE T == {n \in 0 .. BufferSize : read[n] \in S}
    <2>1. 0 \in T
      BY <1>1, <1>11
    <2>2. ASSUME NEW n \in 1 .. BufferSize, n - 1 \in T PROVE n \in T
      <3>1. read[n] = ReadCharacter(read[n - 1]) /\ read[n - 1] \in S /\ n \in 0 .. BufferSize
        BY <1>1, <1>11, <2>2
      <3>2. \A s \in S : ReadCharacter(s) \in S
        BY ReadCharacterProperties
      <3> HIDE DEF S
      <3> QED BY <3>1, <3>2
    <2>3. 0 .. BufferSize \subseteq T
      <3> HIDE DEF T
      <3> QED BY <1>1, <2>1, <2>2, IntervalInduction
    <2> QED BY <2>3
  <1>13. read \in [0 .. BufferSize -> S]
    <2>1. read = [n \in 0 .. BufferSize |-> read[n]]
      BY <1>9, Zenon DEF Reads
    <2> HIDE DEF S
    <2> QED BY <1>12, <2>1
  <1> QED BY <1>9, <1>11, <1>13, Zenon

(* A file has a line of characters at p, and then a newline or its end.    *)
HasLine(file, p, line) ==
  /\ p + Len(line) <= Len(file.text)
  /\ \A i \in 1 .. Len(line) : file.text[p + i] = line[i]
  /\ p + Len(line) < Len(file.text) => file.text[p + Len(line) + 1] = Newline

(* Whatever is read has been typed by what the file may hold.              *)
LEMMA NextLineType ==
  ASSUME NEW A, NEW file, IsText(file, A), NEW g \in Readers(file, A), IsFilled(g)
  PROVE  /\ NextLine(g).reader \in Readers(file, A) /\ IsFilled(NextLine(g).reader)
         /\ NextLine(g).line \in Seq(A)
  <1>1. PICK read \in [0 .. BufferSize -> Rounds(file, A)] : NextLine(g) = read[BufferSize]
    BY NextLineUnfolds
  <1>2. NextLine(g) \in Rounds(file, A)
    BY <1>1, BufferSizeAssumption
  <1> QED BY <1>2, RoundType

(* Wherever the buffers end, the line that a file has where its reader is  *)
(* is read, and the newline behind it, if there is one; unless it is too   *)
(* long, and then it is seen to be.                                        *)
LEMMA NextLineReads ==
  ASSUME NEW A, NEW file, IsText(file, A), NEW g \in Readers(file, A), IsFilled(g),
         NEW line \in Seq(A), line # <<>>, \A i \in 1 .. Len(line) : line[i] # Newline,
         HasLine(file, Place(g), line)
  PROVE  /\ TooLong(NextLine(g).line) <=> Len(line) >= BufferSize
         /\ ~TooLong(NextLine(g).line) =>
              /\ NextLine(g).line = line
              /\ \/ Place(NextLine(g).reader) = Place(g) + Len(line) + 1
                 \/ /\ Place(NextLine(g).reader) = Place(g) + Len(line)
                    /\ Place(g) + Len(line) = Len(file.text)
              /\ Place(NextLine(g).reader) <= Len(file.text)
  <1>1. PICK read \in [0 .. BufferSize -> Rounds(file, A)] :
           /\ read[0] = [reader |-> g, line |-> <<>>, over |-> FALSE]
           /\ \A n \in 1 .. BufferSize : read[n] = ReadCharacter(read[n - 1])
           /\ NextLine(g) = read[BufferSize]
    BY NextLineUnfolds
  <1>2. PICK p : p = Place(g)
    OBVIOUS
  <1>3. PICK m : m = Len(line)
    OBVIOUS
  <1>4. PICK l : l = Len(file.text)
    OBVIOUS
  <1>5. /\ p \in Nat /\ m \in Nat /\ m > 0 /\ l \in Nat /\ p + m <= l /\ BufferSize \in Nat
        /\ \A i \in 1 .. m : file.text[p + i] = line[i] /\ line[i] # Newline
        /\ p + m < l => file.text[p + m + 1] = Newline
    BY <1>2, <1>3, <1>4, PlaceProperties, BufferSizeAssumption DEF HasLine, IsText
  <1> DEFINE Within(s, n) ==
               /\ Place(s.reader) = p + n /\ (s.over <=> p + n >= l)
               /\ Len(s.line) = n /\ \A i \in 1 .. n : s.line[i] = line[i]
             Behind(s) ==
               /\ s.over /\ s.line = line
               /\ Place(s.reader) = p + m + 1 \/ (Place(s.reader) = p + m /\ p + m = l)
             T == {n \in 0 .. BufferSize : IF n <= m THEN Within(read[n], n) ELSE Behind(read[n])}
  <1>6. 0 \in T
    <2>1. read[0].reader = g /\ read[0].line = <<>> /\ read[0].over = FALSE
      BY <1>1
    <2> QED BY <1>2, <1>5, <2>1
  <1>7. ASSUME NEW n \in 1 .. BufferSize, n - 1 \in T PROVE n \in T
    <2>1. PICK s \in Rounds(file, A) : s = read[n - 1]
      BY <1>5
    <2>2. PICK r \in Rounds(file, A) : r = read[n]
      BY <1>5
    <2>3. r = ReadCharacter(s)
      BY <1>1, <2>1, <2>2
    <2>4. /\ s.over => r = s
          /\ ~s.over /\ Place(s.reader) < l =>
               /\ Place(r.reader) = Place(s.reader) + 1
               /\ file.text[Place(s.reader) + 1] = Newline => r.line = s.line /\ r.over
               /\ file.text[Place(s.reader) + 1] # Newline =>
                    /\ r.line = Append(s.line, file.text[Place(s.reader) + 1])
                    /\ r.over <=> Place(s.reader) + 1 >= l
      BY <1>4, <2>3, ReadCharacterProperties
    <2>5. s.line \in Seq(A) /\ r.line \in Seq(A)
      BY RoundType
    <2>6. CASE n <= m
      <3>1. Within(s, n - 1)
        BY <1>5, <1>7, <2>1, <2>6
      <3>2. p + (n - 1) < l /\ p + (n - 1) + 1 = p + n /\ n \in 1 .. m
        BY <1>5, <2>6
      <3>3. ~s.over /\ Place(s.reader) < l
        BY <1>5, <3>1, <3>2
      <3>4. file.text[Place(s.reader) + 1] = line[n] /\ line[n] # Newline
        BY <1>5, <3>1, <3>2
      <3>5. r.line = Append(s.line, line[n]) /\ Place(r.reader) = p + n /\ (r.over <=> p + n >= l)
        BY <2>4, <3>1, <3>2, <3>3, <3>4
      <3>6. Len(r.line) = n /\ \A i \in 1 .. n : r.line[i] = line[i]
        <4>1. line[n] \in A /\ Len(s.line) = n - 1 /\ \A i \in 1 .. n - 1 : s.line[i] = line[i]
          BY <1>3, <3>1, <3>2
        <4> QED BY <2>5, <3>5, <4>1
      <3> QED BY <2>2, <2>6, <3>5, <3>6
    <2>7. CASE n = m + 1
      <3>1. Within(s, m)
        BY <1>5, <1>7, <2>1, <2>7
      <3>2. s.line = line
        BY <1>3, <2>5, <3>1
      <3>3. CASE s.over
        BY <1>5, <2>2, <2>4, <2>7, <3>1, <3>2, <3>3
      <3>4. CASE ~s.over
        <4>1. Place(s.reader) < l /\ p + m < l /\ Place(s.reader) = p + m
          BY <1>5, <3>1, <3>4
        <4>2. Place(r.reader) = p + m + 1 /\ r.line = s.line /\ r.over
          BY <1>5, <2>4, <3>4, <4>1
        <4> QED BY <1>5, <2>2, <2>7, <3>2, <4>2
      <3> QED BY <3>3, <3>4
    <2>8. CASE n > m + 1
      <3>1. Behind(s)
        BY <1>5, <1>7, <2>1, <2>8
      <3>2. r = s
        BY <2>4, <3>1
      <3>3. Behind(read[n])
        BY <2>2, <3>1, <3>2
      <3>4. n \in 0 .. BufferSize /\ ~(n <= m)
        BY <1>5, <2>8
      <3> HIDE DEF Behind, Within
      <3> QED BY <3>3, <3>4
    <2> QED BY <1>5, <2>6, <2>7, <2>8
  <1>8. BufferSize \in T
    <2> HIDE DEF T
    <2>1. 0 .. BufferSize \subseteq T
      BY <1>5, <1>6, <1>7, IntervalInduction
    <2> QED BY <1>5, <2>1
  <1>9. PICK s \in Rounds(file, A) : s = NextLine(g) /\ s = read[BufferSize]
    BY <1>1, <1>5
  <1>10. s.line \in Seq(A) /\ Place(s.reader) \in 0 .. l
    BY <1>4, RoundType
  <1>11. CASE BufferSize <= m
    <2>1. Within(s, BufferSize)
      BY <1>8, <1>9, <1>11
    <2> QED BY <1>3, <1>5, <1>9, <1>11, <2>1 DEF TooLong
  <1>12. CASE BufferSize > m
    <2>1. Behind(s)
      BY <1>5, <1>8, <1>9, <1>12
    <2> QED BY <1>2, <1>3, <1>4, <1>5, <1>9, <1>10, <1>12, <2>1 DEF TooLong
  <1> QED BY <1>5, <1>11, <1>12

-------------------------------------------------------------------------------
(* What a file with these rows may hold.                                   *)
Held(rows) == (Characters \ DOMAIN Lines) \cup rows

(* The reader of a complete file is behind the line of its jth row.        *)
Behind(file, g, j) ==
  /\ j \in 0 .. Len(file.rows)
  /\ Place(g) = file.ends[j] \/ (j = Len(file.rows) /\ Place(g) = Len(file.text))

LEMMA FileType ==
  ASSUME NEW rows \in SUBSET DOMAIN Lines, NEW file, IsFile(file, rows)
  PROVE  IsText(file, Held(rows)) /\ Garbage \in Held(rows)
  BY LinesAssumption DEF IsFile, IsText, Held

LEMMA FileEnds ==
  ASSUME NEW rows \in SUBSET DOMAIN Lines, NEW file, IsFile(file, rows), file.complete
  PROVE  /\ Len(file.rows) \in Nat /\ Len(file.text) \in Nat /\ file.ends[0] = 0
         /\ \A k \in 0 .. Len(file.rows) : file.ends[k] \in 0 .. Len(file.text) + 1
         /\ file.ends[Len(file.rows)] >= Len(file.text)
         /\ \A k \in 1 .. Len(file.rows) :
              LET line == Lines[file.rows[k]].text
              IN  /\ file.rows[k] \in rows /\ line \in Seq(Characters \ {Newline})
                  /\ Len(line) \in Nat /\ Len(line) > 0
                  /\ file.ends[k] = file.ends[k - 1] + Len(line) + 1
  <1> DEFINE n == Len(file.rows)
             S == {k \in Nat : \A c \in 0 .. n : n - c = k => file.ends[c] <= file.ends[n]}
  <1>1. /\ n \in Nat /\ Len(file.text) \in Nat /\ file.ends[0] = 0
        /\ \A c \in 0 .. n : file.ends[c] \in Nat
        /\ Len(file.text) = file.ends[n] \/ Len(file.text) = file.ends[n] - 1
    <2>1. IsWritten(file) /\ n \in Nat /\ Len(file.text) \in Nat /\ file.ends \in [0 .. n -> Nat]
      BY DEF IsFile
    <2>2. file.ends[0] = 0
      BY <2>1 DEF IsWritten
    <2>3. Len(file.text) \in {file.ends[n], file.ends[n] - 1}
      BY <2>1 DEF IsWritten
    <2> HIDE DEF n
    <2>4. \A c \in 0 .. n : file.ends[c] \in Nat
      BY <2>1
    <2> QED BY <2>1, <2>2, <2>3, <2>4
  <1>2. ASSUME NEW k \in 1 .. n
        PROVE  LET line == Lines[file.rows[k]].text
               IN  /\ file.rows[k] \in rows /\ line \in Seq(Characters \ {Newline})
                   /\ Len(line) \in Nat /\ Len(line) > 0
                   /\ file.ends[k] = file.ends[k - 1] + Len(line) + 1
    <2>1. file.rows[k] \in rows
      BY DEF IsFile
    <2>2. PICK line : line = Lines[file.rows[k]].text
      OBVIOUS
    <2>3. line \in Seq(Characters \ {Newline}) /\ line # <<>>
      BY <2>1, <2>2, LinesAssumption
    <2>4. Len(line) \in Nat /\ Len(line) > 0
      BY <2>3
    <2>5. file.ends[k] = file.ends[k - 1] + Len(line) + 1
      BY <2>2 DEF IsFile, IsWritten
    <2> QED BY <2>1, <2>2, <2>3, <2>4, <2>5
  <1>3. 0 \in S
    BY <1>1
  <1>4. ASSUME NEW k \in Nat, k \in S PROVE k + 1 \in S
    <2>1. ASSUME NEW c \in 0 .. n, n - c = k + 1 PROVE file.ends[c] <= file.ends[n]
      <3>1. c + 1 \in 0 .. n /\ n - (c + 1) = k /\ c + 1 \in 1 .. n /\ (c + 1) - 1 = c
        BY <1>1, <2>1
      <3>2. file.ends[c + 1] <= file.ends[n]
        BY <1>4, <3>1
      <3>3. PICK m \in Nat : file.ends[c + 1] = file.ends[c] + m + 1
        BY <1>2, <3>1
      <3>4. file.ends[c] \in Nat /\ file.ends[c + 1] \in Nat /\ file.ends[n] \in Nat
        BY <1>1, <3>1
      <3> QED BY <3>2, <3>3, <3>4
    <2> QED BY <2>1
  <1>5. Nat \subseteq S
    <2> HIDE DEF S
    <2> QED BY <1>3, <1>4, NatSetInduction
  <1>6. \A k \in 0 .. n : file.ends[k] \in 0 .. Len(file.text) + 1
    <2>1. ASSUME NEW k \in 0 .. n PROVE file.ends[k] \in 0 .. Len(file.text) + 1
      <3>1. n - k \in Nat
        BY <1>1
      <3>2. n - k \in S
        <4> HIDE DEF S
        <4> QED BY <1>5, <3>1
      <3>3. file.ends[k] <= file.ends[n]
        BY <3>2
      <3>4. file.ends[k] \in Nat /\ file.ends[n] \in Nat
        BY <1>1
      <3> QED BY <1>1, <3>3, <3>4
    <2> QED BY <2>1
  <1>7. file.ends[n] >= Len(file.text)
    BY <1>1
  <1> QED BY <1>1, <1>2, <1>6, <1>7

(* A complete file has the line of its next row where its reader is.       *)
LEMMA FileHasLine ==
  ASSUME NEW rows \in SUBSET DOMAIN Lines, NEW file, IsFile(file, rows), file.complete,
         NEW k \in 1 .. Len(file.rows), NEW line, line = Lines[file.rows[k]].text
  PROVE  /\ HasLine(file, file.ends[k - 1], line) /\ line \in Seq(Held(rows)) /\ line # <<>>
         /\ \A i \in 1 .. Len(line) : line[i] # Newline
         /\ file.ends[k - 1] < Len(file.text)
         /\ file.ends[k - 1] + Len(line) = Len(file.text) => k = Len(file.rows)
         /\ file.ends[k] = file.ends[k - 1] + Len(line) + 1
  <1>1. /\ Len(file.rows) \in Nat /\ Len(file.text) \in Nat
        /\ file.ends[k] \in 0 .. Len(file.text) + 1 /\ file.ends[k - 1] \in 0 .. Len(file.text) + 1
        /\ line \in Seq(Characters \ {Newline}) /\ Len(line) \in Nat /\ Len(line) > 0
        /\ file.ends[k] = file.ends[k - 1] + Len(line) + 1
    <2>1. Len(file.rows) \in Nat /\ Len(file.text) \in Nat
      BY FileEnds
    <2>2. k \in 0 .. Len(file.rows) /\ k - 1 \in 0 .. Len(file.rows)
      BY <2>1
    <2>3. file.ends[k] \in 0 .. Len(file.text) + 1 /\ file.ends[k - 1] \in 0 .. Len(file.text) + 1
      BY <2>2, FileEnds
    <2>4. /\ line \in Seq(Characters \ {Newline}) /\ Len(line) \in Nat /\ Len(line) > 0
          /\ file.ends[k] = file.ends[k - 1] + Len(line) + 1
      BY FileEnds
    <2> QED BY <2>1, <2>3, <2>4
  <1>2. file.ends[k - 1] + Len(line) <= Len(file.text) /\ file.ends[k - 1] < Len(file.text)
    <2>1. \A d, e \in Int, l, m \in Nat : d = e + m + 1 /\ d <= l + 1 /\ m > 0 => e + m <= l /\ e < l
      OBVIOUS
    <2>2. /\ file.ends[k] \in Int /\ file.ends[k - 1] \in Int /\ file.ends[k] <= Len(file.text) + 1
          /\ Len(file.text) \in Nat /\ Len(line) \in Nat /\ Len(line) > 0
          /\ file.ends[k] = file.ends[k - 1] + Len(line) + 1
      BY <1>1
    <2> QED BY <2>1, <2>2
  <1>3. \A i \in 1 .. Len(line) : file.text[file.ends[k - 1] + i] = line[i]
    BY DEF IsFile, IsWritten
  <1>4. file.ends[k - 1] + Len(line) < Len(file.text) =>
          file.text[file.ends[k - 1] + Len(line) + 1] = Newline
    <2>1. file.ends[k] <= Len(file.text) => file.text[file.ends[k]] = Newline
      BY DEF IsFile, IsWritten
    <2> QED BY <1>1, <2>1
  <1>5. HasLine(file, file.ends[k - 1], line)
    BY <1>2, <1>3, <1>4 DEF HasLine
  <1>6. line \in Seq(Held(rows))
    <2>1. \A i \in 1 .. Len(line) : line[i] \in Held(rows)
      <3>1. \A i \in 1 .. Len(line) : file.ends[k - 1] + i \in 1 .. Len(file.text)
        <4>1. \A e, l, m \in Nat : e + m <= l => \A i \in 1 .. m : e + i \in 1 .. l
          OBVIOUS
        <4>2. file.ends[k - 1] \in Nat /\ Len(file.text) \in Nat /\ Len(line) \in Nat
          BY <1>1
        <4> QED BY <1>2, <4>1, <4>2
      <3>2. file.text \in Seq(Held(rows))
        BY DEF IsFile, Held
      <3> QED BY <1>3, <3>1, <3>2, SMTT(30)
    <2>2. line = [i \in 1 .. Len(line) |-> line[i]] /\ Len(line) \in Nat
      BY <1>1
    <2> HIDE DEF Held
    <2>3. line \in [1 .. Len(line) -> Held(rows)]
      BY <2>1, <2>2
    <2> QED BY <2>2, <2>3, SeqDef
  <1>7. file.ends[k - 1] + Len(line) = Len(file.text) => k = Len(file.rows)
    <2>1. SUFFICES ASSUME file.ends[k - 1] + Len(line) = Len(file.text), k < Len(file.rows)
                   PROVE  FALSE
      BY <1>1
    <2>2. k + 1 \in 1 .. Len(file.rows) /\ (k + 1) - 1 = k /\ k + 1 \in 0 .. Len(file.rows)
      BY <1>1, <2>1
    <2>3. PICK m \in Nat : m > 0 /\ file.ends[k + 1] = file.ends[k] + m + 1
      <3>1. PICK next : next = Lines[file.rows[k + 1]].text
        OBVIOUS
      <3>2. /\ Len(next) \in Nat /\ Len(next) > 0
            /\ file.ends[k + 1] = file.ends[(k + 1) - 1] + Len(next) + 1
        BY <2>2, <3>1, FileEnds, ZenonT(30)
      <3>3. Len(next) \in Nat /\ Len(next) > 0 /\ file.ends[k + 1] = file.ends[k] + Len(next) + 1
        BY <2>2, <3>2, Zenon
      <3> QED BY <3>3
    <2>4. file.ends[k + 1] \in 0 .. Len(file.text) + 1
      BY <2>2, FileEnds
    <2> QED BY <1>1, <2>1, <2>3, <2>4
  <1> QED BY <1>1, <1>2, <1>5, <1>6, <1>7

(* Of a complete file, row after row is read.                              *)
LEMMA RowRead ==
  ASSUME NEW rows \in SUBSET DOMAIN Lines, NEW file, IsFile(file, rows), file.complete,
         NEW g \in Readers(file, Held(rows)), IsFilled(g), NEW j, Behind(file, g, j)
  PROVE  /\ ~HasNext(g) => j = Len(file.rows)
         /\ HasNext(g) /\ ~TooLong(NextLine(g).line) =>
              /\ j + 1 \in 1 .. Len(file.rows)
              /\ NextLine(g).line = Lines[file.rows[j + 1]].text
              /\ Behind(file, NextLine(g).reader, j + 1)
  <1>1. /\ Len(file.rows) \in Nat /\ Len(file.text) \in Nat /\ j \in 0 .. Len(file.rows)
        /\ file.ends[Len(file.rows)] \in 0 .. Len(file.text) + 1
        /\ file.ends[Len(file.rows)] >= Len(file.text)
    <2>1. /\ Len(file.rows) \in Nat /\ Len(file.text) \in Nat
          /\ file.ends[Len(file.rows)] >= Len(file.text)
      BY FileEnds
    <2>2. Len(file.rows) \in 0 .. Len(file.rows)
      BY <2>1
    <2>3. file.ends[Len(file.rows)] \in 0 .. Len(file.text) + 1
      BY <2>2, FileEnds
    <2> QED BY <2>1, <2>3 DEF Behind
  <1>2. /\ HasNext(g) <=> Place(g) < Len(file.text)
        /\ Place(g) \in 0 .. Len(file.text)
    BY FileType, PlaceProperties
  <1>3. CASE j = Len(file.rows)
    BY <1>1, <1>2, <1>3 DEF Behind
  <1>4. CASE j < Len(file.rows)
    <2>1. PICK k \in 1 .. Len(file.rows) : k = j + 1 /\ k - 1 = j
      BY <1>1, <1>4
    <2>2. PICK line : line = Lines[file.rows[k]].text
      OBVIOUS
    <2>3. Place(g) = file.ends[k - 1]
      BY <1>1, <1>4, <2>1 DEF Behind
    <2>4. /\ HasLine(file, Place(g), line) /\ line \in Seq(Held(rows)) /\ line # <<>>
          /\ \A i \in 1 .. Len(line) : line[i] # Newline
          /\ Place(g) < Len(file.text)
          /\ Place(g) + Len(line) = Len(file.text) => k = Len(file.rows)
          /\ file.ends[k] = Place(g) + Len(line) + 1
      BY <2>2, <2>3, FileHasLine
    <2>5. ~TooLong(NextLine(g).line) =>
              /\ NextLine(g).line = line
              /\ \/ Place(NextLine(g).reader) = Place(g) + Len(line) + 1
                 \/ /\ Place(NextLine(g).reader) = Place(g) + Len(line)
                    /\ Place(g) + Len(line) = Len(file.text)
      BY <2>4, FileType, NextLineReads
    <2>6. ~TooLong(NextLine(g).line) => Behind(file, NextLine(g).reader, k)
      BY <1>1, <2>4, <2>5 DEF Behind
    <2> QED BY <1>2, <1>4, <2>1, <2>2, <2>4, <2>5, <2>6
  <1> QED BY <1>1, <1>3, <1>4

LEMMA WholeLine ==
  ASSUME NEW c \in DOMAIN Lines, NEW line, line = Lines[c].text
  PROVE  IsWhole(line) /\ ~IsCut(line) /\ RowOf(line) = Lines[c].row /\ line # <<>> /\ line[1] = c
  BY LinesAssumption DEF IsWhole, IsCut, IsStrictPrefix, RowOf

-------------------------------------------------------------------------------
(* What holds of the graph while it is read                                *)
Edges ==
  [columns : Nat, source : Nat, source_sense : 0 .. 255, sink : Nat, sink_sense : 0 .. 255,
   type : STRING, cost : Int]

WordAt(i) == Lines[files.words.rows[i]].row.index
EdgeAt(i) == Lines[files.edges.rows[i]].row
DeletionAt(i) == Lines[files.deletions.rows[i]].row

(* What the first j rows of a file say has been taken.                     *)
CountedTo(j) == \A i \in 1 .. j : WordAt(i) < graph.numWords
KnownTo(j) == graph.known = {WordAt(i) : i \in 1 .. j}
ListedTo(j) ==
  \A w \in 0 .. graph.numWords - 1 :
    Lists(graph.edges[w], files.edges.rows, {k \in EdgesTo(files.edges.rows, w) : k <= j})
DeletedTo(j) == graph.invalid = {<<DeletionAt(i).word, DeletionAt(i).sense>> : i \in 1 .. j}

ReaderRight(file, rows) == reader \in Readers(file, Held(rows)) /\ IsFilled(reader)

GraphType ==
  /\ files \in Files
  /\ graph = [numWords |-> graph.numWords, known |-> graph.known, edges |-> graph.edges,
              capacity |-> graph.capacity, invalid |-> graph.invalid]
  /\ graph.numWords \in Nat

(* A list never fills its array.                                           *)
ArraysRight ==
  /\ graph.edges \in [0 .. graph.numWords - 1 -> Seq(Edges)]
  /\ graph.capacity \in [0 .. graph.numWords - 1 -> Nat]
  /\ \A w \in 0 .. graph.numWords - 1 : Len(graph.edges[w]) < graph.capacity[w]

IsSortedGraph ==
  \A w \in 0 .. graph.numWords - 1 : \A k, l \in DOMAIN graph.edges[w] :
    k < l => ~Precedes(graph.edges[w][l], graph.edges[w][k])

(* What is behind a pass, and what is known in the middle of one: a file   *)
(* that is broken off says nothing, and is never left.                     *)
WordsRead ==
  /\ files.words.complete
  /\ CountedTo(Len(files.words.rows)) /\ KnownTo(Len(files.words.rows))

EdgesRead == files.edges.complete /\ ListedTo(Len(files.edges.rows))

DeletionsRead == files.deletions.complete /\ DeletedTo(Len(files.deletions.rows))

Counting ==
  /\ ReaderRight(files.words, WordRows)
  /\ graph.known = {} /\ graph.edges = <<>> /\ graph.invalid = {}
  /\ files.words.complete => \E j : Behind(files.words, reader, j) /\ CountedTo(j)

ReadingWords ==
  /\ ReaderRight(files.words, WordRows)
  /\ graph.edges = <<>> /\ graph.invalid = {}
  /\ files.words.complete /\ CountedTo(Len(files.words.rows))
  /\ \E j : Behind(files.words, reader, j) /\ KnownTo(j)

ReadingEdges ==
  /\ WordsRead /\ ReaderRight(files.edges, EdgeRows)
  /\ ArraysRight /\ graph.invalid = {}
  /\ files.edges.complete => \E j : Behind(files.edges, reader, j) /\ ListedTo(j)

ReadingDeletions ==
  /\ WordsRead /\ EdgesRead /\ ReaderRight(files.deletions, DeletionRows)
  /\ ArraysRight
  /\ files.deletions.complete => \E j : Behind(files.deletions, reader, j) /\ DeletedTo(j)

AllRead == WordsRead /\ EdgesRead /\ DeletionsRead /\ ArraysRight /\ IsSortedGraph

GraphInv ==
  /\ GraphType
  /\ graph.edges = <<>> \/ ArraysRight
  /\ loading = "count" => Counting
  /\ loading = "words" => ReadingWords
  /\ loading = "edges" => ReadingEdges
  /\ loading = "deletions" => ReadingDeletions
  /\ loading = "done" => AllRead

-------------------------------------------------------------------------------
LEMMA RowSets ==
  WordRows \in SUBSET DOMAIN Lines /\ EdgeRows \in SUBSET DOMAIN Lines
  /\ DeletionRows \in SUBSET DOMAIN Lines
  BY DEF WordRows, EdgeRows, DeletionRows

LEMMA FilesAre ==
  ASSUME NEW f \in Files
  PROVE  /\ IsFile(f.words, WordRows) /\ IsFile(f.edges, EdgeRows)
         /\ IsFile(f.deletions, DeletionRows)
  BY FilesAssumption

LEMMA OpenedRight ==
  ASSUME NEW rows \in SUBSET DOMAIN Lines, NEW file, IsFile(file, rows)
  PROVE  /\ GZIterator(file) \in Readers(file, Held(rows)) /\ IsFilled(GZIterator(file))
         /\ file.complete => Behind(file, GZIterator(file), 0)
  <1>1. GZIterator(file) \in Readers(file, Held(rows)) /\ IsFilled(GZIterator(file))
        /\ Place(GZIterator(file)) = 0
    BY FileType, GZIteratorProperties
  <1>2. file.complete => file.ends[0] = 0 /\ 0 \in 0 .. Len(file.rows)
    <2>1. file.complete => file.ends[0] = 0 /\ Len(file.rows) \in Nat
      BY FileEnds
    <2> QED BY <2>1
  <1> QED BY <1>1, <1>2 DEF Behind

LEMMA GraphInvInit == GraphInit => GraphInv
  <1> SUFFICES ASSUME GraphInit PROVE GraphInv
    OBVIOUS
  <1>1. files \in Files /\ reader = GZIterator(files.words) /\ loading = "count" /\ graph = EmptyGraph
    BY DEF GraphInit
  <1>2. GraphType
    BY <1>1 DEF GraphType, EmptyGraph
  <1>3. graph.known = {} /\ graph.edges = <<>> /\ graph.invalid = {}
    BY <1>1 DEF EmptyGraph
  <1>4. ReaderRight(files.words, WordRows)
    BY <1>1, RowSets, FilesAre, OpenedRight DEF ReaderRight
  <1>5. files.words.complete => Behind(files.words, reader, 0)
    BY <1>1, RowSets, FilesAre, OpenedRight
  <1>6. CountedTo(0)
    BY DEF CountedTo
  <1>7. Counting
    BY <1>3, <1>4, <1>5, <1>6 DEF Counting
  <1> QED BY <1>1, <1>2, <1>3, <1>7 DEF GraphInv

(* How a row can be taken                                                  *)
Stopped ==
  loading' \in {"exit", "undefined"} /\ files' = files /\ graph' = graph

Moved(what, g) ==
  /\ loading = what /\ loading' = loading /\ files' = files /\ graph' = g
  /\ HasNext(reader) /\ ~TooLong(NextLine(reader).line) /\ reader' = NextLine(reader).reader

LEMMA StoppedKeeps == GraphInv /\ Stopped => GraphInv'
  <1> SUFFICES ASSUME GraphInv, Stopped PROVE GraphInv'
    OBVIOUS
  <1>1. GraphType'
    BY DEF GraphInv, Stopped, GraphType
  <1>2. (graph.edges = <<>> \/ ArraysRight)'
    BY DEF GraphInv, Stopped, ArraysRight
  <1> QED BY <1>1, <1>2 DEF GraphInv, Stopped

(* What is kept when the graph is not changed                              *)
LEMMA UnchangedKeeps ==
  ASSUME files' = files, graph' = graph
  PROVE  /\ GraphType' = GraphType /\ ArraysRight' = ArraysRight
         /\ WordsRead' = WordsRead /\ EdgesRead' = EdgesRead
         /\ \A j : /\ CountedTo(j)' = CountedTo(j) /\ KnownTo(j)' = KnownTo(j)
                   /\ ListedTo(j)' = ListedTo(j) /\ DeletedTo(j)' = DeletedTo(j)
  <1>1. GraphType' = GraphType /\ ArraysRight' = ArraysRight
    BY DEF GraphType, ArraysRight
  <1>2. \A j : CountedTo(j)' = CountedTo(j) /\ KnownTo(j)' = KnownTo(j) /\ DeletedTo(j)' = DeletedTo(j)
    BY DEF CountedTo, KnownTo, DeletedTo, WordAt, DeletionAt
  <1>3. \A j : ListedTo(j)' = ListedTo(j)
    BY DEF ListedTo
  <1>4. WordsRead' = WordsRead
    BY DEF WordsRead, CountedTo, KnownTo, WordAt
  <1>5. EdgesRead' = EdgesRead
    BY DEF EdgesRead, ListedTo
  <1> QED BY <1>1, <1>2, <1>3, <1>4, <1>5

(* The reader is right behind a row of any file.                           *)
LEMMA MovedReader ==
  ASSUME NEW rows \in SUBSET DOMAIN Lines, NEW file, IsFile(file, rows),
         ReaderRight(file, rows), reader' = NextLine(reader).reader
  PROVE  ReaderRight(file, rows)' /\ NextLine(reader).line \in Seq(Held(rows))
  BY FileType, NextLineType DEF ReaderRight

(* The row that a line of a file begins is one that may be in it.          *)
LEMMA FirstOfLine ==
  ASSUME NEW rows \in SUBSET DOMAIN Lines, NEW line \in Seq(Held(rows)), line # <<>>,
         line[1] \in DOMAIN Lines
  PROVE  line[1] \in rows
  BY DEF Held

-------------------------------------------------------------------------------
LEMMA CountRowIs ==
  CountRow =>
    \/ Stopped
    \/ /\ NextLine(reader).line # <<>> /\ NextLine(reader).line[1] \in DOMAIN Lines
       /\ Moved("count", [graph EXCEPT !.numWords =
                            Larger(@, RowOf(NextLine(reader).line).index + 1)])
  BY DEF CountRow, Row, CountWord, Stop, Take, Stopped, Moved

LEMMA CountRowStep == GraphInv /\ CountRow => GraphInv'
  <1> SUFFICES ASSUME GraphInv, CountRow, ~Stopped PROVE GraphInv'
    BY StoppedKeeps
  <1> DEFINE line == NextLine(reader).line
             n == RowOf(line).index + 1
  <1>1. /\ line # <<>> /\ line[1] \in DOMAIN Lines
        /\ Moved("count", [graph EXCEPT !.numWords = Larger(@, n)])
    BY CountRowIs
  <1>2. Counting /\ GraphType /\ loading = "count" /\ loading' = "count"
    BY <1>1 DEF GraphInv, Moved
  <1>3. PICK file : file = files.words
    OBVIOUS
  <1>4. IsFile(file, WordRows) /\ ReaderRight(file, WordRows)
    BY <1>2, <1>3, FilesAre DEF Counting, GraphType
  <1>5. ReaderRight(file, WordRows)' /\ line \in Seq(Held(WordRows))
    <2>1. reader' = NextLine(reader).reader
      BY <1>1 DEF Moved
    <2> QED BY <1>4, <2>1, RowSets, MovedReader
  <1>6. files' = files /\ graph' = [graph EXCEPT !.numWords = Larger(@, n)]
    BY <1>1 DEF Moved
  <1> HIDE DEF line
  <1>7. line[1] \in WordRows /\ n \in Nat
    <2>1. line[1] \in WordRows
      BY <1>1, <1>5, RowSets, FirstOfLine
    <2>2. Lines[line[1]].row \in [index : Nat]
      BY <2>1 DEF WordRows
    <2> QED BY <2>1, <2>2 DEF RowOf
  <1>8. PICK m \in Nat : m = Larger(graph.numWords, n) /\ m >= graph.numWords /\ m >= n
    BY <1>2, <1>7 DEF Larger, GraphType
  <1> HIDE DEF n
  <1>9. graph' = [numWords |-> m, known |-> {}, edges |-> <<>>, capacity |-> graph.capacity,
                  invalid |-> {}]
    BY <1>2, <1>6, <1>8 DEF GraphType, Counting
  <1>10. GraphType'
    BY <1>2, <1>6, <1>9 DEF GraphType
  <1>11. ASSUME file.complete PROVE \E j : Behind(file, reader', j) /\ CountedTo(j)'
    <2>1. PICK j : Behind(file, reader, j) /\ CountedTo(j)
      BY <1>2, <1>3, <1>11 DEF Counting
    <2>2. /\ j + 1 \in 1 .. Len(file.rows) /\ line = Lines[file.rows[j + 1]].text
          /\ Behind(file, reader', j + 1)
      BY <1>1, <1>4, <1>11, <2>1, RowSets, RowRead DEF ReaderRight, Moved, line
    <2>3. RowOf(line) = Lines[file.rows[j + 1]].row
      <3>1. file.rows[j + 1] \in DOMAIN Lines
        BY <1>4, <1>11, <2>2, RowSets, FileEnds
      <3> QED BY <2>2, <3>1, WholeLine
    <2>4. ASSUME NEW i \in 1 .. j + 1 PROVE WordAt(i)' < graph'.numWords
      <3>1. WordAt(i)' = Lines[file.rows[i]].row.index
        BY <1>3, <1>6 DEF WordAt
      <3>2. file.rows[i] \in WordRows
        BY <1>4, <2>2 DEF IsFile
      <3>3. Lines[file.rows[i]].row.index \in Nat
        BY <3>2 DEF WordRows
      <3>4. CASE i = j + 1
        BY <1>8, <1>9, <2>3, <3>1, <3>3, <3>4 DEF n
      <3>5. CASE i # j + 1
        <4>1. i \in 1 .. j
          <5>1. j \in Int
            BY <2>1 DEF Behind
          <5> QED BY <3>5, <5>1
        <4>2. Lines[file.rows[i]].row.index < graph.numWords
          BY <1>3, <2>1, <4>1 DEF CountedTo, WordAt
        <4> QED BY <1>2, <1>8, <1>9, <3>1, <3>3, <4>2 DEF GraphType
      <3> QED BY <3>4, <3>5
    <2>5. CountedTo(j + 1)'
      BY <2>4 DEF CountedTo
    <2> QED BY <2>2, <2>5
  <1>12. Counting'
    BY <1>3, <1>5, <1>6, <1>9, <1>11 DEF Counting
  <1> QED BY <1>2, <1>9, <1>10, <1>12 DEF GraphInv

LEMMA CountEndStep == GraphInv /\ CountEnd => GraphInv'
  <1> SUFFICES ASSUME GraphInv, CountEnd PROVE GraphInv'
    OBVIOUS
  <1>1. /\ loading = "count" /\ ~HasNext(reader) /\ loading' = "words" /\ graph' = graph
        /\ files' = files /\ reader' = GZIterator(files.words)
    BY DEF CountEnd, Finished, AtEnd
  <1>2. Counting /\ GraphType
    BY <1>1 DEF GraphInv
  <1>3. PICK file : file = files.words
    OBVIOUS
  <1>4. IsFile(file, WordRows) /\ ReaderRight(file, WordRows)
    BY <1>2, <1>3, FilesAre DEF Counting, GraphType
  <1>5. file.complete
    BY <1>1, <1>4, FileType, RowSets, PlaceProperties DEF ReaderRight
  <1>6. CountedTo(Len(file.rows))
    <2>1. PICK j : Behind(file, reader, j) /\ CountedTo(j)
      BY <1>2, <1>3, <1>5 DEF Counting
    <2>2. j = Len(file.rows)
      BY <1>1, <1>4, <1>5, <2>1, RowSets, RowRead DEF ReaderRight
    <2> QED BY <2>1, <2>2
  <1>7. ReaderRight(file, WordRows)' /\ Behind(file, reader', 0)
    BY <1>1, <1>3, <1>4, <1>5, RowSets, OpenedRight DEF ReaderRight
  <1>8. KnownTo(0)'
    BY <1>1, <1>2 DEF KnownTo, Counting
  <1>9. CountedTo(Len(file.rows))' /\ GraphType'
    BY <1>1, <1>2, <1>6, UnchangedKeeps
  <1>10. ReadingWords'
    BY <1>1, <1>2, <1>3, <1>5, <1>7, <1>8, <1>9 DEF ReadingWords, Counting
  <1> QED BY <1>1, <1>2, <1>9, <1>10 DEF GraphInv, Counting

LEMMA WordRowIs ==
  WordRow =>
    \/ Stopped
    \/ Moved("words", [graph EXCEPT !.known = @ \cup {RowOf(NextLine(reader).line).index}])
  BY DEF WordRow, Row, ReadWord, Stop, Take, Stopped, Moved

LEMMA WordRowStep == GraphInv /\ WordRow => GraphInv'
  <1> SUFFICES ASSUME GraphInv, WordRow, ~Stopped PROVE GraphInv'
    BY StoppedKeeps
  <1> DEFINE line == NextLine(reader).line
             w == RowOf(line).index
  <1>1. Moved("words", [graph EXCEPT !.known = @ \cup {w}])
    BY WordRowIs
  <1>2. ReadingWords /\ GraphType /\ loading = "words" /\ loading' = "words"
    BY <1>1 DEF GraphInv, Moved
  <1>3. PICK file : file = files.words
    OBVIOUS
  <1>4. IsFile(file, WordRows) /\ ReaderRight(file, WordRows) /\ file.complete
    BY <1>2, <1>3, FilesAre DEF ReadingWords, GraphType
  <1>5. ReaderRight(file, WordRows)'
    <2>1. reader' = NextLine(reader).reader
      BY <1>1 DEF Moved
    <2> QED BY <1>4, <2>1, RowSets, MovedReader
  <1>6. files' = files /\ graph' = [graph EXCEPT !.known = @ \cup {w}]
    BY <1>1 DEF Moved
  <1>7. PICK j : Behind(file, reader, j) /\ KnownTo(j)
    BY <1>2, <1>3 DEF ReadingWords
  <1>8. /\ j + 1 \in 1 .. Len(file.rows) /\ line = Lines[file.rows[j + 1]].text
        /\ Behind(file, reader', j + 1)
    BY <1>1, <1>4, <1>7, RowSets, RowRead DEF ReaderRight, Moved
  <1> HIDE DEF line
  <1>9. RowOf(line) = Lines[file.rows[j + 1]].row
    <2>1. file.rows[j + 1] \in DOMAIN Lines
      BY <1>4, <1>8, RowSets, FileEnds
    <2> QED BY <1>8, <2>1, WholeLine
  <1>10. w = WordAt(j + 1)
    BY <1>3, <1>9 DEF WordAt
  <1> HIDE DEF w
  <1>11. graph' = [numWords |-> graph.numWords, known |-> graph.known \cup {w}, edges |-> <<>>,
                   capacity |-> graph.capacity, invalid |-> {}]
    BY <1>2, <1>6 DEF GraphType, ReadingWords
  <1>12. GraphType'
    BY <1>2, <1>6, <1>11 DEF GraphType
  <1>13. CountedTo(Len(file.rows))'
    BY <1>2, <1>3, <1>6, <1>11 DEF CountedTo, ReadingWords, WordAt
  <1>14. KnownTo(j + 1)'
    <2>1. \A i : WordAt(i)' = WordAt(i)
      BY <1>6 DEF WordAt
    <2>2. 1 .. j + 1 = (1 .. j) \cup {j + 1}
      <3>1. j \in Int /\ j + 1 >= 1
        BY <1>7, <1>8 DEF Behind
      <3> QED BY <3>1
    <2>3. graph'.known = {WordAt(i) : i \in 1 .. j} \cup {WordAt(j + 1)}
      BY <1>7, <1>10, <1>11 DEF KnownTo
    <2>4. graph'.known = {WordAt(i)' : i \in 1 .. j + 1}
      BY <2>1, <2>2, <2>3
    <2> QED BY <2>4 DEF KnownTo
  <1>15. ReadingWords'
    BY <1>3, <1>4, <1>5, <1>6, <1>8, <1>11, <1>13, <1>14 DEF ReadingWords
  <1> QED BY <1>2, <1>11, <1>12, <1>15 DEF GraphInv

LEMMA EmptyLists ==
  ASSUME NEW rows, NEW places, places = {}
  PROVE  Lists(<<>>, rows, places)
  <1> DEFINE place == [k \in {} |-> k]
  <1>1. place \in Bijection(DOMAIN <<>>, places)
    BY DEF Bijection, Injection, Surjection, IsInjective
  <1> QED BY <1>1 DEF Lists

LEMMA WordEndStep == GraphInv /\ WordEnd => GraphInv'
  <1> SUFFICES ASSUME GraphInv, WordEnd PROVE GraphInv'
    OBVIOUS
  <1>1. /\ loading = "words" /\ ~HasNext(reader) /\ loading' = "edges" /\ graph' = Allocated(graph)
        /\ files' = files /\ reader' = GZIterator(files.edges)
    BY DEF WordEnd, Finished, AtEnd
  <1>2. ReadingWords /\ GraphType
    BY <1>1 DEF GraphInv
  <1>3. PICK file : file = files.words
    OBVIOUS
  <1>4. IsFile(file, WordRows) /\ ReaderRight(file, WordRows) /\ file.complete
    BY <1>2, <1>3, FilesAre DEF ReadingWords, GraphType
  <1>5. KnownTo(Len(file.rows)) /\ CountedTo(Len(file.rows))
    <2>1. PICK j : Behind(file, reader, j) /\ KnownTo(j)
      BY <1>2, <1>3 DEF ReadingWords
    <2>2. j = Len(file.rows)
      BY <1>1, <1>4, <2>1, RowSets, RowRead DEF ReaderRight
    <2> QED BY <1>2, <1>3, <2>1, <2>2 DEF ReadingWords
  <1>6. graph' = [numWords |-> graph.numWords, known |-> graph.known,
                  edges |-> [w \in 0 .. graph.numWords - 1 |-> <<>>],
                  capacity |-> [w \in 0 .. graph.numWords - 1 |-> InitialCapacity], invalid |-> {}]
    BY <1>1, <1>2 DEF GraphType, ReadingWords, Allocated
  <1>7. WordsRead' /\ GraphType'
    <2>1. CountedTo(Len(file.rows))' /\ KnownTo(Len(file.rows))'
      BY <1>1, <1>5, <1>6 DEF CountedTo, KnownTo, WordAt
    <2> QED BY <1>1, <1>2, <1>3, <1>4, <1>6, <2>1 DEF GraphType, WordsRead
  <1>8. ArraysRight'
    BY <1>2, <1>6, GraphAssumption DEF ArraysRight, GraphType
  <1>9. PICK next : next = files.edges
    OBVIOUS
  <1>10. ReaderRight(next, EdgeRows)' /\ (next.complete => Behind(next, reader', 0))
    BY <1>1, <1>2, <1>9, FilesAre, RowSets, OpenedRight DEF ReaderRight, GraphType
  <1>11. ListedTo(0)'
    <2>1. PICK rows : rows = next.rows
      OBVIOUS
    <2>2. rows \in Seq(EdgeRows)
      BY <1>2, <1>9, <2>1, FilesAre DEF GraphType, IsFile
    <2>3. ASSUME NEW w \in 0 .. graph'.numWords - 1
          PROVE  Lists(graph'.edges[w], rows, {k \in EdgesTo(rows, w) : k <= 0})
      <3>1. graph'.edges[w] = <<>>
        BY <1>6, <2>3
      <3>2. {k \in EdgesTo(rows, w) : k <= 0} = {}
        BY <2>2 DEF EdgesTo
      <3> QED BY <3>1, <3>2, EmptyLists
    <2> QED BY <1>1, <1>9, <2>1, <2>3 DEF ListedTo
  <1>12. ReadingEdges'
    BY <1>1, <1>6, <1>7, <1>8, <1>9, <1>10, <1>11 DEF ReadingEdges
  <1> QED BY <1>1, <1>7, <1>8, <1>12 DEF GraphInv

LEMMA ListsAppend ==
  ASSUME NEW list \in Seq(Edges), NEW rows, NEW places, Lists(list, rows, places),
         NEW k, k \notin places, NEW e, e = Lines[rows[k]].row
  PROVE  Lists(Append(list, e), rows, places \cup {k})
  <1>1. PICK place \in Bijection(DOMAIN list, places) :
          \A i \in DOMAIN list : list[i] = Lines[rows[place[i]]].row
    BY DEF Lists
  <1>2. PICK n \in Nat : n = Len(list) /\ DOMAIN list = 1 .. n
    OBVIOUS
  <1>3. /\ place \in [1 .. n -> places]
        /\ \A a, b \in 1 .. n : place[a] = place[b] => a = b
        /\ \A t \in places : \E s \in 1 .. n : place[s] = t
    BY <1>1, <1>2 DEF Bijection, Injection, Surjection, IsInjective
  <1> DEFINE more == [i \in 1 .. n + 1 |-> IF i = n + 1 THEN k ELSE place[i]]
  <1>4. more \in [1 .. n + 1 -> places \cup {k}]
    BY <1>3
  <1>5. \A a, b \in 1 .. n + 1 : more[a] = more[b] => a = b
    BY <1>3
  <1>6. \A t \in places \cup {k} : \E s \in 1 .. n + 1 : more[s] = t
    <2>1. ASSUME NEW t \in places PROVE \E s \in 1 .. n + 1 : more[s] = t
      <3>1. PICK s \in 1 .. n : place[s] = t
        BY <1>3
      <3>2. s \in 1 .. n + 1 /\ more[s] = t
        BY <3>1
      <3> QED BY <3>2
    <2>2. n + 1 \in 1 .. n + 1 /\ more[n + 1] = k
      OBVIOUS
    <2> QED BY <2>1, <2>2
  <1>7. Append(list, e) = [i \in 1 .. n + 1 |-> IF i = n + 1 THEN e ELSE list[i]]
    BY <1>2
  <1>8. \A i \in 1 .. n + 1 : Append(list, e)[i] = Lines[rows[more[i]]].row
    BY <1>1, <1>2, <1>7
  <1>9. DOMAIN Append(list, e) = 1 .. n + 1
    BY <1>7
  <1>10. more \in Bijection(1 .. n + 1, places \cup {k})
    <2> HIDE DEF more
    <2>1. DOMAIN more = 1 .. n + 1
      BY <1>4
    <2> QED BY <1>4, <1>5, <1>6, <2>1 DEF Bijection, Injection, Surjection, IsInjective
  <1> HIDE DEF more
  <1> QED BY <1>8, <1>9, <1>10 DEF Lists

LEMMA EdgeRowIs ==
  EdgeRow =>
    \/ Stopped
    \/ \E e : /\ \/ IsWhole(NextLine(reader).line) /\ e = EdgeOf(RowOf(NextLine(reader).line))
                \/ /\ ~IsWhole(NextLine(reader).line) /\ IsCut(NextLine(reader).line)
                   /\ e = [EdgeOf(RowOf(NextLine(reader).line)) EXCEPT !.cost = 0]
             /\ ~Invalid(e)
             /\ \/ IsIdentity(e) /\ Moved("edges", graph)
                \/ ~IsIdentity(e) /\ Moved("edges", AddEdge(graph, e))
  BY DEF EdgeRow, Row, ReadEdge, ReadEdgeRow, Stop, Take, Stopped, Moved

LEMMA EdgeOfIs ==
  ASSUME NEW e \in Edges
  PROVE  EdgeOf(e) = e /\ [e EXCEPT !.cost = 0] \in Edges
  <1>1. e.source_sense \in 0 .. 255 /\ e.sink_sense \in 0 .. 255
    BY DEF Edges
  <1>2. e.source_sense % 256 = e.source_sense /\ e.sink_sense % 256 = e.sink_sense
    BY <1>1
  <1>3. EdgeOf(e) = e
    BY <1>2 DEF EdgeOf, Edges
  <1> QED BY <1>3 DEF Edges

LEMMA EdgeLine ==
  ASSUME NEW line \in Seq(Held(EdgeRows)), IsWhole(line) \/ IsCut(line)
  PROVE  line[1] \in EdgeRows /\ RowOf(line) \in Edges
  <1>1. line # <<>> /\ line[1] \in DOMAIN Lines
    BY DEF IsWhole, IsCut
  <1>2. line[1] \in EdgeRows
    BY <1>1, RowSets, FirstOfLine
  <1> QED BY <1>2 DEF EdgeRows, Edges, RowOf

LEMMA AddEdgeKeeps ==
  ASSUME GraphType, ArraysRight, NEW e \in Edges, e.sink < graph.numWords,
         graph' = AddEdge(graph, e), files' = files
  PROVE  /\ GraphType' /\ ArraysRight'
         /\ graph'.numWords = graph.numWords /\ graph'.known = graph.known
         /\ graph'.invalid = graph.invalid
         /\ \A w \in 0 .. graph.numWords - 1 :
              graph'.edges[w] = IF w = e.sink THEN Append(graph.edges[w], e) ELSE graph.edges[w]
  <1>1. PICK n \in Nat : n = graph.numWords
    BY DEF GraphType
  <1>2. PICK s \in 0 .. n - 1 : s = e.sink
    BY <1>1 DEF Edges
  <1>3. PICK edges \in [0 .. n - 1 -> Seq(Edges)] : edges = graph.edges
    BY <1>1 DEF ArraysRight
  <1>4. PICK capacity \in [0 .. n - 1 -> Nat] : capacity = graph.capacity
    BY <1>1 DEF ArraysRight
  <1>5. PICK room \in Nat : room = Grow(capacity[s], Len(edges[s])) /\ Len(edges[s]) + 1 < room
    <2>1. capacity[s] \in Nat /\ Len(edges[s]) \in Nat /\ Len(edges[s]) < capacity[s]
      BY <1>1, <1>3, <1>4 DEF ArraysRight
    <2> QED BY <2>1 DEF Grow
  <1>6. graph' = [numWords |-> n, known |-> graph.known,
                  edges |-> [edges EXCEPT ![s] = Append(@, e)],
                  capacity |-> [capacity EXCEPT ![s] = room], invalid |-> graph.invalid]
    BY <1>1, <1>2, <1>3, <1>4, <1>5 DEF AddEdge, GraphType
  <1>7. GraphType'
    BY <1>6 DEF GraphType
  <1>8. \A w \in 0 .. n - 1 : edges[w] \in Seq(Edges) /\ Len(edges[w]) < capacity[w]
    BY <1>1, <1>3, <1>4 DEF ArraysRight
  <1>9. ArraysRight'
    <2>1. graph'.edges \in [0 .. n - 1 -> Seq(Edges)] /\ graph'.capacity \in [0 .. n - 1 -> Nat]
      BY <1>6
    <2>2. ASSUME NEW w \in 0 .. n - 1 PROVE Len(graph'.edges[w]) < graph'.capacity[w]
      <3>1. CASE w = s
        BY <1>5, <1>6, <1>8, <3>1
      <3>2. CASE w # s
        BY <1>6, <1>8, <3>2
      <3> QED BY <3>1, <3>2
    <2> QED BY <1>6, <2>1, <2>2 DEF ArraysRight
  <1> QED BY <1>1, <1>2, <1>3, <1>6, <1>7, <1>9

(* The lists of the first j + 1 rows, from those of the first j.           *)
LEMMA ListedNext ==
  ASSUME NEW rows \in Seq(EdgeRows), NEW j \in 0 .. Len(rows) - 1,
         NEW e \in Edges, e = Lines[rows[j + 1]].row,
         NEW w, NEW list \in Seq(Edges), Lists(list, rows, {k \in EdgesTo(rows, w) : k <= j})
  PROVE  Lists(IF w = e.sink /\ ~IsIdentity(e) THEN Append(list, e) ELSE list,
               rows, {k \in EdgesTo(rows, w) : k <= j + 1})
  <1>1. j + 1 \in DOMAIN rows /\ DOMAIN rows \subseteq Nat /\ j \in Nat
    OBVIOUS
  <1>2. j + 1 \in EdgesTo(rows, w) <=> e.sink = w /\ ~IsIdentity(e)
    BY <1>1 DEF EdgesTo
  <1>3. EdgesTo(rows, w) \subseteq Nat
    BY <1>1 DEF EdgesTo
  <1>4. PICK places : places = {k \in EdgesTo(rows, w) : k <= j}
    OBVIOUS
  <1>5. PICK more : more = {k \in EdgesTo(rows, w) : k <= j + 1}
    OBVIOUS
  <1>6. Lists(list, rows, places)
    BY <1>4
  <1>7. CASE w = e.sink /\ ~IsIdentity(e)
    <2>1. more = places \cup {j + 1} /\ j + 1 \notin places
      BY <1>1, <1>2, <1>3, <1>4, <1>5, <1>7
    <2>2. Lists(Append(list, e), rows, places \cup {j + 1})
      BY <1>6, <2>1, ListsAppend
    <2> QED BY <1>5, <1>7, <2>1, <2>2
  <1>8. CASE ~(w = e.sink /\ ~IsIdentity(e))
    <2>1. more = places
      BY <1>1, <1>2, <1>3, <1>4, <1>5, <1>8
    <2> QED BY <1>4, <1>5, <1>6, <1>8, <2>1
  <1> QED BY <1>7, <1>8

LEMMA EdgeRowStep == GraphInv /\ EdgeRow => GraphInv'
  <1> SUFFICES ASSUME GraphInv, EdgeRow, ~Stopped PROVE GraphInv'
    BY StoppedKeeps
  <1>1. PICK line : line = NextLine(reader).line
    OBVIOUS
  <1>2. PICK e : /\ \/ IsWhole(line) /\ e = EdgeOf(RowOf(line))
                    \/ ~IsWhole(line) /\ IsCut(line) /\ e = [EdgeOf(RowOf(line)) EXCEPT !.cost = 0]
                 /\ ~Invalid(e)
                 /\ \/ IsIdentity(e) /\ Moved("edges", graph)
                    \/ ~IsIdentity(e) /\ Moved("edges", AddEdge(graph, e))
    BY <1>1, EdgeRowIs
  <1>3. /\ loading = "edges" /\ loading' = "edges" /\ files' = files /\ HasNext(reader)
        /\ ~TooLong(line) /\ reader' = NextLine(reader).reader
        /\ graph' = IF IsIdentity(e) THEN graph ELSE AddEdge(graph, e)
    BY <1>1, <1>2 DEF Moved
  <1>4. ReadingEdges /\ GraphType
    BY <1>3 DEF GraphInv
  <1>5. PICK file : file = files.edges
    OBVIOUS
  <1>6. IsFile(file, EdgeRows) /\ ReaderRight(file, EdgeRows)
    BY <1>4, <1>5, FilesAre DEF ReadingEdges, GraphType
  <1>7. ReaderRight(file, EdgeRows)' /\ line \in Seq(Held(EdgeRows))
    BY <1>1, <1>3, <1>6, RowSets, MovedReader
  <1>8. e \in Edges /\ (IsWhole(line) => e = RowOf(line))
    <2>1. line[1] \in EdgeRows /\ RowOf(line) \in Edges
      BY <1>2, <1>7, EdgeLine
    <2> QED BY <1>2, <2>1, EdgeOfIs
  <1>9. e.sink < graph.numWords
    BY <1>4, <1>8, <1>2 DEF Invalid, GraphType, Edges
  <1>10. /\ GraphType' /\ ArraysRight'
         /\ graph'.numWords = graph.numWords /\ graph'.known = graph.known
         /\ graph'.invalid = graph.invalid
         /\ \A w \in 0 .. graph.numWords - 1 :
              graph'.edges[w] = IF w = e.sink /\ ~IsIdentity(e) THEN Append(graph.edges[w], e)
                                                               ELSE graph.edges[w]
    <2>1. CASE IsIdentity(e)
      <3>1. graph' = graph
        BY <1>3, <2>1
      <3>2. GraphType' /\ ArraysRight'
        BY <1>3, <1>4, <3>1, UnchangedKeeps DEF ReadingEdges
      <3> QED BY <2>1, <3>1, <3>2
    <2>2. CASE ~IsIdentity(e)
      <3>1. graph' = AddEdge(graph, e) /\ ArraysRight
        BY <1>3, <1>4, <2>2 DEF ReadingEdges
      <3> QED BY <1>3, <1>4, <1>8, <1>9, <2>2, <3>1, AddEdgeKeeps
    <2> QED BY <2>1, <2>2
  <1>11. WordsRead' /\ graph'.invalid = {}
    BY <1>3, <1>4, <1>10 DEF ReadingEdges, WordsRead, CountedTo, KnownTo, WordAt
  <1>12. ASSUME file.complete PROVE \E j : Behind(file, reader', j) /\ ListedTo(j)'
    <2>1. PICK j : Behind(file, reader, j) /\ ListedTo(j)
      BY <1>4, <1>5, <1>12 DEF ReadingEdges
    <2>2. /\ j + 1 \in 1 .. Len(file.rows) /\ line = Lines[file.rows[j + 1]].text
          /\ Behind(file, reader', j + 1)
      BY <1>1, <1>3, <1>6, <1>12, <2>1, RowSets, RowRead DEF ReaderRight
    <2>3. PICK rows \in Seq(EdgeRows) : rows = file.rows
      BY <1>6 DEF IsFile
    <2>4. j \in 0 .. Len(rows) - 1
      BY <2>1, <2>2, <2>3 DEF Behind
    <2>5. e = Lines[rows[j + 1]].row
      <3>1. rows[j + 1] \in DOMAIN Lines
        BY <2>2, <2>3, RowSets
      <3> QED BY <1>8, <2>2, <2>3, <3>1, WholeLine
    <2>6. ASSUME NEW w \in 0 .. graph'.numWords - 1
          PROVE  Lists(graph'.edges[w], rows, {k \in EdgesTo(rows, w) : k <= j + 1})
      <3>1. w \in 0 .. graph.numWords - 1
        BY <1>10, <2>6
      <3>2. PICK list : list = graph.edges[w]
        OBVIOUS
      <3>3. list \in Seq(Edges)
        BY <1>4, <3>1, <3>2 DEF ReadingEdges, ArraysRight
      <3>4. Lists(list, rows, {k \in EdgesTo(rows, w) : k <= j})
        BY <1>5, <2>1, <2>3, <3>1, <3>2 DEF ListedTo
      <3>5. Lists(IF w = e.sink /\ ~IsIdentity(e) THEN Append(list, e) ELSE list,
                  rows, {k \in EdgesTo(rows, w) : k <= j + 1})
        BY <1>8, <2>4, <2>5, <3>3, <3>4, ListedNext
      <3>6. graph'.edges[w] = IF w = e.sink /\ ~IsIdentity(e) THEN Append(list, e) ELSE list
        BY <1>10, <3>1, <3>2
      <3> QED BY <3>5, <3>6
    <2>7. files'.edges.rows = rows
      BY <1>3, <1>5, <2>3
    <2>8. ListedTo(j + 1)'
      BY <2>6, <2>7 DEF ListedTo
    <2> QED BY <2>2, <2>8
  <1>13. ReadingEdges'
    BY <1>3, <1>5, <1>7, <1>10, <1>11, <1>12 DEF ReadingEdges
  <1> QED BY <1>3, <1>10, <1>13 DEF GraphInv

LEMMA EdgeEndStep == GraphInv /\ EdgeEnd => GraphInv'
  <1> SUFFICES ASSUME GraphInv, EdgeEnd PROVE GraphInv'
    OBVIOUS
  <1>1. /\ loading = "edges" /\ ~HasNext(reader) /\ loading' = "deletions" /\ graph' = graph
        /\ files' = files /\ reader' = GZIterator(files.deletions)
    BY DEF EdgeEnd, Finished, AtEnd
  <1>2. ReadingEdges /\ GraphType
    BY <1>1 DEF GraphInv
  <1>3. PICK file : file = files.edges
    OBVIOUS
  <1>4. IsFile(file, EdgeRows) /\ ReaderRight(file, EdgeRows)
    BY <1>2, <1>3, FilesAre DEF ReadingEdges, GraphType
  <1>5. file.complete
    BY <1>1, <1>4, FileType, RowSets, PlaceProperties DEF ReaderRight
  <1>6. EdgesRead
    <2>1. PICK j : Behind(file, reader, j) /\ ListedTo(j)
      BY <1>2, <1>3, <1>5 DEF ReadingEdges
    <2>2. j = Len(file.rows)
      BY <1>1, <1>4, <1>5, <2>1, RowSets, RowRead DEF ReaderRight
    <2> QED BY <1>3, <1>5, <2>1, <2>2 DEF EdgesRead
  <1>7. GraphType' /\ ArraysRight' /\ WordsRead' /\ EdgesRead'
    BY <1>1, <1>2, <1>6, UnchangedKeeps DEF ReadingEdges
  <1>8. PICK next : next = files.deletions
    OBVIOUS
  <1>9. ReaderRight(next, DeletionRows)' /\ (next.complete => Behind(next, reader', 0))
    BY <1>1, <1>2, <1>8, FilesAre, RowSets, OpenedRight DEF ReaderRight, GraphType
  <1>10. DeletedTo(0)'
    BY <1>1, <1>2 DEF DeletedTo, ReadingEdges
  <1>11. ReadingDeletions'
    BY <1>1, <1>7, <1>8, <1>9, <1>10 DEF ReadingDeletions
  <1> QED BY <1>1, <1>7, <1>11 DEF GraphInv

LEMMA DeletionRowIs ==
  DeletionRow =>
    \/ Stopped
    \/ Moved("deletions",
             [graph EXCEPT !.invalid = @ \cup {TaggedWord(RowOf(NextLine(reader).line).word,
                                                         RowOf(NextLine(reader).line).sense)}])
  BY DEF DeletionRow, Row, ReadDeletion, Stop, Take, Stopped, Moved

LEMMA TaggedWordIs ==
  ASSUME NEW w, NEW sense \in 0 .. Senses - 1
  PROVE  TaggedWord(w, sense) = <<w, sense>>
  <1>1. PICK n \in Nat : n = Senses /\ n > 0
    BY GraphAssumption
  <1>2. sense % n = sense
    BY <1>1
  <1> QED BY <1>1, <1>2 DEF TaggedWord

LEMMA DeletionRowStep == GraphInv /\ DeletionRow => GraphInv'
  <1> SUFFICES ASSUME GraphInv, DeletionRow, ~Stopped PROVE GraphInv'
    BY StoppedKeeps
  <1>1. PICK line : line = NextLine(reader).line
    OBVIOUS
  <1>2. PICK t : t = TaggedWord(RowOf(line).word, RowOf(line).sense)
    OBVIOUS
  <1>3. Moved("deletions", [graph EXCEPT !.invalid = @ \cup {t}])
    BY <1>1, <1>2, DeletionRowIs
  <1>4. /\ loading = "deletions" /\ loading' = "deletions" /\ files' = files /\ HasNext(reader)
        /\ ~TooLong(line) /\ reader' = NextLine(reader).reader
        /\ graph' = [graph EXCEPT !.invalid = @ \cup {t}]
    BY <1>1, <1>3 DEF Moved
  <1>5. ReadingDeletions /\ GraphType
    BY <1>4 DEF GraphInv
  <1>6. PICK file : file = files.deletions
    OBVIOUS
  <1>7. IsFile(file, DeletionRows) /\ ReaderRight(file, DeletionRows)
    BY <1>5, <1>6, FilesAre DEF ReadingDeletions, GraphType
  <1>8. ReaderRight(file, DeletionRows)'
    BY <1>4, <1>7, RowSets, MovedReader
  <1>9. graph' = [numWords |-> graph.numWords, known |-> graph.known, edges |-> graph.edges,
                  capacity |-> graph.capacity, invalid |-> graph.invalid \cup {t}]
    BY <1>4, <1>5 DEF GraphType
  <1>10. GraphType' /\ ArraysRight'
    BY <1>4, <1>5, <1>9 DEF GraphType, ReadingDeletions, ArraysRight
  <1>11. WordsRead' /\ EdgesRead'
    BY <1>4, <1>5, <1>9
       DEF ReadingDeletions, WordsRead, CountedTo, KnownTo, WordAt, EdgesRead, ListedTo
  <1>12. ASSUME file.complete PROVE \E j : Behind(file, reader', j) /\ DeletedTo(j)'
    <2>1. PICK j : Behind(file, reader, j) /\ DeletedTo(j)
      BY <1>5, <1>6, <1>12 DEF ReadingDeletions
    <2>2. /\ j + 1 \in 1 .. Len(file.rows) /\ line = Lines[file.rows[j + 1]].text
          /\ Behind(file, reader', j + 1)
      BY <1>1, <1>4, <1>7, <1>12, <2>1, RowSets, RowRead DEF ReaderRight
    <2>3. t = <<DeletionAt(j + 1).word, DeletionAt(j + 1).sense>>
      <3>1. file.rows[j + 1] \in DeletionRows
        BY <1>7, <2>2 DEF IsFile
      <3>2. RowOf(line) = Lines[file.rows[j + 1]].row
        BY <2>2, <3>1, RowSets, WholeLine
      <3>3. RowOf(line).sense \in 0 .. Senses - 1
        BY <3>1, <3>2 DEF DeletionRows
      <3> QED BY <1>2, <1>6, <3>2, <3>3, TaggedWordIs DEF DeletionAt
    <2>4. \A i : DeletionAt(i)' = DeletionAt(i)
      BY <1>4 DEF DeletionAt
    <2>5. 1 .. j + 1 = (1 .. j) \cup {j + 1}
      <3>1. j \in Int /\ j + 1 >= 1
        BY <2>1, <2>2 DEF Behind
      <3> QED BY <3>1
    <2>6. graph'.invalid = {<<DeletionAt(i).word, DeletionAt(i).sense>> : i \in 1 .. j} \cup {t}
      BY <1>9, <2>1 DEF DeletedTo
    <2>7. graph'.invalid = {<<DeletionAt(i)'.word, DeletionAt(i)'.sense>> : i \in 1 .. j + 1}
      BY <2>3, <2>4, <2>5, <2>6
    <2> QED BY <2>2, <2>7 DEF DeletedTo
  <1>13. ReadingDeletions'
    BY <1>4, <1>6, <1>8, <1>10, <1>11, <1>12 DEF ReadingDeletions
  <1> QED BY <1>4, <1>10, <1>13 DEF GraphInv

(* Sorting changes the order of a list and nothing else.                   *)
LEMMA SortedKeeps ==
  ASSUME NEW list \in Seq(Edges), NEW sorted \in Sorted(list)
  PROVE  /\ sorted \in Seq(Edges) /\ Len(sorted) = Len(list) /\ DOMAIN sorted = DOMAIN list
         /\ \A k, l \in DOMAIN sorted : k < l => ~Precedes(sorted[l], sorted[k])
         /\ \A rows, places : Lists(list, rows, places) => Lists(sorted, rows, places)
  <1>1. PICK n \in Nat : n = Len(list) /\ DOMAIN list = 1 .. n
    OBVIOUS
  <1>2. PICK order \in Bijection(1 .. n, 1 .. n) :
           /\ sorted = [k \in 1 .. n |-> list[order[k]]]
           /\ \A k, l \in 1 .. n : k < l => ~Precedes(sorted[l], sorted[k])
    BY <1>1 DEF Sorted
  <1>3. /\ order \in [1 .. n -> 1 .. n]
        /\ \A a, b \in 1 .. n : order[a] = order[b] => a = b
        /\ \A t \in 1 .. n : \E s \in 1 .. n : order[s] = t
    BY <1>2 DEF Bijection, Injection, Surjection, IsInjective
  <1>4. sorted \in [1 .. n -> Edges]
    BY <1>1, <1>2, <1>3
  <1>5. sorted \in Seq(Edges) /\ Len(sorted) = n /\ DOMAIN sorted = 1 .. n
    <2>1. sorted \in Seq(Edges)
      BY <1>4, SeqDef
    <2> QED BY <1>4, <2>1
  <1>6. ASSUME NEW rows, NEW places, Lists(list, rows, places) PROVE Lists(sorted, rows, places)
    <2>1. PICK place \in Bijection(1 .. n, places) :
             \A k \in 1 .. n : list[k] = Lines[rows[place[k]]].row
      BY <1>1, <1>6 DEF Lists
    <2>2. /\ place \in [1 .. n -> places]
          /\ \A a, b \in 1 .. n : place[a] = place[b] => a = b
          /\ \A t \in places : \E s \in 1 .. n : place[s] = t
      BY <2>1 DEF Bijection, Injection, Surjection, IsInjective
    <2> DEFINE at == [k \in 1 .. n |-> place[order[k]]]
    <2>3. at \in [1 .. n -> places] /\ \A a, b \in 1 .. n : at[a] = at[b] => a = b
      BY <1>3, <2>2
    <2>4. \A t \in places : \E s \in 1 .. n : at[s] = t
      <3>1. ASSUME NEW t \in places PROVE \E s \in 1 .. n : at[s] = t
        <4>1. PICK s \in 1 .. n : place[s] = t
          BY <2>2
        <4>2. PICK r \in 1 .. n : order[r] = s
          BY <1>3
        <4> QED BY <4>1, <4>2
      <3> QED BY <3>1
    <2>5. \A k \in 1 .. n : sorted[k] = Lines[rows[at[k]]].row
      BY <1>2, <1>3, <2>1
    <2> HIDE DEF at
    <2>6. DOMAIN at = 1 .. n
      BY <2>3
    <2>7. at \in Bijection(1 .. n, places)
      BY <2>3, <2>4, <2>6 DEF Bijection, Injection, Surjection, IsInjective
    <2> QED BY <1>5, <2>5, <2>7 DEF Lists
  <1> QED BY <1>1, <1>2, <1>5, <1>6

LEMMA DeletionEndStep == GraphInv /\ DeletionEnd => GraphInv'
  <1> SUFFICES ASSUME GraphInv, DeletionEnd PROVE GraphInv'
    OBVIOUS
  <1>1. PICK lists \in SortedLists :
           /\ loading = "deletions" /\ ~HasNext(reader) /\ loading' = "done" /\ files' = files
           /\ graph' = [graph EXCEPT !.edges = lists]
    BY DEF DeletionEnd, Finished, AtEnd
  <1>2. ReadingDeletions /\ GraphType
    BY <1>1 DEF GraphInv
  <1>3. PICK file : file = files.deletions
    OBVIOUS
  <1>4. IsFile(file, DeletionRows) /\ ReaderRight(file, DeletionRows)
    BY <1>2, <1>3, FilesAre DEF ReadingDeletions, GraphType
  <1>5. file.complete
    BY <1>1, <1>4, FileType, RowSets, PlaceProperties DEF ReaderRight
  <1>6. DeletedTo(Len(file.rows))
    <2>1. PICK j : Behind(file, reader, j) /\ DeletedTo(j)
      BY <1>2, <1>3, <1>5 DEF ReadingDeletions
    <2>2. j = Len(file.rows)
      BY <1>1, <1>4, <1>5, <2>1, RowSets, RowRead DEF ReaderRight
    <2> QED BY <2>1, <2>2
  <1>7. PICK n \in Nat : n = graph.numWords
    BY <1>2 DEF GraphType
  <1>8. PICK edges \in [0 .. n - 1 -> Seq(Edges)] : edges = graph.edges
    BY <1>2, <1>7 DEF ArraysRight, ReadingDeletions
  <1>9. lists = [w \in 0 .. n - 1 |-> lists[w]] /\ \A w \in 0 .. n - 1 : lists[w] \in Sorted(edges[w])
    <2>1. DOMAIN edges = 0 .. n - 1
      OBVIOUS
    <2> QED BY <1>8, <2>1 DEF SortedLists
  <1>10. ASSUME NEW w \in 0 .. n - 1
         PROVE  /\ lists[w] \in Seq(Edges) /\ Len(lists[w]) = Len(edges[w])
                /\ \A k, l \in DOMAIN lists[w] : k < l => ~Precedes(lists[w][l], lists[w][k])
                /\ \A rows, places : Lists(edges[w], rows, places) => Lists(lists[w], rows, places)
    <2>1. edges[w] \in Seq(Edges) /\ lists[w] \in Sorted(edges[w])
      BY <1>9
    <2> QED BY <2>1, SortedKeeps
  <1>11. graph' = [numWords |-> n, known |-> graph.known, edges |-> lists,
                   capacity |-> graph.capacity, invalid |-> graph.invalid]
    BY <1>1, <1>2, <1>7 DEF GraphType
  <1>12. GraphType'
    BY <1>1, <1>2, <1>11 DEF GraphType
  <1>13. ArraysRight'
    <2>1. lists \in [0 .. n - 1 -> Seq(Edges)]
      BY <1>9, <1>10
    <2>2. \A w \in 0 .. n - 1 : Len(lists[w]) < graph.capacity[w]
      BY <1>2, <1>7, <1>8, <1>10 DEF ArraysRight, ReadingDeletions
    <2> QED BY <1>2, <1>7, <1>11, <2>1, <2>2 DEF ArraysRight, ReadingDeletions
  <1>14. WordsRead'
    BY <1>1, <1>2, <1>7, <1>11 DEF ReadingDeletions, WordsRead, CountedTo, KnownTo, WordAt
  <1>15. EdgesRead'
    <2>1. PICK rows : rows = files.edges.rows
      OBVIOUS
    <2>2. \A w \in 0 .. n - 1 : Lists(edges[w], rows, {k \in EdgesTo(rows, w) : k <= Len(rows)})
      BY <1>2, <1>7, <1>8, <2>1 DEF ReadingDeletions, EdgesRead, ListedTo
    <2>3. \A w \in 0 .. n - 1 : Lists(lists[w], rows, {k \in EdgesTo(rows, w) : k <= Len(rows)})
      BY <1>10, <2>2
    <2>4. ListedTo(Len(rows))'
      <3>1. graph'.numWords = n /\ graph'.edges = lists /\ files'.edges.rows = rows
        BY <1>1, <1>11, <2>1
      <3> QED BY <2>3, <3>1 DEF ListedTo
    <2>5. files'.edges.complete
      BY <1>1, <1>2 DEF ReadingDeletions, EdgesRead
    <2> QED BY <1>1, <2>1, <2>4, <2>5 DEF EdgesRead
  <1>16. DeletionsRead'
    BY <1>1, <1>3, <1>5, <1>6, <1>11 DEF DeletionsRead, DeletedTo, DeletionAt
  <1>17. IsSortedGraph'
    BY <1>10, <1>11 DEF IsSortedGraph
  <1>18. AllRead'
    BY <1>13, <1>14, <1>15, <1>16, <1>17 DEF AllRead
  <1> QED BY <1>1, <1>12, <1>13, <1>18 DEF GraphInv

LEMMA GraphInvNext == GraphInv /\ [GraphNext]_graphVars => GraphInv'
  <1>1. ASSUME GraphInv, UNCHANGED graphVars PROVE GraphInv'
    <2>1. files' = files /\ reader' = reader /\ loading' = loading /\ graph' = graph
      BY <1>1 DEF graphVars
    <2>2. \A file, rows : ReaderRight(file, rows)' = ReaderRight(file, rows)
      BY <2>1 DEF ReaderRight
    <2>3. (Counting => Counting') /\ (ReadingWords => ReadingWords')
      BY <2>1, UnchangedKeeps DEF Counting, ReadingWords, ReaderRight
    <2>4. (ReadingEdges => ReadingEdges') /\ (ReadingDeletions => ReadingDeletions')
      BY <2>1, UnchangedKeeps DEF ReadingEdges, ReadingDeletions, ReaderRight
    <2>5. AllRead => AllRead'
      BY <2>1, UnchangedKeeps DEF AllRead, DeletionsRead, IsSortedGraph
    <2> QED BY <1>1, <2>1, <2>3, <2>4, <2>5, UnchangedKeeps DEF GraphInv
  <1> QED BY <1>1, CountRowStep, CountEndStep, WordRowStep, WordEndStep, EdgeRowStep, EdgeEndStep,
             DeletionRowStep, DeletionEndStep DEF GraphNext

-------------------------------------------------------------------------------
LEMMA GraphInvLists == GraphInv => ListsRight
  <1> SUFFICES ASSUME GraphInv PROVE ListsRight
    OBVIOUS
  <1>1. CASE graph.edges = <<>>
    BY <1>1 DEF ListsRight
  <1>2. CASE ArraysRight
    BY <1>2 DEF GraphInv, ListsRight, ArraysRight, AllRead, IsSortedGraph
  <1> QED BY <1>1, <1>2 DEF GraphInv

(* What the lists of a word are, of which every row is listed.             *)
LEMMA IncomingEdgesAre ==
  ASSUME NEW rows \in Seq(EdgeRows), NEW w, NEW list, Lists(list, rows, EdgesTo(rows, w))
  PROVE  Range(list) = {e \in {Lines[c].row : c \in Range(rows)} : ~IsIdentity(e) /\ e.sink = w}
  <1>1. PICK place \in Bijection(DOMAIN list, EdgesTo(rows, w)) :
           \A k \in DOMAIN list : list[k] = Lines[rows[place[k]]].row
    BY DEF Lists
  <1>2. /\ place \in [DOMAIN list -> EdgesTo(rows, w)]
        /\ \A t \in EdgesTo(rows, w) : \E s \in DOMAIN list : place[s] = t
    BY <1>1 DEF Bijection, Injection, Surjection
  <1>3. ASSUME NEW e \in Range(list)
        PROVE  e \in {Lines[c].row : c \in Range(rows)} /\ ~IsIdentity(e) /\ e.sink = w
    <2>1. PICK k \in DOMAIN list : e = list[k]
      BY <1>3 DEF Range
    <2>2. PICK t \in EdgesTo(rows, w) : t = place[k]
      BY <1>2, <2>1
    <2>3. e = Lines[rows[t]].row
      BY <1>1, <2>1, <2>2
    <2>4. rows[t] \in Range(rows) /\ ~IsIdentity(e) /\ e.sink = w
      BY <2>2, <2>3 DEF EdgesTo, Range
    <2> QED BY <2>3, <2>4
  <1>4. ASSUME NEW c \in Range(rows), ~IsIdentity(Lines[c].row), Lines[c].row.sink = w
        PROVE  Lines[c].row \in Range(list)
    <2>1. PICK t \in DOMAIN rows : c = rows[t]
      BY <1>4 DEF Range
    <2>2. t \in EdgesTo(rows, w)
      BY <1>4, <2>1 DEF EdgesTo
    <2>3. PICK k \in DOMAIN list : place[k] = t
      BY <1>2, <2>2
    <2>4. list[k] = Lines[c].row
      BY <1>1, <2>1, <2>3
    <2> QED BY <2>4 DEF Range
  <1> QED BY <1>3, <1>4

LEMMA RangeIndexed ==
  ASSUME NEW S, NEW s \in Seq(S)
  PROVE  Range(s) = {s[i] : i \in 1 .. Len(s)}
  BY DEF Range

LEMMA GraphInvNothing == GraphInv => NothingLost
  <1> SUFFICES ASSUME GraphInv, loading = "done" PROVE NothingLost
    BY DEF NothingLost
  <1>1. AllRead /\ GraphType
    BY DEF GraphInv
  <1>2. PICK n \in Nat : n = graph.numWords
    BY <1>1 DEF GraphType
  <1>3. IsComplete(files)
    BY <1>1 DEF IsComplete, AllRead, WordsRead, EdgesRead, DeletionsRead
  <1>4. PICK words \in Seq(WordRows) : words = files.words.rows
    BY <1>1, FilesAre DEF GraphType, IsFile
  <1>5. graph.known = {Lines[words[i]].row.index : i \in 1 .. Len(words)}
    BY <1>1, <1>4 DEF AllRead, WordsRead, KnownTo, WordAt
  <1>6. graph.known = {r.index : r \in RowsOf(files.words)}
    <2>1. Range(words) = {words[i] : i \in 1 .. Len(words)}
      BY RangeIndexed
    <2>2. {r.index : r \in RowsOf(files.words)} = {Lines[c].row.index : c \in Range(words)}
      BY <1>4 DEF RowsOf
    <2> QED BY <1>5, <2>1, <2>2
  <1>7. \A w \in graph.known : w < graph.numWords
    BY <1>1, <1>4, <1>5 DEF AllRead, WordsRead, CountedTo, WordAt
  <1>8. PICK rows \in Seq(EdgeRows) : rows = files.edges.rows
    BY <1>1, FilesAre DEF GraphType, IsFile
  <1>9. ASSUME NEW w \in 0 .. n - 1 PROVE Lists(graph.edges[w], rows, EdgesTo(rows, w))
    <2>1. Lists(graph.edges[w], rows, {k \in EdgesTo(rows, w) : k <= Len(rows)})
      BY <1>1, <1>2, <1>8 DEF AllRead, EdgesRead, ListedTo
    <2>2. {k \in EdgesTo(rows, w) : k <= Len(rows)} = EdgesTo(rows, w)
      BY DEF EdgesTo
    <2> QED BY <2>1, <2>2
  <1>10. ASSUME NEW w \in 0 .. n - 1, NEW sense
         PROVE  IncomingEdges(w, sense) =
                  {e \in RowsOf(files.edges) : ~IsIdentity(e) /\ e.sink = w /\ e.sink_sense = sense}
    <2>1. PICK list : list = graph.edges[w]
      OBVIOUS
    <2>2. Range(list) = {e \in {Lines[c].row : c \in Range(rows)} : ~IsIdentity(e) /\ e.sink = w}
      BY <1>9, <2>1, IncomingEdgesAre
    <2>3. RowsOf(files.edges) = {Lines[c].row : c \in Range(rows)}
      BY <1>8 DEF RowsOf
    <2>4. Range(list) = {e \in RowsOf(files.edges) : ~IsIdentity(e) /\ e.sink = w}
      BY <2>2, <2>3
    <2> QED BY <2>1, <2>4 DEF IncomingEdges
  <1>11. PICK deletions \in Seq(DeletionRows) : deletions = files.deletions.rows
    BY <1>1, FilesAre DEF GraphType, IsFile
  <1>12. graph.invalid = {<<r.word, r.sense>> : r \in RowsOf(files.deletions)}
    <2>1. graph.invalid =
            {<<Lines[deletions[i]].row.word, Lines[deletions[i]].row.sense>> : i \in 1 .. Len(deletions)}
      BY <1>1, <1>11 DEF AllRead, DeletionsRead, DeletedTo, DeletionAt
    <2>2. Range(deletions) = {deletions[i] : i \in 1 .. Len(deletions)}
      BY RangeIndexed
    <2>3. RowsOf(files.deletions) = {Lines[c].row : c \in Range(deletions)}
      BY <1>11 DEF RowsOf
    <2> QED BY <2>1, <2>2, <2>3
  <1>13. ASSUME NEW w, NEW sense \in 0 .. Senses - 1
         PROVE  ContainsDeletion(w, sense) =
                  (\A r \in RowsOf(files.deletions) : <<r.word, r.sense>> # <<w, sense>>)
    <2>1. ContainsDeletion(w, sense) <=> <<w, sense>> \notin graph.invalid
      <3>1. TaggedWord(w, sense) = <<w, sense>>
        BY TaggedWordIs
      <3>2. <<w, sense>> \in graph.invalid => w \in {t[1] : t \in graph.invalid}
        <4>1. <<w, sense>>[1] = w
          OBVIOUS
        <4> QED BY <4>1
      <3> QED BY <3>1, <3>2 DEF ContainsDeletion
    <2>2. <<w, sense>> \notin graph.invalid
            <=> \A r \in RowsOf(files.deletions) : <<r.word, r.sense>> # <<w, sense>>
      BY <1>12
    <2>3. ContainsDeletion(w, sense) \in BOOLEAN
      BY DEF ContainsDeletion
    <2> QED BY <2>1, <2>2, <2>3
  <1> QED BY <1>2, <1>3, <1>6, <1>7, <1>8, <1>9, <1>10, <1>13 DEF NothingLost, IncomingEdgesFast

(* Whatever the three files hold, wherever the blocks and the buffers cut  *)
(* their lines, a graph is used only if all three are whole, and then has  *)
(* each of their rows once (Graph.cc, GZip.cc).                            *)
THEOREM GraphIsWhole == GraphSpec => []NothingLost
  BY GraphInvInit, GraphInvNext, GraphInvNothing, PTL DEF GraphSpec

(* No list of edges is written past its array while it grows, and those    *)
(* that are searched are in order, whatever std::sort makes of ties.       *)
THEOREM EdgesInOrder == GraphSpec => []ListsRight
  BY GraphInvInit, GraphInvNext, GraphInvLists, PTL DEF GraphSpec
===============================================================================
