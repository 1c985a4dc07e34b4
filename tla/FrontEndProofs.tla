---------------------------- MODULE FrontEndProofs ----------------------------
(***************************************************************************)
(* What the front ends answer follows from what the searches found, for    *)
(* every input, every annotator, every set of results and every place      *)
(* where the floating point of a confidence gives out.                     *)
(***************************************************************************)
EXTENDS FrontEnd, Foundations

-------------------------------------------------------------------------------
(* The state                                                               *)

BlankLine == [kind |-> "blank"]

(* There is room for what is still to be read.                             *)
Room ==
  /\ Runs("connection") => Len(block) <= MaxFacts /\ (pc = "read" => Len(block) < MaxFacts)
  /\ ~Runs("connection") => Len(block) + Len(input) <= Len(session.lines)

LinesRight ==
  /\ session \in Sessions
  /\ \E k \in 1 .. Len(session.lines) + 1 : input = From(session.lines, k)
  /\ buffer \in Range(session.lines) \cup {BlankLine}
  /\ block \in Seq(Range(session.lines))
  /\ Room

StateRight ==
  /\ pc \in {"read", "answer", "done", "crashed"} /\ stream \in {"good", "failed"}
  /\ options \in [costs : {"intermediate", "strict", "soft"}, skipNegationSearch : BOOLEAN]
  /\ output \in Seq(Range(output)) /\ failures \in 0 .. Len(output)
  /\ LinesRight

LEMMA SuffixFrom ==
  ASSUME NEW A, NEW s \in Seq(A), NEW k \in 1 .. Len(s) + 1
  PROVE  IsSuffix(From(s, k), s)
  <1>1. PICK t : t = From(s, k)
    OBVIOUS
  <1>2. /\ t \in Seq(A) /\ Len(s) \in Nat /\ Len(t) = Len(s) - k + 1 /\ Len(t) \in 0 .. Len(s)
        /\ \A i \in 1 .. Len(t) : t[i] = s[k + i - 1]
    <2>1. t \in Seq(A) /\ Len(t) = Len(s) - k + 1
      BY <1>1, FromProperties
    <2>2. \A i \in 1 .. Len(s) - k + 1 : t[i] = s[k + i - 1]
      BY <1>1, FromIndex
    <2>3. Len(s) \in Nat
      OBVIOUS
    <2> QED BY <2>1, <2>2, <2>3
  <1>3. /\ Reverse(s) \in Seq(A) /\ Len(Reverse(s)) = Len(s)
        /\ \A i \in 1 .. Len(s) : Reverse(s)[i] = s[Len(s) - i + 1]
    BY DEF Reverse
  <1>4. /\ Reverse(t) \in Seq(A) /\ Len(Reverse(t)) = Len(t)
        /\ \A i \in 1 .. Len(t) : Reverse(t)[i] = t[Len(t) - i + 1]
    BY <1>2 DEF Reverse
  <1>5. PICK p, q : p = Reverse(t) /\ q = Reverse(s)
    OBVIOUS
  <1>6. ASSUME NEW i \in 1 .. Len(t) PROVE p[i] = q[i]
    <2>1. Len(t) - i + 1 \in 1 .. Len(t) /\ k + (Len(t) - i + 1) - 1 = Len(s) - i + 1 /\ i \in 1 .. Len(s)
      BY <1>2
    <2>2. t[Len(t) - i + 1] = s[Len(s) - i + 1]
      BY <1>2, <2>1
    <2> QED BY <1>3, <1>4, <1>5, <2>1, <2>2
  <1>7. SubSeq(p, 1, Len(t)) = SubSeq(q, 1, Len(t))
    <2>1. /\ p \in Seq(A) /\ q \in Seq(A) /\ Len(p) = Len(t) /\ Len(q) = Len(s)
      BY <1>3, <1>4, <1>5
    <2>2. /\ SubSeq(p, 1, Len(t)) \in Seq(A) /\ SubSeq(q, 1, Len(t)) \in Seq(A)
          /\ Len(SubSeq(p, 1, Len(t))) = Len(t) /\ Len(SubSeq(q, 1, Len(t))) = Len(t)
          /\ \A i \in 1 .. Len(t) : SubSeq(p, 1, Len(t))[i] = p[i] /\ SubSeq(q, 1, Len(t))[i] = q[i]
      BY <1>2, <2>1
    <2> QED BY <1>6, <2>2, SeqEqual
  <1> QED BY <1>1, <1>2, <1>3, <1>4, <1>5, <1>7 DEF IsSuffix, IsPrefix

LEMMA SessionLines ==
  ASSUME session \in Sessions
  PROVE  /\ session.frontEnd \in {"repl", "trees", "connection"} /\ session.ending \in {"eof", "reset"}
         /\ session.lines \in Seq(Range(session.lines)) /\ Len(session.lines) \in Nat
  BY SessionsAssumption

LEMMA StateTyped == StateRight => TypeOK
  <1> SUFFICES ASSUME StateRight PROVE TypeOK
    OBVIOUS
  <1>1. session.lines \in Seq(Range(session.lines)) /\ Len(session.lines) \in Nat
    BY SessionLines DEF StateRight, LinesRight
  <1>2. PICK k \in 1 .. Len(session.lines) + 1 : input = From(session.lines, k)
    BY DEF StateRight, LinesRight
  <1>3. IsSuffix(input, session.lines) /\ Len(input) \in Nat
    BY <1>1, <1>2, SuffixFrom, FromProperties
  <1>4. Range(block) \subseteq Range(session.lines) /\ Len(block) \in Nat
    BY DEF StateRight, LinesRight, Range
  <1>5. Len(block) <= IF Runs("connection") THEN MaxFacts ELSE Len(session.lines)
    BY <1>1, <1>3, <1>4 DEF StateRight, LinesRight, Room
  <1> QED BY <1>3, <1>4, <1>5 DEF StateRight, TypeOK

LEMMA StateInit == Init => StateRight
  <1> SUFFICES ASSUME Init PROVE StateRight
    OBVIOUS
  <1>1. session.lines \in Seq(Range(session.lines)) /\ Len(session.lines) \in Nat
    BY SessionLines DEF Init
  <1>2. 1 \in 1 .. Len(session.lines) + 1 /\ input = From(session.lines, 1)
    BY <1>1, FromProperties DEF Init
  <1>3. Room
    BY <1>1, MaxFactsAssumption DEF Init, Room
  <1>4. LinesRight
    BY <1>2, <1>3 DEF Init, LinesRight, BlankLine
  <1> QED BY <1>4, RangeEmpty DEF Init, StateRight, Defaults

(* A line is taken as an option or into the block, or passed over.         *)
LEMMA TakeRight ==
  ASSUME StateRight, NEW l \in Range(session.lines) \cup {BlankLine}, NEW isLine, Take(l, isLine)
  PROVE  /\ options' \in [costs : {"intermediate", "strict", "soft"}, skipNegationSearch : BOOLEAN]
         /\ block' \in Seq(Range(session.lines))
         /\ Len(block) \in Nat /\ Len(block') \in {Len(block), Len(block) + 1}
         /\ l.kind = "blank" => block' = block
  <1>1. l.kind = "directive" =>
          \/ l.field = "costs" /\ l.value \in {"intermediate", "strict", "soft"}
          \/ l.field = "skipNegationSearch" /\ l.value \in BOOLEAN
    BY SessionsAssumption DEF StateRight, LinesRight, BlankLine
  <1>2. options' \in [costs : {"intermediate", "strict", "soft"}, skipNegationSearch : BOOLEAN]
    BY <1>1 DEF Take, StateRight
  <1>3. PICK A : A = Range(session.lines)
    OBVIOUS
  <1>4. block \in Seq(A) /\ (l.kind # "blank" => l \in A)
    BY <1>3 DEF StateRight, LinesRight, BlankLine
  <1>5. block' = block \/ (l.kind # "blank" /\ block' = Append(block, l))
    BY DEF Take
  <1>6. block' \in Seq(A) /\ Len(block) \in Nat /\ Len(block') \in {Len(block), Len(block) + 1}
    BY <1>4, <1>5
  <1> QED BY <1>2, <1>3, <1>5, <1>6

(* A line read from cin.                                                   *)
LEMMA InputRead ==
  ASSUME StateRight, input # <<>>
  PROVE  /\ Head(input) \in Range(session.lines)
         /\ \E k \in 1 .. Len(session.lines) + 1 : Tail(input) = From(session.lines, k)
         /\ Len(input) \in Nat /\ Len(Tail(input)) = Len(input) - 1
  <1>1. PICK A, s : A = Range(session.lines) /\ s = session.lines
    OBVIOUS
  <1>2. s \in Seq(A) /\ Len(s) \in Nat
    BY <1>1, SessionLines DEF StateRight, LinesRight
  <1>3. PICK k \in 1 .. Len(s) + 1 : input = From(s, k)
    BY <1>1 DEF StateRight, LinesRight
  <1>4. k \in 1 .. Len(s) /\ k + 1 \in 1 .. Len(s) + 1
    BY <1>2, <1>3, FromProperties
  <1>5. Head(input) = s[k] /\ Tail(input) = From(s, k + 1)
    BY <1>2, <1>3, <1>4, FromProperties
  <1>6. Len(input) = Len(s) - k + 1 /\ Len(Tail(input)) = Len(s) - (k + 1) + 1
    BY <1>2, <1>3, <1>4, <1>5, FromProperties
  <1>7. s[k] \in A
    BY <1>2, <1>4
  <1> QED BY <1>1, <1>2, <1>4, <1>5, <1>6, <1>7

LEMMA GetLineStep ==
  ASSUME StateRight, GetLine \/ ReadTree PROVE StateRight'
  <1>1. PICK l, isLine : l = Head(input) /\ Take(l, isLine)
    BY DEF GetLine, ReadTree
  <1>2. /\ input # <<>> /\ input' = Tail(input) /\ ~Runs("connection")
        /\ UNCHANGED <<session, buffer, output, failures>>
        /\ pc' \in {"answer", pc} /\ stream' \in {"failed", stream}
    BY DEF GetLine, ReadTree, Runs
  <1>3. l \in Range(session.lines) \cup {BlankLine}
    BY <1>1, <1>2, InputRead
  <1>4. /\ options' \in [costs : {"intermediate", "strict", "soft"}, skipNegationSearch : BOOLEAN]
        /\ block' \in Seq(Range(session.lines))
        /\ Len(block) \in Nat /\ Len(block') \in {Len(block), Len(block) + 1}
    BY <1>1, <1>3, TakeRight
  <1>5. Room'
    <2>1. Len(block') + Len(input') <= Len(block) + Len(input) /\ Len(input') \in Int /\ Len(input) \in Nat
      BY <1>2, <1>4, InputRead
    <2>2. Len(session.lines) \in Nat
      BY SessionLines DEF StateRight, LinesRight
    <2> QED BY <1>2, <1>4, <2>1, <2>2 DEF Room, Runs, StateRight, LinesRight
  <1>6. LinesRight'
    BY <1>2, <1>4, <1>5, InputRead DEF StateRight, LinesRight
  <1> QED BY <1>2, <1>4, <1>6 DEF StateRight

LEMMA EndOfInputStep ==
  ASSUME StateRight, EndOfInput PROVE StateRight'
  BY DEF EndOfInput, StateRight, LinesRight, Room, Runs

LEMMA ReadSocketStep ==
  ASSUME StateRight, ReadSocket PROVE StateRight'
  <1>1. buffer' \in Range(session.lines) \cup {BlankLine}
    <2>1. CASE input # <<>>
      BY <2>1, InputRead DEF ReadSocket
    <2>2. CASE input = <<>>
      BY <2>2, SessionLines DEF ReadSocket, StateRight, LinesRight, BlankLine
    <2> QED BY <2>1, <2>2
  <1>2. PICK l : l = buffer'
    OBVIOUS
  <1>3. Take(l, TRUE)
    BY <1>2 DEF ReadSocket, Take
  <1>4. /\ options' \in [costs : {"intermediate", "strict", "soft"}, skipNegationSearch : BOOLEAN]
        /\ block' \in Seq(Range(session.lines))
        /\ Len(block) \in Nat /\ Len(block') \in {Len(block), Len(block) + 1}
    BY <1>1, <1>2, <1>3, TakeRight
  <1>5. Room'
    <2>1. Runs("connection") /\ pc = "read" /\ session' = session
      BY DEF ReadSocket
    <2>2. pc' = "read" => ~Full(block')
      BY <2>1 DEF ReadSocket
    <2>3. Len(block) < MaxFacts
      BY <2>1 DEF StateRight, LinesRight, Room
    <2> QED BY <1>4, <2>1, <2>2, <2>3, MaxFactsAssumption DEF Room, Runs, Full
  <1>6. \E k \in 1 .. Len(session.lines) + 1 : input' = From(session.lines, k)
    BY InputRead DEF ReadSocket, StateRight, LinesRight
  <1>7. LinesRight'
    BY <1>1, <1>4, <1>5, <1>6 DEF ReadSocket, StateRight, LinesRight
  <1> QED BY <1>4, <1>7 DEF ReadSocket, StateRight

LEMMA NothingToAnswerStep ==
  ASSUME StateRight, NothingToAnswer PROVE StateRight'
  <1>1. block' = <<>> /\ pc' \in {"done", "read"} /\ (Runs("connection") => pc' = "done")
    BY DEF NothingToAnswer, NextExample
  <1>2. Len(<<>>) = 0 /\ Len(input) \in Nat
    BY DEF StateRight, LinesRight, From
  <1>3. LinesRight'
    BY <1>1, <1>2, MaxFactsAssumption DEF NothingToAnswer, StateRight, LinesRight, Room, Runs
  <1> QED BY <1>1, <1>3 DEF NothingToAnswer, StateRight

LEMMA CrashStep ==
  ASSUME StateRight, Crash PROVE StateRight'
  BY DEF Crash, StateRight, LinesRight, Room, Runs

-------------------------------------------------------------------------------
(* The verdict                                                             *)

(* The confidence of a response is that of its cheapest path, and none if  *)
(* every path costs too much.                                              *)
LEMMA ConfidenceRight ==
  ASSUME NEW response \in SUBSET Nat
  PROVE  /\ Confidence(response) \in 0 .. OverflowFrom
         /\ Confidence(response) = 0 => \A c \in response : c >= OverflowFrom
         /\ Confidence(response) # 0 =>
              \E c \in response : /\ Confidence(response) = OverflowFrom - c /\ c < OverflowFrom
                                  /\ \A d \in response : c <= d
  <1>1. CASE response = {}
    BY <1>1, CostsAssumption DEF Confidence
  <1>2. CASE response # {}
    <2>1. \E c \in response : \A d \in response : c <= d
      BY <1>2, LeastExists
    <2>2. Min(response) \in response /\ \A d \in response : Min(response) <= d
      BY <2>1, Zenon DEF Min
    <2>3. PICK c \in response : c = Min(response) /\ \A d \in response : c <= d
      BY <2>2
    <2>4. Confidence(response) = IF c >= OverflowFrom THEN 0 ELSE OverflowFrom - c
      BY <1>2, <2>3 DEF Confidence
    <2>5. c \in Nat /\ OverflowFrom \in Nat
      BY CostsAssumption
    <2>6. CASE c >= OverflowFrom
      <3>1. \A d \in response : d \in Nat /\ d >= OverflowFrom
        BY <2>3, <2>5, <2>6
      <3> QED BY <2>4, <2>5, <2>6, <3>1
    <2>7. CASE ~(c >= OverflowFrom)
      BY <2>3, <2>4, <2>5, <2>7
    <2> QED BY <2>6, <2>7
  <1> QED BY <1>1, <1>2

(* A response made of a verdict                                            *)
Judged(r, a, b) ==
  /\ r.success /\ r.ifTrue = a /\ r.ifFalse = b
  /\ r.guess = Verdict(a, b).guess /\ r.truth = Verdict(a, b).truth

LEMMA VerdictCases ==
  ASSUME NEW a \in SUBSET Nat, NEW b \in SUBSET Nat, NEW r, Judged(r, a, b)
  PROVE  /\ Confidence(a) > Confidence(b) =>
              r.guess = "true" /\ r.truth = Probability(Confidence(a), TRUE)
         /\ Confidence(a) < Confidence(b) =>
              r.guess = "false" /\ r.truth = Probability(Confidence(b), FALSE)
         /\ Confidence(a) = Confidence(b) => r.guess = "unknown" /\ r.truth = 0
  <1>1. Confidence(a) \in Nat /\ Confidence(b) \in Nat
    BY ConfidenceRight, CostsAssumption
  <1>2. PICK x, y : x = Confidence(a) /\ y = Confidence(b)
    OBVIOUS
  <1>3. /\ x > y => ~(x < y) /\ x # y
        /\ x < y => ~(x > y) /\ x # y
        /\ x = y => ~(x > y) /\ ~(x < y)
    BY <1>1, <1>2
  <1>4. CASE x > y
    <2>1. Verdict(a, b) = [guess |-> "true", truth |-> Probability(x, TRUE)]
      BY <1>2, <1>3, <1>4, Zenon DEF Verdict
    <2> QED BY <1>2, <1>3, <1>4, <2>1 DEF Judged
  <1>5. CASE x < y
    <2>1. Verdict(a, b) = [guess |-> "false", truth |-> Probability(y, FALSE)]
      BY <1>2, <1>3, <1>5, Zenon DEF Verdict
    <2> QED BY <1>2, <1>3, <1>5, <2>1 DEF Judged
  <1>6. CASE x = y
    <2>1. Verdict(a, b) = [guess |-> "unknown", truth |-> 0]
      BY <1>2, <1>3, <1>6, Zenon DEF Verdict
    <2> QED BY <1>2, <1>3, <1>6, <2>1 DEF Judged
  <1> QED BY <1>1, <1>2, <1>4, <1>5, <1>6

LEMMA CheapestDecided ==
  ASSUME NEW a \in SUBSET Nat, NEW b \in SUBSET Nat, NEW r, Judged(r, a, b)
  PROVE  CheapestDecides(r)
  <1> DEFINE found == {c \in a \cup b : c < OverflowFrom}
             Cheapest(paths) == \E c \in paths : c \in found /\ \A d \in found : c <= d
             ca == Confidence(a)
             cb == Confidence(b)
  <1>1. ca \in Nat /\ cb \in Nat /\ OverflowFrom \in Nat
    BY ConfidenceRight, CostsAssumption
  <1>2. ASSUME NEW x \in SUBSET Nat, NEW y \in SUBSET Nat, x \cup y = a \cup b
        PROVE  Cheapest(x) <=> Confidence(x) # 0 /\ Confidence(x) >= Confidence(y)
    <2>1. Confidence(x) \in Nat /\ Confidence(y) \in Nat
      BY ConfidenceRight, CostsAssumption
    <2>2. ASSUME Confidence(x) # 0, Confidence(x) >= Confidence(y) PROVE Cheapest(x)
      <3>1. PICK c \in x : /\ Confidence(x) = OverflowFrom - c /\ c < OverflowFrom
                           /\ \A d \in x : c <= d
        BY <2>2, ConfidenceRight
      <3>2. ASSUME NEW d \in y PROVE c <= d
        <4>1. CASE Confidence(y) = 0
          <5>1. d >= OverflowFrom
            BY <4>1, ConfidenceRight
          <5> QED BY <1>1, <3>1, <5>1
        <4>2. CASE Confidence(y) # 0
          <5>1. PICK e \in y : /\ Confidence(y) = OverflowFrom - e /\ \A g \in y : e <= g
            BY <4>2, ConfidenceRight
          <5>2. e <= d /\ OverflowFrom - c >= OverflowFrom - e
            BY <2>2, <3>1, <5>1
          <5> QED BY <1>1, <5>2
        <4> QED BY <4>1, <4>2
      <3>3. c \in found /\ \A d \in found : c <= d
        BY <1>2, <3>1, <3>2
      <3> QED BY <3>3
    <2>3. ASSUME Cheapest(x) PROVE Confidence(x) # 0 /\ Confidence(x) >= Confidence(y)
      <3>1. PICK c \in x : c < OverflowFrom /\ \A d \in found : c <= d
        BY <2>3
      <3>2. Confidence(x) # 0
        <4>1. ~(c >= OverflowFrom)
          BY <1>1, <3>1
        <4> QED BY <3>1, <4>1, ConfidenceRight
      <3>3. PICK f \in x : /\ Confidence(x) = OverflowFrom - f /\ f < OverflowFrom
                           /\ \A d \in x : f <= d
        BY <3>2, ConfidenceRight
      <3>4. CASE Confidence(y) = 0
        BY <1>1, <2>1, <3>2, <3>4
      <3>5. CASE Confidence(y) # 0
        <4>1. PICK e \in y : Confidence(y) = OverflowFrom - e /\ e < OverflowFrom
          BY <3>5, ConfidenceRight
        <4>2. e \in found
          BY <1>2, <4>1
        <4>3. c <= e /\ f <= c
          BY <3>1, <3>3, <4>2
        <4> QED BY <1>1, <3>3, <4>1, <4>3
      <3> QED BY <3>2, <3>4, <3>5
    <2> QED BY <2>2, <2>3
  <1>3. Cheapest(a) <=> ca # 0 /\ ca >= cb
    BY <1>2, Zenon
  <1>4. Cheapest(b) <=> cb # 0 /\ cb >= ca
    <2>1. b \cup a = a \cup b
      OBVIOUS
    <2> QED BY <1>2, <2>1, Zenon
  <1>5. /\ Cheapest(a) /\ ~Cheapest(b) => r.guess = "true"
        /\ Cheapest(b) /\ ~Cheapest(a) => r.guess = "false"
        /\ (Cheapest(a) <=> Cheapest(b)) => r.guess = "unknown"
    <2> HIDE DEF Cheapest, ca, cb
    <2>1. /\ ca > cb => r.guess = "true"
          /\ ca < cb => r.guess = "false"
          /\ ca = cb => r.guess = "unknown"
      BY VerdictCases DEF ca, cb
    <2> QED BY <1>1, <1>3, <1>4, <2>1
  <1>6. r.ifTrue = a /\ r.ifFalse = b
    BY DEF Judged
  <1> DEFINE f(paths) == \E c \in paths : /\ c \in {c_1 \in r.ifTrue \cup r.ifFalse : c_1 < OverflowFrom}
                                         /\ \A d \in {c_1 \in r.ifTrue \cup r.ifFalse : c_1 < OverflowFrom} : c <= d
  <1>7. (f(r.ifTrue) <=> Cheapest(a)) /\ (f(r.ifFalse) <=> Cheapest(b))
    BY <1>6
  <1> HIDE DEF Cheapest
  <1> QED BY <1>5, <1>7 DEF CheapestDecides

(* What a distance from 0.5 says.                                          *)
LEMMA ProbabilityRight ==
  ASSUME NEW confidence \in 0 .. OverflowFrom
  PROVE  /\ Probability(confidence, TRUE) \in {0, confidence}
         /\ Probability(confidence, FALSE) \in {0, -confidence}
         /\ Probability(confidence, TRUE) = 0 <=> confidence <= OverflowFrom - LostFrom
         /\ Probability(confidence, FALSE) = 0 <=> confidence <= OverflowFrom - LostFrom
  <1>1. /\ confidence \in Nat /\ OverflowFrom \in Nat /\ LostFrom \in Nat
        /\ LostFrom <= OverflowFrom
    BY CostsAssumption
  <1>2. CASE confidence <= OverflowFrom - LostFrom
    <2>1. Probability(confidence, TRUE) = 0 /\ Probability(confidence, FALSE) = 0
      <3>1. PICK zero : zero = 0
        OBVIOUS
      <3>2. Probability(confidence, TRUE) = zero /\ Probability(confidence, FALSE) = -zero
        BY <1>2, <3>1, Zenon DEF Probability
      <3>3. zero \in Int /\ zero <= 0 /\ zero >= 0
        BY <3>1
      <3>4. \A n \in Int : n <= 0 /\ n >= 0 => -n = 0
        OBVIOUS
      <3>5. -zero = 0
        BY <3>3, <3>4, Zenon
      <3> QED BY <3>1, <3>2, <3>5, Zenon
    <2> QED BY <1>2, <2>1
  <1>3. CASE ~(confidence <= OverflowFrom - LostFrom)
    <2>1. Probability(confidence, TRUE) = confidence /\ Probability(confidence, FALSE) = -confidence
      BY <1>1, <1>3 DEF Probability
    <2>2. confidence # 0 /\ -confidence # 0
      BY <1>1, <1>3
    <2> QED BY <1>3, <2>1, <2>2
  <1> QED BY <1>2, <1>3

(* A REPL knows whether an unknown is expected.                            *)
Prefixed(r) == r.prefix = PassOrFail(r.truth, r.label, r.label = "UNK")

LEMMA PrefixCases ==
  ASSUME NEW r, Prefixed(r)
  PROVE  /\ r.label = "NONE" => r.prefix = ""
         /\ r.label = "UNK" => r.prefix = IF Weak(r.truth) THEN "PASS" ELSE "FAIL"
         /\ r.label = "TRUE" => r.prefix = IF r.truth # 0 /\ r.truth > 0 THEN "PASS" ELSE "FAIL"
         /\ r.label = "FALSE" => r.prefix = IF r.truth # 0 /\ ~(r.truth > 0) THEN "PASS" ELSE "FAIL"
  <1>1. CASE r.label = "NONE"
    <2>1. PassOrFail(r.truth, r.label, r.label = "UNK") = ""
      BY <1>1, Zenon DEF PassOrFail
    <2> QED BY <1>1, <2>1 DEF Prefixed
  <1>2. CASE r.label = "UNK"
    <2>1. r.label # "NONE" /\ (r.label = "UNK") = TRUE
      BY <1>2
    <2>2. PassOrFail(r.truth, r.label, TRUE) = IF Weak(r.truth) THEN "PASS" ELSE "FAIL"
      BY <2>1, Zenon DEF PassOrFail
    <2>3. r.prefix = PassOrFail(r.truth, r.label, TRUE)
      BY <2>1, Zenon DEF Prefixed
    <2> QED BY <1>2, <2>2, <2>3
  <1>3. ASSUME NEW label \in {"TRUE", "FALSE"}, r.label = label
        PROVE  r.prefix = IF r.truth # 0 /\ (r.truth > 0 <=> label = "TRUE") THEN "PASS" ELSE "FAIL"
    <2>1. label # "NONE" /\ (r.label = "UNK") = FALSE
      BY <1>3
    <2>2. PassOrFail(r.truth, label, FALSE)
            = IF r.truth # 0 /\ (r.truth > 0 <=> label = "TRUE") THEN "PASS" ELSE "FAIL"
      BY <2>1, Zenon DEF PassOrFail
    <2>3. r.prefix = PassOrFail(r.truth, label, FALSE)
      BY <1>3, <2>1, Zenon DEF Prefixed
    <2> QED BY <2>2, <2>3
  <1>4. CASE r.label = "TRUE"
    <2>1. r.prefix = IF r.truth # 0 /\ (r.truth > 0 <=> "TRUE" = "TRUE") THEN "PASS" ELSE "FAIL"
      BY <1>3, <1>4
    <2> QED BY <1>4, <2>1
  <1>5. CASE r.label = "FALSE"
    <2>1. r.prefix = IF r.truth # 0 /\ (r.truth > 0 <=> "FALSE" = "TRUE") THEN "PASS" ELSE "FAIL"
      BY <1>3, <1>5
    <2> QED BY <1>5, <2>1
  <1> QED BY <1>1, <1>2, <1>4, <1>5

LEMMA AgreesCases ==
  ASSUME NEW r
  PROVE  /\ r.label = "TRUE" => (Agrees(r) <=> r.guess = "true")
         /\ r.label = "FALSE" => (Agrees(r) <=> r.guess \in {"false", "none"})
         /\ r.label = "UNK" => (Agrees(r) <=> r.guess = "unknown")
  <1>1. CASE r.label = "TRUE"
    BY <1>1 DEF Agrees
  <1>2. CASE r.label = "FALSE"
    BY <1>2 DEF Agrees
  <1>3. CASE r.label = "UNK"
    BY <1>3 DEF Agrees
  <1> QED BY <1>1, <1>2, <1>3

HaveLost(paths) == \E c \in paths : c >= LostFrom

AreWeak(paths) == \A c \in paths : c >= WeakFrom

(* What the truth value says of the paths, if one search has the better.   *)
LEMMA TruthOfWinner ==
  ASSUME NEW a \in SUBSET Nat, NEW b \in SUBSET Nat, Confidence(a) > Confidence(b),
         NEW t \in {0, Confidence(a)}, t = 0 <=> Confidence(a) <= OverflowFrom - LostFrom
  PROVE  /\ t \in Nat
         /\ t = 0 => \E c \in a \cup b : c >= LostFrom
         /\ t <= OverflowFrom - WeakFrom => \A c \in a \cup b : c >= WeakFrom
  <1>1. /\ Confidence(a) \in Nat /\ Confidence(b) \in Nat
        /\ OverflowFrom \in Nat /\ LostFrom \in Nat /\ WeakFrom \in Nat
        /\ WeakFrom <= LostFrom /\ LostFrom <= OverflowFrom
    BY ConfidenceRight, CostsAssumption
  <1>2. PICK e \in a : Confidence(a) = OverflowFrom - e /\ \A d \in a : e <= d
    <2>1. Confidence(a) # 0
      BY <1>1
    <2> QED BY <2>1, ConfidenceRight
  <1>3. t = 0 => e >= LostFrom
    BY <1>1, <1>2
  <1>4. ASSUME t <= OverflowFrom - WeakFrom, NEW c \in a \cup b PROVE c >= WeakFrom
    <2>1. e >= WeakFrom
      BY <1>1, <1>2, <1>3, <1>4
    <2>2. CASE c \in a
      BY <1>1, <1>2, <2>1, <2>2
    <2>3. CASE c \in b /\ Confidence(b) = 0
      <3>1. c >= OverflowFrom
        BY <2>3, ConfidenceRight
      <3> QED BY <1>1, <3>1
    <2>4. CASE c \in b /\ Confidence(b) # 0
      <3>1. PICK g \in b : Confidence(b) = OverflowFrom - g /\ \A d \in b : g <= d
        BY <2>4, ConfidenceRight
      <3>2. g <= c
        BY <2>4, <3>1
      <3> QED BY <1>1, <1>2, <2>1, <3>1, <3>2
    <2> QED BY <2>2, <2>3, <2>4
  <1> QED BY <1>1, <1>3, <1>4

TruthOf(guess, t, paths) ==
  \/ guess = "unknown" /\ t = 0
  \/ /\ guess = "true" /\ t \in Int /\ t >= 0
     /\ t = 0 => HaveLost(paths)
     /\ t <= OverflowFrom - WeakFrom => AreWeak(paths)
  \/ /\ guess = "false" /\ t \in Int /\ t <= 0
     /\ t = 0 => HaveLost(paths)
     /\ -(OverflowFrom - WeakFrom) <= t => AreWeak(paths)

LEMMA JudgedTruth ==
  ASSUME NEW a \in SUBSET Nat, NEW b \in SUBSET Nat, NEW r, Judged(r, a, b)
  PROVE  TruthOf(r.guess, r.truth, a \cup b)
  <1>0. PICK t : t = r.truth
    OBVIOUS
  <1>1. /\ Confidence(a) \in 0 .. OverflowFrom /\ Confidence(b) \in 0 .. OverflowFrom
        /\ OverflowFrom \in Nat /\ WeakFrom \in Nat
    BY ConfidenceRight, CostsAssumption
  <1>2. CASE Confidence(a) > Confidence(b)
    <2>1. r.guess = "true" /\ t = Probability(Confidence(a), TRUE)
      BY <1>0, <1>2, VerdictCases
    <2>2. t \in {0, Confidence(a)} /\ (t = 0 <=> Confidence(a) <= OverflowFrom - LostFrom)
      BY <1>1, <2>1, ProbabilityRight
    <2>3. /\ t \in Nat
          /\ t = 0 => HaveLost(a \cup b)
          /\ t <= OverflowFrom - WeakFrom => AreWeak(a \cup b)
      BY <1>2, <2>2, TruthOfWinner DEF HaveLost, AreWeak
    <2>4. t \in Int /\ t >= 0
      BY <2>3
    <2> QED BY <1>0, <2>1, <2>3, <2>4, Zenon DEF TruthOf
  <1>3. CASE Confidence(a) < Confidence(b)
    <2>1. r.guess = "false" /\ t = Probability(Confidence(b), FALSE)
      BY <1>0, <1>3, VerdictCases
    <2>2. /\ t \in {0, -Confidence(b)} /\ (t = 0 <=> Confidence(b) <= OverflowFrom - LostFrom)
      BY <1>1, <2>1, ProbabilityRight
    <2>3. PICK u : u = -t
      OBVIOUS
    <2>4. t \in Int /\ u \in {0, Confidence(b)} /\ t = -u /\ (u = 0 <=> t = 0)
      BY <1>1, <2>2, <2>3
    <2>5. Confidence(b) > Confidence(a) /\ (u = 0 <=> Confidence(b) <= OverflowFrom - LostFrom)
      BY <1>1, <1>3, <2>2, <2>4
    <2>6. /\ u \in Nat
          /\ u = 0 => HaveLost(b \cup a)
          /\ u <= OverflowFrom - WeakFrom => AreWeak(b \cup a)
      BY <2>4, <2>5, TruthOfWinner DEF HaveLost, AreWeak
    <2>7. b \cup a = a \cup b
      OBVIOUS
    <2>8. t <= 0 /\ (-(OverflowFrom - WeakFrom) <= t => u <= OverflowFrom - WeakFrom)
      BY <1>1, <2>4, <2>6
    <2> QED BY <1>0, <2>1, <2>4, <2>6, <2>7, <2>8, Zenon DEF TruthOf
  <1>4. CASE Confidence(a) = Confidence(b)
    BY <1>4, VerdictCases DEF TruthOf
  <1> QED BY <1>1, <1>2, <1>3, <1>4

LEMMA JudgedPrefix ==
  ASSUME NEW a \in SUBSET Nat, NEW b \in SUBSET Nat, NEW r, Judged(r, a, b), Prefixed(r),
         r.label \in {"TRUE", "FALSE", "UNK", "NONE"}
  PROVE  PrefixIsDue(r)
  <1>1. /\ Confidence(a) \in 0 .. OverflowFrom /\ Confidence(b) \in 0 .. OverflowFrom
        /\ OverflowFrom \in Nat /\ LostFrom \in Nat /\ WeakFrom \in Nat /\ WeakFrom <= OverflowFrom
    BY ConfidenceRight, CostsAssumption
  <1>2. PICK t, paths : t = r.truth /\ paths = a \cup b
    OBVIOUS
  <1>3. r.success /\ r.ifTrue \cup r.ifFalse = paths
    BY <1>2 DEF Judged
  <1>4. TruthOf(r.guess, t, paths)
    BY <1>2, JudgedTruth
  <1>5. /\ r.prefix = "PASS" => Agrees(r) \/ (r.label = "UNK" /\ AreWeak(paths))
        /\ r.prefix = "FAIL" => ~Agrees(r) \/ HaveLost(paths)
    <2>1. CASE r.label = "NONE"
      BY <2>1, PrefixCases
    <2>2. CASE r.label = "UNK"
      <3>1. r.prefix = IF Weak(t) THEN "PASS" ELSE "FAIL"
        BY <1>2, <2>2, PrefixCases
      <3>2. Agrees(r) <=> r.guess = "unknown"
        BY <2>2, AgreesCases
      <3>3. CASE r.guess = "unknown"
        <4>1. Weak(t)
          BY <1>1, <1>4, <3>3 DEF Weak, TruthOf
        <4> QED BY <3>1, <3>2, <3>3, <4>1
      <3>4. CASE r.guess # "unknown"
        <4>1. Weak(t) => AreWeak(paths)
          BY <1>4, <3>4 DEF Weak, TruthOf
        <4> QED BY <2>2, <3>1, <3>2, <3>4, <4>1
      <3> QED BY <3>3, <3>4
    <2>3. CASE r.label = "TRUE"
      <3>1. r.prefix = IF t # 0 /\ t > 0 THEN "PASS" ELSE "FAIL"
        BY <1>2, <2>3, PrefixCases
      <3>2. Agrees(r) <=> r.guess = "true"
        BY <2>3, AgreesCases
      <3> QED BY <1>4, <3>1, <3>2 DEF TruthOf
    <2>4. CASE r.label = "FALSE"
      <3>1. r.prefix = IF t # 0 /\ ~(t > 0) THEN "PASS" ELSE "FAIL"
        BY <1>2, <2>4, PrefixCases
      <3>2. Agrees(r) <=> r.guess \in {"false", "none"}
        BY <2>4, AgreesCases
      <3> QED BY <1>4, <3>1, <3>2 DEF TruthOf
    <2> QED BY <2>1, <2>2, <2>3, <2>4
  <1> QED BY <1>3, <1>5 DEF PrefixIsDue, HaveLost, AreWeak

(* A query that cannot be read                                             *)
Unread(r) ==
  /\ ~r.success /\ r.ifTrue = {} /\ r.ifFalse = {} /\ r.guess = "none" /\ r.truth = Impossible

LEMMA UnreadPrefix ==
  ASSUME NEW r, Unread(r), Prefixed(r), r.label \in {"TRUE", "FALSE", "UNK", "NONE"}
  PROVE  PrefixIsDue(r)
  <1>0. PICK t : t = r.truth
    OBVIOUS
  <1>1. r.truth \in Int /\ r.truth < 0 /\ ~Weak(r.truth)
    BY CostsAssumption DEF Unread, Impossible, Probability, Weak
  <1>2. CASE r.label = "NONE"
    BY <1>2, PrefixCases DEF PrefixIsDue
  <1>3. CASE r.label = "UNK"
    <2>1. r.prefix = "FAIL" /\ ~Agrees(r)
      BY <1>1, <1>3, PrefixCases, AgreesCases DEF Unread
    <2> QED BY <2>1 DEF PrefixIsDue
  <1>4. CASE r.label = "TRUE"
    <2>1. r.prefix = IF t # 0 /\ t > 0 THEN "PASS" ELSE "FAIL"
      BY <1>0, <1>4, PrefixCases
    <2>2. r.prefix = "FAIL"
      BY <1>0, <1>1, <2>1
    <2>3. ~Agrees(r)
      BY <1>4, AgreesCases DEF Unread
    <2> QED BY <2>2, <2>3 DEF PrefixIsDue
  <1>5. CASE r.label = "FALSE"
    <2>1. r.prefix = IF t # 0 /\ ~(t > 0) THEN "PASS" ELSE "FAIL"
      BY <1>0, <1>5, PrefixCases
    <2>2. r.prefix = "PASS"
      BY <1>0, <1>1, <2>1
    <2>3. Agrees(r)
      BY <1>5, AgreesCases DEF Unread
    <2> QED BY <2>2, <2>3 DEF PrefixIsDue
  <1> QED BY <1>2, <1>3, <1>4, <1>5

-------------------------------------------------------------------------------
(* The answer to an example                                                *)

Due(r) ==
  /\ GuessIsTruth(r)
  /\ r.success => CheapestDecides(r)
  /\ Runs("repl") => PrefixIsDue(r)

(* What the two searches may have found of the example at hand.            *)
LEMMA SearchedRight ==
  ASSUME NEW r, NEW a \in SUBSET Nat, NEW b \in SUBSET Nat, Judged(r, a, b),
         a \in Searched(TRUE), b \in Searched(FALSE),
         r.query = Query.text, r.premises = Premises, r.hard = (options.costs # "soft")
  PROVE  GuessIsTruth(r)
  <1> SUFFICES ASSUME r.hard, \A p \in Range(r.premises) : world[p]
               PROVE  \/ r.guess = "unknown"
                      \/ (r.guess = "true") /\ world[r.query]
                      \/ (r.guess = "false") /\ ~world[r.query]
    BY DEF GuessIsTruth
  <1>1. options.costs # "soft" /\ \A p \in Range(Premises) : world[p]
    OBVIOUS
  <1>2. /\ world[r.query] # TRUE => a = {}
        /\ world[r.query] # FALSE => b = {}
    BY <1>1 DEF Searched
  <1>3. Confidence({}) = 0 /\ Confidence(a) \in Nat /\ Confidence(b) \in Nat
    BY ConfidenceRight, CostsAssumption DEF Confidence
  <1>4. CASE Confidence(a) > Confidence(b)
    <2>0. r.guess = "true"
      BY <1>4, VerdictCases
    <2>1. Confidence(a) # 0
      BY <1>3, <1>4
    <2>2. a # {}
      BY <1>3, <2>1
    <2>3. world[r.query] = TRUE
      BY <1>2, <2>2
    <2> QED BY <2>0, <2>3
  <1>5. CASE Confidence(a) < Confidence(b)
    <2>0. r.guess = "false"
      BY <1>5, VerdictCases
    <2>1. Confidence(b) # 0
      BY <1>3, <1>5
    <2>2. b # {}
      BY <1>3, <2>1
    <2>3. world[r.query] = FALSE
      BY <1>2, <2>2
    <2> QED BY <2>0, <2>3
  <1>6. CASE Confidence(a) = Confidence(b)
    BY <1>6, VerdictCases
  <1> QED BY <1>3, <1>4, <1>5, <1>6

LEMMA LabelRight ==
  ASSUME StateRight, block # <<>> PROVE Label \in {"TRUE", "FALSE", "UNK", "NONE"}
  <1>1. PICK A : A = Range(session.lines)
    OBVIOUS
  <1>2. \A l \in A : l.label \in {"TRUE", "FALSE", "UNK", "NONE"}
    BY <1>1, SessionsAssumption DEF StateRight, LinesRight
  <1>3. Query \in A
    <2>1. block \in Seq(A)
      BY <1>1 DEF StateRight, LinesRight
    <2>2. Len(block) \in 1 .. Len(block)
      BY <2>1
    <2> QED BY <2>1, <2>2 DEF Query, Last
  <1> QED BY <1>2, <1>3 DEF Label

(* Answer is the only step that prints, and what it prints is due.         *)
LEMMA AnswerIsDue ==
  ASSUME StateRight, Answer
  PROVE  \E r : Due(r) /\ Reply(r) /\ r.premises = Premises /\ r.query = Query.text
  <1>1. PICK a \in Results, b \in Results, expectUnknown \in ExpectUnknown :
          LET success == Readable(Query.text, "Q")
              verdict == IF success THEN Verdict(a, b) ELSE [guess |-> "none", truth |-> Impossible]
          IN  /\ success => a \in Searched(TRUE) /\ b \in Searched(FALSE)
              /\ ~success => a = {} /\ b = {}
              /\ Reply([premises |-> Premises, query |-> Query.text, label |-> Label,
                        success |-> success, ifTrue |-> a, ifFalse |-> b,
                        guess |-> verdict.guess, truth |-> verdict.truth,
                        hard |-> options.costs # "soft",
                        prefix |-> PassOrFail(verdict.truth, Label, expectUnknown)])
    BY Zenon DEF Answer
  <1> DEFINE success == Readable(Query.text, "Q")
             verdict == IF success THEN Verdict(a, b) ELSE [guess |-> "none", truth |-> Impossible]
  <1>2. PICK r : r = [premises |-> Premises, query |-> Query.text, label |-> Label,
                      success |-> success, ifTrue |-> a, ifFalse |-> b,
                      guess |-> verdict.guess, truth |-> verdict.truth,
                      hard |-> options.costs # "soft",
                      prefix |-> PassOrFail(verdict.truth, Label, expectUnknown)]
    OBVIOUS
  <1> HIDE DEF verdict, success
  <1>3. /\ r.premises = Premises /\ r.query = Query.text /\ r.label = Label
        /\ r.success = success /\ r.ifTrue = a /\ r.ifFalse = b
        /\ r.guess = verdict.guess /\ r.truth = verdict.truth
        /\ r.hard = (options.costs # "soft")
        /\ r.prefix = PassOrFail(r.truth, r.label, expectUnknown)
    BY <1>2
  <1>4. Reply(r)
    BY <1>1, <1>2, Zenon DEF verdict, success
  <1>5. a \in SUBSET Nat /\ b \in SUBSET Nat
    BY CostsAssumption
  <1>6. block # <<>> /\ r.label \in {"TRUE", "FALSE", "UNK", "NONE"}
    BY <1>3, LabelRight DEF Answer
  <1>7. Runs("repl") => Prefixed(r)
    <2>1. ASSUME Runs("repl") PROVE expectUnknown = (r.label = "UNK")
      <3>1. ~Runs("connection")
        BY <2>1 DEF Runs
      <3>2. ExpectUnknown = IF r.label = "UNK" THEN {TRUE} ELSE {FALSE}
        BY <1>3, <3>1 DEF ExpectUnknown
      <3>3. CASE r.label = "UNK"
        BY <3>2, <3>3
      <3>4. CASE r.label # "UNK"
        BY <3>2, <3>4
      <3> QED BY <3>3, <3>4
    <2> QED BY <1>3, <2>1, Zenon DEF Prefixed
  <1>8. CASE success
    <2>1. Judged(r, a, b)
      BY <1>3, <1>8 DEF Judged, verdict
    <2>2. a \in Searched(TRUE) /\ b \in Searched(FALSE)
      BY <1>1, <1>8, Zenon DEF success
    <2>3. GuessIsTruth(r)
      BY <1>3, <1>5, <2>1, <2>2, SearchedRight
    <2>4. CheapestDecides(r) /\ (Runs("repl") => PrefixIsDue(r))
      BY <1>5, <1>6, <1>7, <2>1, CheapestDecided, JudgedPrefix
    <2> QED BY <1>3, <1>4, <2>3, <2>4 DEF Due
  <1>9. CASE ~success
    <2>1. a = {} /\ b = {}
      BY <1>1, <1>9, Zenon DEF success
    <2>2. Unread(r) /\ ~r.success
      BY <1>3, <1>9, <2>1 DEF Unread, verdict
    <2>3. Runs("repl") => PrefixIsDue(r)
      BY <1>6, <1>7, <2>2, UnreadPrefix
    <2> QED BY <1>3, <1>4, <2>2, <2>3 DEF Due, GuessIsTruth
  <1> QED BY <1>8, <1>9

LEMMA AnswerStep ==
  ASSUME StateRight, Answer PROVE StateRight'
  <1>1. PICK r : Reply(r)
    BY AnswerIsDue
  <1>2. UNCHANGED <<session, world, input, stream, buffer, options>>
    BY DEF Answer
  <1>3. block' = <<>> /\ pc' \in {"done", "read"} /\ (Runs("connection") => pc' = "done")
    BY <1>1 DEF Reply, NextExample
  <1>4. Len(<<>>) = 0 /\ Len(input) \in Nat
    BY DEF StateRight, LinesRight, From
  <1>5. LinesRight'
    BY <1>2, <1>3, <1>4, MaxFactsAssumption DEF StateRight, LinesRight, Room, Runs
  <1>6. output' \in Seq(Range(output')) /\ failures' \in 0 .. Len(output')
    <2>1. output' = Append(output, r) /\ failures' \in {failures, failures + 1}
      BY <1>1 DEF Reply, StateRight
    <2>2. output' \in Seq(Range(output'))
      BY <2>1, RangeAppend DEF StateRight
    <2>3. Len(output') = Len(output) + 1 /\ Len(output) \in Nat
      BY <2>1 DEF StateRight
    <2> QED BY <2>1, <2>2, <2>3 DEF StateRight
  <1> QED BY <1>2, <1>3, <1>5, <1>6 DEF StateRight

LEMMA StateNext == StateRight /\ [Next]_vars => StateRight'
  <1>1. ASSUME StateRight, UNCHANGED vars PROVE StateRight'
    BY <1>1 DEF vars, StateRight, LinesRight, Room, Runs
  <1> QED BY <1>1, GetLineStep, EndOfInputStep, ReadSocketStep, NothingToAnswerStep, CrashStep,
             AnswerStep DEF Next, Stopped

AllDue == \A r \in Range(output) : Due(r)

LEMMA DueNext == StateRight /\ AllDue /\ [Next]_vars => AllDue'
  <1> SUFFICES ASSUME StateRight, AllDue, [Next]_vars PROVE AllDue'
    OBVIOUS
  <1>1. world' = world /\ session' = session
    BY DEF Next, vars, GetLine, ReadTree, EndOfInput, ReadSocket, NothingToAnswer, Crash, Answer, Stopped
  <1>2. \A r : Due(r) => Due(r)'
    BY <1>1 DEF Due, GuessIsTruth, CheapestDecides, PrefixIsDue, Agrees, Runs
  <1>3. CASE Answer
    <2>1. PICK r : Due(r) /\ Reply(r)
      BY <1>3, AnswerIsDue
    <2>2. Range(output') = Range(output) \cup {r}
      BY <2>1, RangeAppend DEF Reply, StateRight
    <2> QED BY <1>2, <2>1, <2>2 DEF AllDue
  <1>4. CASE ~Answer
    <2>1. output' = output
      BY <1>4 DEF Next, vars, GetLine, ReadTree, EndOfInput, ReadSocket, NothingToAnswer, Crash, Stopped
    <2> QED BY <1>2, <2>1 DEF AllDue
  <1> QED BY <1>3, <1>4

-------------------------------------------------------------------------------
(* The lines of the example at hand                                        *)

(* How many lines have been read.                                          *)
ReadSoFar == Len(session.lines) - Len(input)

NoBlankWithin(first, last) == \A i \in first .. last : session.lines[i].kind # "blank"

IsWithin(l, first, last) == \E i \in first .. last : l = session.lines[i]

BlockWithin(first, last) ==
  \A k \in DOMAIN block : IsSentence(block[k]) /\ IsWithin(block[k], first, last)

(* The example lies between two places with no blank line there, the second *)
(* of them where reading goes on; so does the line a connection has in its *)
(* buffer, which it may take again.                                        *)
Stretch(first, last) ==
  /\ NoBlankWithin(first, last) /\ BlockWithin(first, last)
  /\ pc = "read" => last = ReadSoFar
  /\ pc = "read" /\ Runs("connection") =>
       buffer.kind = "blank" \/ IsWithin(buffer, first, last)

BlockRight ==
  pc \in {"read", "answer"} =>
    \E first \in Nat \ {0}, last \in 0 .. Len(session.lines) : Stretch(first, last)

LEMMA LineRead ==
  ASSUME StateRight, input # <<>>
  PROVE  /\ ReadSoFar + 1 \in 1 .. Len(session.lines)
         /\ Head(input) = session.lines[ReadSoFar + 1]
         /\ Len(Tail(input)) = Len(input) - 1
  <1>1. PICK A, s : A = Range(session.lines) /\ s = session.lines
    OBVIOUS
  <1>2. s \in Seq(A) /\ Len(s) \in Nat
    BY <1>1, SessionLines DEF StateRight, LinesRight
  <1>3. PICK k \in 1 .. Len(s) + 1 : input = From(s, k)
    BY <1>1 DEF StateRight, LinesRight
  <1>4. k \in 1 .. Len(s) /\ Len(input) = Len(s) - k + 1 /\ Head(input) = s[k]
    <2>1. k \in 1 .. Len(s) /\ k + 1 \in 1 .. Len(s) + 1
      BY <1>2, <1>3, FromProperties
    <2>2. Head(input) = s[k]
      BY <1>2, <1>3, <2>1, FromProperties
    <2>3. Len(From(s, k)) = Len(s) - k + 1
      BY <1>2, FromProperties
    <2> QED BY <1>3, <2>1, <2>2, <2>3
  <1>5. ReadSoFar + 1 = k
    BY <1>1, <1>2, <1>4 DEF ReadSoFar
  <1>6. Len(Tail(input)) = Len(input) - 1
    BY InputRead
  <1> QED BY <1>1, <1>4, <1>5, <1>6

LEMMA ReadBounds ==
  ASSUME StateRight
  PROVE  /\ Len(session.lines) \in Nat /\ ReadSoFar \in 0 .. Len(session.lines)
  <1>1. PICK A, s : A = Range(session.lines) /\ s = session.lines
    OBVIOUS
  <1>2. s \in Seq(A) /\ Len(s) \in Nat
    BY <1>1, SessionLines DEF StateRight, LinesRight
  <1>3. PICK k \in 1 .. Len(s) + 1 : input = From(s, k)
    BY <1>1 DEF StateRight, LinesRight
  <1>4. Len(input) = Len(s) - k + 1
    <2>1. s \in Seq(A)
      BY <1>2
    <2>2. \A j \in 1 .. Len(s) + 1 : From(s, j) \in Seq(A) /\ Len(From(s, j)) = Len(s) - j + 1
      BY <2>1, FromProperties, ZenonT(60)
    <2> QED BY <1>3, <2>2, ZenonT(30)
  <1> QED BY <1>1, <1>2, <1>4 DEF ReadSoFar

(* Taking a line moves the second place on to it, if it is not blank.      *)
LEMMA TakeWithin ==
  ASSUME StateRight, session' = session,
         NEW first \in Nat, NEW last \in Nat, NoBlankWithin(first, last), BlockWithin(first, last),
         NEW l, NEW isLine, Take(l, isLine),
         l.kind # "blank" => IsWithin(l, first, last),
         l.kind \in {"text", "comment", "directive", "blank"},
         isLine /\ l.kind = "comment" => Runs("connection")
  PROVE  NoBlankWithin(first, last)' /\ BlockWithin(first, last)'
  <1>1. NoBlankWithin(first, last)'
    BY DEF NoBlankWithin
  <1>2. block' = block \/ (block' = Append(block, l) /\ isLine /\ l.kind \in {"text", "comment"})
    BY DEF Take
  <1>5. CASE block' = block
    BY <1>1, <1>5 DEF BlockWithin, IsWithin, IsSentence, Runs
  <1>6. CASE block' = Append(block, l) /\ isLine /\ l.kind \in {"text", "comment"}
    <2>1. IsSentence(l) /\ IsWithin(l, first, last)
      BY <1>6 DEF IsSentence
    <2>2. PICK A : A = Range(session.lines)
      OBVIOUS
    <2>3. block \in Seq(A)
      BY <2>2 DEF StateRight, LinesRight
    <2>4. /\ DOMAIN block' = 1 .. Len(block) + 1 /\ DOMAIN block = 1 .. Len(block) /\ Len(block) \in Nat
          /\ \A k \in 1 .. Len(block) : block'[k] = block[k]
          /\ block'[Len(block) + 1] = l
      BY <1>6, <2>3
    <2>5. ASSUME NEW k \in DOMAIN block'
          PROVE  IsSentence(block'[k]) /\ IsWithin(block'[k], first, last)
      <3>1. CASE k \in 1 .. Len(block)
        BY <2>4, <3>1 DEF BlockWithin
      <3>2. CASE k = Len(block) + 1
        BY <2>1, <2>4, <3>2
      <3> QED BY <2>4, <3>1, <3>2
    <2> QED BY <1>1, <2>5 DEF BlockWithin, IsWithin, IsSentence, Runs
  <1> QED BY <1>1, <1>2, <1>5, <1>6

(* The stretch with the next line, if that is not blank.                   *)
LEMMA StretchGrows ==
  ASSUME StateRight, input # <<>>, Head(input).kind # "blank",
         NEW first \in Nat \ {0}, NoBlankWithin(first, ReadSoFar), BlockWithin(first, ReadSoFar)
  PROVE  \E from \in Nat \ {0} :
           /\ NoBlankWithin(from, ReadSoFar + 1) /\ BlockWithin(from, ReadSoFar + 1)
           /\ IsWithin(Head(input), from, ReadSoFar + 1)
           /\ \A x : IsWithin(x, first, ReadSoFar) => IsWithin(x, from, ReadSoFar + 1)
  <1>1. PICK r : r = ReadSoFar
    OBVIOUS
  <1>2. r \in Nat /\ Head(input) = session.lines[r + 1]
    BY <1>1, LineRead, ReadBounds
  <1>3. CASE first <= r + 1
    <2>1. \A i \in first .. r + 1 : i = r + 1 \/ i \in first .. r
      BY <1>2
    <2>2. NoBlankWithin(first, r + 1)
      BY <1>1, <1>2, <2>1 DEF NoBlankWithin
    <2>3. \A i \in first .. r : i \in first .. r + 1
      BY <1>2
    <2>4. \A x : IsWithin(x, first, r) => IsWithin(x, first, r + 1)
      BY <2>3 DEF IsWithin
    <2>5. BlockWithin(first, r + 1)
      BY <1>1, <2>4 DEF BlockWithin
    <2>6. r + 1 \in first .. r + 1
      BY <1>2, <1>3
    <2>7. IsWithin(Head(input), first, r + 1)
      BY <1>2, <2>6 DEF IsWithin
    <2> QED BY <1>1, <2>2, <2>4, <2>5, <2>7
  <1>4. CASE ~(first <= r + 1)
    <2>1. first .. r = {} /\ (r + 1) .. (r + 1) = {r + 1} /\ r + 1 \in Nat \ {0}
      BY <1>2, <1>4
    <2>2. NoBlankWithin(r + 1, r + 1) /\ IsWithin(Head(input), r + 1, r + 1)
      BY <1>2, <2>1 DEF NoBlankWithin, IsWithin
    <2>3. \A x : ~IsWithin(x, first, r)
      BY <2>1 DEF IsWithin
    <2>4. BlockWithin(r + 1, r + 1)
      BY <1>1, <2>3 DEF BlockWithin
    <2> QED BY <1>1, <2>1, <2>2, <2>3, <2>4
  <1> QED BY <1>3, <1>4

LEMMA BlockGetLine ==
  ASSUME StateRight, BlockRight, GetLine \/ ReadTree PROVE BlockRight'
  <1>1. PICK l, isLine :
          l = Head(input) /\ Take(l, isLine) /\ (isLine => l.kind # "comment")
    BY DEF GetLine, ReadTree
  <1>2. /\ pc = "read" /\ input # <<>> /\ input' = Tail(input) /\ ~Runs("connection")
        /\ UNCHANGED <<session, buffer>>
        /\ l.kind = "blank" => pc' = "answer"
    BY <1>1 DEF GetLine, ReadTree, Runs
  <1>3. l.kind \in {"text", "comment", "directive", "blank"}
    BY <1>1, <1>2, InputRead, SessionsAssumption DEF StateRight, LinesRight
  <1>4. PICK first \in Nat \ {0} : NoBlankWithin(first, ReadSoFar) /\ BlockWithin(first, ReadSoFar)
    BY <1>2 DEF BlockRight, Stretch
  <1>5. /\ ReadSoFar \in 0 .. Len(session.lines) /\ ReadSoFar + 1 \in 0 .. Len(session.lines)
        /\ ReadSoFar' = ReadSoFar + 1 /\ ReadSoFar \in Nat /\ ReadSoFar + 1 \in Nat
    <2>1. Len(input') = Len(input) - 1 /\ Len(input) \in Nat
      BY <1>2, InputRead
    <2> QED BY <1>2, <2>1, LineRead, ReadBounds DEF ReadSoFar
  <1>6. ~Runs("connection")'
    BY <1>2 DEF Runs
  <1>7. CASE l.kind = "blank"
    <2>1. PICK last \in Nat : last = ReadSoFar
      BY <1>5
    <2>2. NoBlankWithin(first, last)' /\ BlockWithin(first, last)'
      BY <1>1, <1>2, <1>3, <1>4, <1>7, <2>1, TakeWithin
    <2>3. Stretch(first, last)' /\ last \in 0 .. Len(session'.lines)
      BY <1>2, <1>5, <1>7, <2>1, <2>2 DEF Stretch
    <2> QED BY <2>3 DEF BlockRight
  <1>8. CASE l.kind # "blank"
    <2>1. PICK last \in Nat : last = ReadSoFar + 1
      BY <1>5
    <2>2. PICK from \in Nat \ {0} :
            NoBlankWithin(from, last) /\ BlockWithin(from, last) /\ IsWithin(l, from, last)
      BY <1>1, <1>2, <1>4, <1>8, <2>1, StretchGrows
    <2>3. NoBlankWithin(from, last)' /\ BlockWithin(from, last)'
      BY <1>1, <1>2, <1>3, <2>2, TakeWithin
    <2>4. Stretch(from, last)' /\ last \in 0 .. Len(session'.lines)
      BY <1>2, <1>5, <1>6, <2>1, <2>3 DEF Stretch
    <2> QED BY <2>4 DEF BlockRight
  <1> QED BY <1>7, <1>8

LEMMA BlockReadSocket ==
  ASSUME StateRight, BlockRight, ReadSocket PROVE BlockRight'
  <1>1. PICK l : l = buffer'
    OBVIOUS
  <1>2. /\ pc = "read" /\ Runs("connection") /\ session' = session /\ Take(l, TRUE)
        /\ l.kind = "blank" => pc' = "answer"
        /\ pc' \in {"read", "answer"}
    <2>1. Take(l, TRUE)
      BY <1>1 DEF ReadSocket, Take
    <2>2. pc = "read" /\ Runs("connection") /\ session' = session
      BY DEF ReadSocket
    <2>3. pc' = IF l.kind = "blank" \/ Full(block') THEN "answer" ELSE pc
      BY <1>1 DEF ReadSocket
    <2> QED BY <2>1, <2>2, <2>3
  <1>3. PICK first \in Nat \ {0} :
          /\ NoBlankWithin(first, ReadSoFar) /\ BlockWithin(first, ReadSoFar)
          /\ buffer.kind = "blank" \/ IsWithin(buffer, first, ReadSoFar)
    BY <1>2 DEF BlockRight, Stretch
  <1>4. ReadSoFar \in 0 .. Len(session.lines) /\ ReadSoFar \in Nat
    BY ReadBounds
  <1>5. l.kind \in {"text", "comment", "directive", "blank"}
    <2>1. StateRight'
      BY ReadSocketStep
    <2>2. l \in Range(session.lines) \cup {BlankLine} /\ session \in Sessions
      BY <1>1, <1>2, <2>1 DEF StateRight, LinesRight
    <2> QED BY <2>2, SessionsAssumption DEF BlankLine
  <1>6. CASE l.kind = "blank"
    <2>1. PICK last \in Nat : last = ReadSoFar
      BY <1>4
    <2>2. NoBlankWithin(first, last)' /\ BlockWithin(first, last)'
      BY <1>2, <1>3, <1>5, <1>6, <2>1, TakeWithin
    <2>3. Stretch(first, last)' /\ last \in 0 .. Len(session'.lines)
      BY <1>2, <1>4, <1>6, <2>1, <2>2 DEF Stretch
    <2> QED BY <2>3 DEF BlockRight
  <1>7. CASE l.kind # "blank" /\ input # <<>>
    <2>1. l = Head(input) /\ input' = Tail(input)
      BY <1>1, <1>7 DEF ReadSocket
    <2>2. /\ ReadSoFar + 1 \in 0 .. Len(session.lines) /\ ReadSoFar + 1 \in Nat
          /\ ReadSoFar' = ReadSoFar + 1
      <3>1. Len(input') = Len(input) - 1 /\ Len(input) \in Nat
        BY <1>7, <2>1, InputRead
      <3> QED BY <1>2, <1>4, <1>7, <3>1, LineRead, ReadBounds DEF ReadSoFar
    <2>3. PICK last \in Nat : last = ReadSoFar + 1
      BY <2>2
    <2>4. PICK from \in Nat \ {0} :
            NoBlankWithin(from, last) /\ BlockWithin(from, last) /\ IsWithin(l, from, last)
      BY <1>3, <1>7, <2>1, <2>3, StretchGrows
    <2>5. NoBlankWithin(from, last)' /\ BlockWithin(from, last)'
      BY <1>2, <1>5, <2>4, TakeWithin
    <2>6. IsWithin(buffer, from, last)'
      BY <1>1, <1>2, <2>4 DEF IsWithin
    <2>7. Stretch(from, last)' /\ last \in 0 .. Len(session'.lines)
      BY <1>2, <2>2, <2>3, <2>5, <2>6 DEF Stretch
    <2> QED BY <2>7 DEF BlockRight
  <1>8. CASE l.kind # "blank" /\ input = <<>>
    <2>1. l = buffer /\ input' = input
      <3>1. input' = input
        BY <1>8 DEF ReadSocket
      <3>2. session.ending \in {"eof", "reset"}
        BY SessionLines DEF StateRight, LinesRight
      <3>3. CASE session.ending = "eof"
        <4>1. buffer' = [kind |-> "blank"]
          BY <1>8, <3>3 DEF ReadSocket
        <4> QED BY <1>1, <1>8, <4>1
      <3>4. CASE session.ending = "reset"
        <4>1. buffer' = buffer
          BY <1>8, <3>4 DEF ReadSocket
        <4> QED BY <1>1, <3>1, <4>1
      <3> QED BY <3>2, <3>3, <3>4
    <2>2. PICK last \in Nat : last = ReadSoFar
      BY <1>4
    <2>3. NoBlankWithin(first, last) /\ BlockWithin(first, last) /\ IsWithin(l, first, last)
      BY <1>3, <1>8, <2>1, <2>2
    <2>4. NoBlankWithin(first, last)' /\ BlockWithin(first, last)'
      BY <1>2, <1>5, <2>3, TakeWithin
    <2>5. IsWithin(buffer, first, last)' /\ ReadSoFar' = last
      BY <1>1, <1>2, <2>1, <2>2, <2>3 DEF IsWithin, ReadSoFar
    <2>6. Stretch(first, last)' /\ last \in 0 .. Len(session'.lines)
      BY <1>2, <1>4, <2>2, <2>4, <2>5 DEF Stretch
    <2> QED BY <2>6 DEF BlockRight
  <1> QED BY <1>6, <1>7, <1>8

(* A step that empties the block begins a stretch behind what is read.     *)
LEMMA BlockEmptied ==
  ASSUME StateRight, session' = session, input' = input, block' = <<>>,
         pc' \in {"done", "read"}, Runs("connection") => pc' = "done"
  PROVE  BlockRight'
  <1>1. PICK last \in Nat : last = ReadSoFar
    BY ReadBounds
  <1>2. last \in 0 .. Len(session'.lines) /\ last + 1 \in Nat \ {0} /\ (last + 1) .. last = {}
    BY <1>1, ReadBounds
  <1>3. NoBlankWithin(last + 1, last)' /\ BlockWithin(last + 1, last)'
    BY <1>2 DEF NoBlankWithin, BlockWithin
  <1>4. Stretch(last + 1, last)'
    BY <1>1, <1>3 DEF Stretch, ReadSoFar, Runs
  <1> QED BY <1>2, <1>4 DEF BlockRight

LEMMA BlockNext == StateRight /\ BlockRight /\ [Next]_vars => BlockRight'
  <1> SUFFICES ASSUME StateRight, BlockRight, [Next]_vars PROVE BlockRight'
    OBVIOUS
  <1> DEFINE Same == block' = block /\ session' = session /\ input' = input /\ buffer' = buffer
  <1>1. ASSUME Same, pc' = pc \/ (pc = "read" /\ pc' \in {"answer", "crashed"}) \/ pc' = "crashed"
        PROVE  BlockRight'
    <2> SUFFICES ASSUME pc' \in {"read", "answer"} PROVE BlockRight'
      BY DEF BlockRight
    <2>1. pc \in {"read", "answer"} /\ (pc' = "read" => pc = "read")
      BY <1>1
    <2>2. PICK first \in Nat \ {0}, last \in 0 .. Len(session.lines) : Stretch(first, last)
      BY <2>1 DEF BlockRight
    <2>3. NoBlankWithin(first, last)' /\ BlockWithin(first, last)'
      BY <1>1, <2>2 DEF Stretch, NoBlankWithin, BlockWithin, IsWithin, IsSentence, Runs
    <2>4. Stretch(first, last)' /\ last \in 0 .. Len(session'.lines)
      BY <1>1, <2>1, <2>2, <2>3 DEF Stretch, IsWithin, ReadSoFar, Runs
    <2> QED BY <2>4 DEF BlockRight
  <1>2. CASE EndOfInput
    BY <1>1, <1>2 DEF EndOfInput
  <1>3. CASE Crash
    BY <1>1, <1>3 DEF Crash
  <1>4. CASE NothingToAnswer
    <2>1. block' = <<>> /\ pc' \in {"done", "read"} /\ (Runs("connection") => pc' = "done")
      BY <1>4 DEF NothingToAnswer, NextExample
    <2> QED BY <1>4, <2>1, BlockEmptied DEF NothingToAnswer
  <1>5. CASE Answer
    <2>1. PICK r : Reply(r)
      BY <1>5, AnswerIsDue
    <2>2. block' = <<>> /\ pc' \in {"done", "read"} /\ (Runs("connection") => pc' = "done")
      BY <2>1 DEF Reply, NextExample
    <2> QED BY <1>5, <2>2, BlockEmptied DEF Answer
  <1>6. CASE UNCHANGED vars
    BY <1>1, <1>6 DEF vars
  <1> QED BY <1>2, <1>3, <1>4, <1>5, <1>6, BlockGetLine, BlockReadSocket DEF Next, Stopped

LEMMA AnswerOfOneExample ==
  ASSUME StateRight, BlockRight, Answer,
         NEW r, r.premises = Premises, r.query = Query.text
  PROVE  OfOneExample(r)
  <1>1. PICK first \in Nat \ {0}, last \in 0 .. Len(session.lines) :
          NoBlankWithin(first, last) /\ BlockWithin(first, last)
    BY DEF Answer, BlockRight, Stretch
  <1>2. PICK A, s, bl : A = Range(session.lines) /\ s = session.lines /\ bl = block
    OBVIOUS
  <1>3. /\ s \in Seq(A) /\ Len(s) \in Nat /\ bl \in Seq(A) /\ bl # <<>>
    BY <1>2, SessionLines DEF StateRight, LinesRight, Answer
  <1>4. /\ DOMAIN bl = 1 .. Len(bl) /\ Len(bl) \in Nat \ {0} /\ DOMAIN s = 1 .. Len(s)
        /\ Len(bl) \in DOMAIN bl
    BY <1>3
  <1>5. ASSUME NEW k \in DOMAIN bl PROVE bl[k].text \in SentencesWithin(first, last)
    <2>1. IsSentence(bl[k]) /\ IsWithin(bl[k], first, last)
      BY <1>1, <1>2 DEF BlockWithin
    <2>2. PICK i \in first .. last : bl[k] = session.lines[i]
      BY <2>1 DEF IsWithin
    <2> QED BY <2>1, <2>2 DEF SentencesWithin
  <1>6. first \in DOMAIN s /\ last \in DOMAIN s
    <2>1. PICK i \in first .. last : bl[1] = session.lines[i]
      <3>1. 1 \in DOMAIN bl
        BY <1>4
      <3> QED BY <1>1, <1>2, <3>1 DEF BlockWithin, IsWithin
    <2> QED BY <1>2, <1>3, <1>4, <2>1
  <1>7. r.query \in SentencesWithin(first, last)
    <2>1. Query = bl[Len(bl)]
      BY <1>2 DEF Query, Last
    <2> QED BY <1>4, <1>5, <2>1
  <1>8. ASSUME NEW p \in Range(r.premises) PROVE p \in SentencesWithin(first, last)
    <2>1. Front(bl) \in Seq(A) /\ DOMAIN Front(bl) = 1 .. Len(bl) - 1
          /\ \A k \in 1 .. Len(bl) - 1 : Front(bl)[k] = bl[k]
      BY <1>3, <1>4 DEF Front
    <2>2. PICK k \in DOMAIN Premises : p = Premises[k]
      BY <1>8 DEF Range
    <2>3. k \in DOMAIN Front(bl) /\ p = Front(bl)[k].text
      BY <1>2, <2>2 DEF Premises
    <2>4. k \in DOMAIN bl /\ p = bl[k].text
      BY <1>4, <2>1, <2>3
    <2> QED BY <1>5, <2>4
  <1>9. \A i \in first .. last : session.lines[i].kind # "blank"
    BY <1>1 DEF NoBlankWithin
  <1> QED BY <1>2, <1>6, <1>7, <1>8, <1>9 DEF OfOneExample

LEMMA NoCarryOverNext ==
  StateRight /\ BlockRight /\ NoCarryOver /\ [Next]_vars => NoCarryOver'
  <1> SUFFICES ASSUME StateRight, BlockRight, NoCarryOver, [Next]_vars PROVE NoCarryOver'
    OBVIOUS
  <1>1. session' = session
    BY DEF Next, vars, GetLine, ReadTree, EndOfInput, ReadSocket, NothingToAnswer, Crash, Answer, Stopped
  <1>2. \A r : OfOneExample(r) => OfOneExample(r)'
    BY <1>1 DEF OfOneExample, SentencesWithin, IsSentence, Runs
  <1>3. CASE Answer
    <2>1. PICK r : Reply(r) /\ r.premises = Premises /\ r.query = Query.text
      BY <1>3, AnswerIsDue
    <2>2. OfOneExample(r)
      BY <1>3, <2>1, AnswerOfOneExample
    <2>3. Range(output') = Range(output) \cup {r}
      BY <2>1, RangeAppend DEF Reply, StateRight
    <2> QED BY <1>2, <2>2, <2>3 DEF NoCarryOver
  <1>4. CASE ~Answer
    <2>1. output' = output
      BY <1>4 DEF Next, vars, GetLine, ReadTree, EndOfInput, ReadSocket, NothingToAnswer, Crash, Stopped
    <2> QED BY <1>2, <2>1 DEF NoCarryOver
  <1> QED BY <1>3, <1>4

LEMMA BlockInit == Init => BlockRight
  <1> SUFFICES ASSUME Init PROVE BlockRight
    OBVIOUS
  <1>1. StateRight
    BY StateInit
  <1>2. ReadSoFar = 0 /\ Len(session.lines) \in Nat
    BY <1>1, ReadBounds DEF Init, ReadSoFar
  <1>3. 1 .. 0 = {} /\ 1 \in Nat \ {0} /\ 0 \in 0 .. Len(session.lines)
    BY <1>2
  <1>4. Stretch(1, 0)
    BY <1>2, <1>3 DEF Init, Stretch, NoBlankWithin, BlockWithin
  <1> QED BY <1>3, <1>4 DEF BlockRight

-------------------------------------------------------------------------------
(* The examples of the input                                               *)

Cutting(A) == [closed : Seq(Seq(A)), open : Seq(A)]

Closing(closed, open) == IF open = <<>> THEN closed ELSE Append(closed, open)

LEMMA CutAtCases ==
  ASSUME NEW A, NEW e \in Cutting(A), NEW l \in A
  PROVE  /\ CutAt(e, l) \in Cutting(A)
         /\ Closed(e) = Closing(e.closed, e.open) /\ Closed(e) \in Seq(Seq(A))
         /\ l.kind = "blank" => CutAt(e, l).closed = Closed(e) /\ CutAt(e, l).open = <<>>
         /\ l.kind = "text" =>
              CutAt(e, l).closed = e.closed /\ CutAt(e, l).open = Append(e.open, l)
         /\ l.kind \notin {"blank", "text"} => CutAt(e, l) = e
  <1>1. e.closed \in Seq(Seq(A)) /\ e.open \in Seq(A)
    BY DEF Cutting
  <1>2. Closed(e) = Closing(e.closed, e.open) /\ Closed(e) \in Seq(Seq(A))
    BY <1>1 DEF Closed, Closing
  <1>3. CASE l.kind = "blank"
    <2>1. CutAt(e, l) = [closed |-> Closed(e), open |-> <<>>]
      BY <1>3, Zenon DEF CutAt
    <2>2. PICK x : x = Closed(e)
      OBVIOUS
    <2>3. CutAt(e, l) = [closed |-> x, open |-> <<>>] /\ x \in Seq(Seq(A)) /\ <<>> \in Seq(A)
      BY <1>2, <2>1, <2>2
    <2>4. CutAt(e, l) \in Cutting(A) /\ CutAt(e, l).closed = x /\ CutAt(e, l).open = <<>>
      BY <2>3 DEF Cutting
    <2> QED BY <1>2, <1>3, <2>2, <2>4
  <1>4. CASE l.kind = "text"
    <2>1. l.kind # "blank"
      BY <1>4
    <2>2. CutAt(e, l) = [e EXCEPT !.open = Append(@, l)]
      BY <1>4, <2>1, Zenon DEF CutAt
    <2>3. Append(e.open, l) \in Seq(A)
      BY <1>1
    <2>4. /\ CutAt(e, l) \in Cutting(A) /\ CutAt(e, l).closed = e.closed
          /\ CutAt(e, l).open = Append(e.open, l)
      BY <2>2, <2>3 DEF Cutting
    <2> QED BY <1>2, <1>4, <2>1, <2>4
  <1>5. CASE l.kind \notin {"blank", "text"}
    <2>1. l.kind # "blank" /\ l.kind # "text"
      BY <1>5
    <2>2. CutAt(e, l) = e
      BY <2>1, Zenon DEF CutAt
    <2> QED BY <1>2, <1>5, <2>2
  <1> QED BY <1>3, <1>4, <1>5

Cuts(lines, c) ==
  c = [k \in 0 .. Len(lines) |->
         IF k = 0 THEN [closed |-> <<>>, open |-> <<>>] ELSE CutAt(c[k - 1], lines[k])]

LEMMA CutsExist ==
  ASSUME NEW A, NEW lines \in Seq(A)
  PROVE  \E c : Cuts(lines, c)
  <1> DEFINE n == Len(lines)
             S == Cutting(A)
             none == [closed |-> <<>>, open |-> <<>>]
             g == [p \in (1 .. n) \X S |-> CutAt(p[2], lines[p[1]])]
  <1>1. n \in Nat /\ none \in S
    BY DEF Cutting
  <1>2. ASSUME NEW k \in 1 .. n, NEW e \in S PROVE CutAt(e, lines[k]) \in S
    <2>1. lines[k] \in A
      OBVIOUS
    <2> QED BY <2>1, CutAtCases
  <1>3. g \in [(1 .. n) \X S -> S]
    <2> HIDE DEF S, n
    <2> QED BY <1>2
  <1>4. PICK f \in [0 .. n -> S] : Unfolds(f, n, none, g)
    <2> HIDE DEF g, S, n, none
    <2> QED BY <1>1, <1>3, RecursionExists
  <1>5. ASSUME NEW k \in 0 .. n
        PROVE  f[k] = IF k = 0 THEN none ELSE CutAt(f[k - 1], lines[k])
    <2>1. f[k] = IF k = 0 THEN none ELSE g[<<k, f[k - 1]>>]
      <3> HIDE DEF g, none
      <3> QED BY <1>4 DEF Unfolds
    <2>2. CASE k = 0
      BY <2>1, <2>2
    <2>3. CASE k # 0
      <3>1. k \in 1 .. n /\ k - 1 \in 0 .. n
        BY <1>1, <2>3
      <3>2. f[k - 1] \in S
        <4> HIDE DEF S, n
        <4> QED BY <1>4, <3>1
      <3>3. PICK e : e = f[k - 1]
        OBVIOUS
      <3>4. g[<<k, e>>] = CutAt(e, lines[k])
        <4> HIDE DEF S, n
        <4> QED BY <3>1, <3>2, <3>3
      <3> HIDE DEF g, none
      <3> QED BY <2>1, <2>3, <3>3, <3>4
    <2> QED BY <2>2, <2>3
  <1>6. f = [k \in 0 .. n |-> IF k = 0 THEN none ELSE CutAt(f[k - 1], lines[k])]
    <2> HIDE DEF S, n, none, g
    <2> QED BY <1>4, <1>5
  <1> QED BY <1>6, Zenon DEF Cuts

LEMMA CutIs ==
  ASSUME NEW A, NEW lines \in Seq(A)
  PROVE  /\ Cut(lines)[0] = [closed |-> <<>>, open |-> <<>>]
         /\ \A k \in 1 .. Len(lines) : Cut(lines)[k] = CutAt(Cut(lines)[k - 1], lines[k])
         /\ \A k \in 0 .. Len(lines) : Cut(lines)[k] \in Cutting(A)
  <1> DEFINE d == CHOOSE c : Cuts(lines, c)
  <1>1. Cuts(lines, d)
    BY CutsExist, Zenon
  <1>2. Cut(lines) = d
    BY Zenon DEF Cut, Cuts
  <1>3. PICK c : c = d
    OBVIOUS
  <1>4. \A k \in 0 .. Len(lines) :
          c[k] = IF k = 0 THEN [closed |-> <<>>, open |-> <<>>] ELSE CutAt(c[k - 1], lines[k])
    <2>1. Cuts(lines, c)
      BY <1>1, <1>3, Zenon
    <2> QED BY <2>1, Zenon DEF Cuts
  <1>5. Len(lines) \in Nat
    OBVIOUS
  <1>6. c[0] = [closed |-> <<>>, open |-> <<>>]
    <2>1. 0 \in 0 .. Len(lines)
      BY <1>5
    <2> QED BY <1>4, <2>1
  <1>7. \A k \in 1 .. Len(lines) : c[k] = CutAt(c[k - 1], lines[k])
    <2>1. \A k \in 1 .. Len(lines) : k \in 0 .. Len(lines) /\ k # 0
      BY <1>5
    <2> QED BY <1>4, <2>1
  <1>8. \A k \in 0 .. Len(lines) : c[k] \in Cutting(A)
    <2> DEFINE T == {k \in 0 .. Len(lines) : c[k] \in Cutting(A)}
    <2>1. 0 \in T
      <3>1. [closed |-> <<>>, open |-> <<>>] \in Cutting(A)
        BY DEF Cutting
      <3> QED BY <1>5, <1>6, <3>1
    <2>2. ASSUME NEW k \in 1 .. Len(lines), k - 1 \in T PROVE k \in T
      <3>1. c[k - 1] \in Cutting(A) /\ lines[k] \in A /\ k \in 0 .. Len(lines)
        BY <2>2
      <3>2. CutAt(c[k - 1], lines[k]) \in Cutting(A)
        BY <3>1, CutAtCases
      <3> QED BY <1>7, <3>1, <3>2
    <2>3. 0 .. Len(lines) \subseteq T
      <3> HIDE DEF T
      <3> QED BY <1>5, <2>1, <2>2, IntervalInduction
    <2> QED BY <2>3
  <1> HIDE DEF d
  <1> QED BY <1>2, <1>3, <1>6, <1>7, <1>8

(* Examples that are closed stay.                                          *)
LEMMA ClosedStay ==
  ASSUME NEW A, NEW lines \in Seq(A), NEW k \in 0 .. Len(lines)
  PROVE  Range(Cut(lines)[k].closed) \subseteq Range(ExamplesUpTo(lines, Len(lines)))
  <1>1. PICK c : c = Cut(lines)
    OBVIOUS
  <1>2. /\ \A i \in 1 .. Len(lines) : c[i] = CutAt(c[i - 1], lines[i])
        /\ \A i \in 0 .. Len(lines) : c[i] \in Cutting(A)
        /\ Len(lines) \in Nat
    BY <1>1, CutIs
  <1>3. ASSUME NEW e \in Cutting(A)
        PROVE  Range(e.closed) \subseteq Range(Closed(e))
    <2>1. e.closed \in Seq(Seq(A)) /\ Closed(e) \in {e.closed, Append(e.closed, e.open)}
      BY DEF Cutting, Closed
    <2>2. e.closed \in Seq(Range(e.closed))
      BY <2>1, OwnRange
    <2>3. Range(Append(e.closed, e.open)) = Range(e.closed) \cup {e.open}
      BY <2>2, RangeAppend
    <2> QED BY <2>1, <2>3
  <1> DEFINE T == {i \in 0 .. Len(lines) :
                     \A j \in 0 .. i : Range(c[j].closed) \subseteq Range(c[i].closed)}
  <1>4. 0 \in T
    BY <1>2
  <1>5. ASSUME NEW i \in 1 .. Len(lines), i - 1 \in T PROVE i \in T
    <2>1. /\ c[i - 1] \in Cutting(A) /\ lines[i] \in A /\ i \in 0 .. Len(lines)
          /\ c[i] = CutAt(c[i - 1], lines[i])
      BY <1>2
    <2>2. c[i].closed \in {c[i - 1].closed, Closed(c[i - 1])}
      <3>1. PICK e, l : e = c[i - 1] /\ l = lines[i]
        OBVIOUS
      <3>2. e \in Cutting(A) /\ l \in A /\ c[i] = CutAt(e, l)
        BY <2>1, <3>1
      <3>3. CutAt(e, l).closed \in {e.closed, Closed(e)}
        BY <3>2, CutAtCases
      <3> QED BY <3>1, <3>2, <3>3
    <2>3. Range(c[i - 1].closed) \subseteq Range(c[i].closed)
      BY <1>3, <2>1, <2>2
    <2>4. \A j \in 0 .. i : j = i \/ j \in 0 .. i - 1
      OBVIOUS
    <2>5. \A j \in 0 .. i - 1 : Range(c[j].closed) \subseteq Range(c[i - 1].closed)
      BY <1>5
    <2> QED BY <2>1, <2>3, <2>4, <2>5
  <1>6. Len(lines) \in T
    <2>1. 0 .. Len(lines) \subseteq T
      <3> HIDE DEF T
      <3> QED BY <1>2, <1>4, <1>5, IntervalInduction
    <2> QED BY <1>2, <2>1
  <1>7. Range(c[k].closed) \subseteq Range(c[Len(lines)].closed)
    BY <1>6
  <1>8. Range(c[Len(lines)].closed) \subseteq Range(Closed(c[Len(lines)]))
    BY <1>2, <1>3
  <1> QED BY <1>1, <1>7, <1>8 DEF ExamplesUpTo

(* Without a blank line one example only grows.                            *)
LEMMA OpenGrows ==
  ASSUME NEW A, NEW lines \in Seq(A), NEW p \in 0 .. Len(lines),
         \A i \in 1 .. p : lines[i].kind # "blank"
  PROVE  \A k \in 0 .. p :
           /\ Cut(lines)[k].closed = <<>>
           /\ \A j \in 0 .. k : \/ Cut(lines)[j].open = Cut(lines)[k].open
                               \/ Len(Cut(lines)[j].open) < Len(Cut(lines)[k].open)
  <1>1. PICK c : c = Cut(lines)
    OBVIOUS
  <1>2. /\ c[0] = [closed |-> <<>>, open |-> <<>>]
        /\ \A i \in 1 .. Len(lines) : c[i] = CutAt(c[i - 1], lines[i])
        /\ \A i \in 0 .. Len(lines) : c[i] \in Cutting(A)
        /\ Len(lines) \in Nat
    BY <1>1, CutIs
  <1> DEFINE Grown(k) == /\ c[k].closed = <<>>
                         /\ \A j \in 0 .. k : \/ c[j].open = c[k].open
                                             \/ Len(c[j].open) < Len(c[k].open)
             T == {k \in 0 .. p : Grown(k)}
  <1>3. 0 \in T
    BY <1>2
  <1>4. ASSUME NEW k \in 1 .. p, k - 1 \in T PROVE k \in T
    <2>1. /\ k - 1 \in 0 .. Len(lines) /\ k \in 1 .. Len(lines) /\ k \in 0 .. p
          /\ lines[k] \in A /\ lines[k].kind # "blank"
      BY <1>2
    <2>2. c[k - 1] \in Cutting(A) /\ c[k] = CutAt(c[k - 1], lines[k])
      BY <1>2, <2>1
    <2>3. \/ c[k] = c[k - 1]
          \/ c[k].closed = c[k - 1].closed /\ c[k].open = Append(c[k - 1].open, lines[k])
      <3>1. PICK e, l : e = c[k - 1] /\ l = lines[k]
        OBVIOUS
      <3>2. e \in Cutting(A) /\ l \in A /\ c[k] = CutAt(e, l) /\ l.kind # "blank"
        BY <2>1, <2>2, <3>1
      <3>3. \/ CutAt(e, l) = e
            \/ CutAt(e, l).closed = e.closed /\ CutAt(e, l).open = Append(e.open, l)
        BY <3>2, CutAtCases
      <3> QED BY <3>1, <3>2, <3>3
    <2>4. PICK x, y : x = c[k - 1].open /\ y = c[k].open
      OBVIOUS
    <2>5. x \in Seq(A) /\ Len(x) \in Nat
      BY <2>2, <2>4 DEF Cutting
    <2>6. y = x \/ Len(y) = Len(x) + 1
      BY <2>3, <2>4, <2>5
    <2>7. Grown(k - 1)
      BY <1>4
    <2>8. ASSUME NEW j \in 0 .. k PROVE c[j].open = y \/ Len(c[j].open) < Len(y)
      <3>1. CASE j = k
        BY <2>4, <3>1
      <3>2. CASE j \in 0 .. k - 1
        <4>1. c[j].open = x \/ Len(c[j].open) < Len(x)
          BY <2>4, <2>7, <3>2
        <4>2. c[j].open \in Seq(A) /\ Len(c[j].open) \in Nat
          <5>1. j \in 0 .. Len(lines)
            BY <2>1
          <5> QED BY <1>2, <5>1 DEF Cutting
        <4> QED BY <2>5, <2>6, <4>1, <4>2
      <3> QED BY <3>1, <3>2
    <2>9. c[k].closed = <<>>
      BY <2>3, <2>7
    <2> QED BY <2>1, <2>4, <2>8, <2>9
  <1>5. 0 .. p \subseteq T
    <2>1. p \in Nat
      BY <1>2
    <2> HIDE DEF T
    <2> QED BY <1>3, <1>4, <2>1, IntervalInduction
  <1> QED BY <1>1, <1>5

(* What a connection has to answer is cut where its first blank line is.   *)
LEMMA ConnectionPlace ==
  ASSUME StateRight, Runs("connection")
  PROVE  \E p \in 0 .. Len(session.lines) :
           /\ NoBlankWithin(1, p)
           /\ ToAnswer = Closed(Cut(session.lines)[p])
           /\ p = Len(session.lines) \/ session.lines[p + 1].kind = "blank"
  <1>1. PICK A, s, c : A = Range(session.lines) /\ s = session.lines /\ c = Cut(session.lines)
    OBVIOUS
  <1>2. s \in Seq(A) /\ Len(s) \in Nat /\ DOMAIN s = 1 .. Len(s)
    BY <1>1, SessionLines DEF StateRight, LinesRight
  <1>3. /\ \A k \in 1 .. Len(s) : c[k] = CutAt(c[k - 1], s[k])
        /\ \A k \in 0 .. Len(s) : c[k] \in Cutting(A)
    BY <1>1, <1>2, CutIs
  <1>4. CASE Blanks = {}
    <2>1. LastToRead = Len(s) /\ ToAnswer = Closed(c[Len(s)])
      BY <1>1, <1>4 DEF LastToRead, ToAnswer, ExamplesUpTo
    <2>2. NoBlankWithin(1, Len(s))
      BY <1>1, <1>2, <1>4 DEF NoBlankWithin, Blanks
    <2> QED BY <1>1, <1>2, <2>1, <2>2
  <1>5. CASE Blanks # {}
    <2>1. Blanks \in SUBSET Nat /\ Blanks \subseteq 1 .. Len(s)
      BY <1>1, <1>2 DEF Blanks
    <2>2. \E b \in Blanks : \A k \in Blanks : b <= k
      BY <1>5, <2>1, LeastExists
    <2>3. Min(Blanks) \in Blanks /\ \A k \in Blanks : Min(Blanks) <= k
      BY <2>2, Zenon DEF Min
    <2>4. PICK b : b = Min(Blanks)
      OBVIOUS
    <2>5. /\ b \in 1 .. Len(s) /\ s[b].kind = "blank" /\ b - 1 \in 0 .. Len(s) /\ (b - 1) + 1 = b
          /\ c[b - 1] \in Cutting(A) /\ s[b] \in A /\ c[b] = CutAt(c[b - 1], s[b])
      <3>1. b \in 1 .. Len(s) /\ s[b].kind = "blank"
        BY <1>1, <2>1, <2>3, <2>4 DEF Blanks
      <3>2. b - 1 \in 0 .. Len(s) /\ (b - 1) + 1 = b
        BY <1>2, <3>1
      <3> QED BY <1>2, <1>3, <3>1, <3>2
    <2>6. ToAnswer = Closed(c[b])
      BY <1>1, <1>5, <2>4 DEF ToAnswer, LastToRead, ExamplesUpTo
    <2>7. Closed(c[b]) = Closed(c[b - 1])
      <3>1. PICK e, l : e = c[b - 1] /\ l = s[b]
        OBVIOUS
      <3>2. e \in Cutting(A) /\ l \in A /\ l.kind = "blank" /\ c[b] = CutAt(e, l)
        BY <2>5, <3>1
      <3>3. c[b].closed = Closed(e) /\ c[b].open = <<>>
        BY <3>2, CutAtCases
      <3> QED BY <3>1, <3>3 DEF Closed
    <2>8. NoBlankWithin(1, b - 1)
      <3> SUFFICES ASSUME NEW k \in 1 .. b - 1, session.lines[k].kind = "blank" PROVE FALSE
        BY DEF NoBlankWithin
      <3>1. k \in 1 .. Len(s) /\ k \in Nat /\ b \in Nat /\ k < b
        BY <1>2, <2>5
      <3>2. k \in Blanks
        BY <1>1, <1>2, <3>1 DEF Blanks
      <3> QED BY <2>3, <2>4, <3>1, <3>2
    <2> QED BY <1>1, <2>5, <2>6, <2>7, <2>8
  <1> QED BY <1>4, <1>5

Fact(r) == Append(r.premises, r.query)

TextOf(e) == [j \in DOMAIN e |-> e[j].text]

(* The examples that have been answered.                                   *)
Answered(examples) ==
  [i \in DOMAIN output |-> Fact(output[i])] = [i \in DOMAIN examples |-> TextOf(examples[i])]

(* The examples that have to be answered with the one at hand.             *)
DueNow == IF Runs("connection") THEN ToAnswer ELSE ExamplesUpTo(session.lines, ReadSoFar)

ReadingRight ==
  /\ Answered(Cut(session.lines)[ReadSoFar].closed)
  /\ block = Cut(session.lines)[ReadSoFar].open
  /\ stream = "good"
  /\ Runs("connection") => NoBlankWithin(1, ReadSoFar)

AnsweringRight ==
  /\ \E closed \in Seq(Seq(Range(session.lines))) :
       Answered(closed) /\ Closing(closed, block) = DueNow
  /\ ~Runs("connection") /\ stream = "good" => Cut(session.lines)[ReadSoFar].open = <<>>
  /\ stream = "failed" => input = <<>>

OrderRight ==
  /\ pc # "crashed"
  /\ pc = "read" => ReadingRight
  /\ pc = "answer" => AnsweringRight
  /\ pc = "done" => Answered(ToAnswer)

LEMMA OrderInit == Init => OrderRight
  <1> SUFFICES ASSUME Init PROVE OrderRight
    OBVIOUS
  <1>1. StateRight
    BY StateInit
  <1>2. PICK A, s : A = Range(session.lines) /\ s = session.lines
    OBVIOUS
  <1>3. s \in Seq(A) /\ ReadSoFar = 0
    BY <1>1, <1>2, ReadBounds, SessionLines DEF Init, ReadSoFar
  <1>4. Cut(s)[0] = [closed |-> <<>>, open |-> <<>>]
    BY <1>3, CutIs
  <1>5. Cut(s)[0].closed = <<>> /\ Cut(s)[0].open = <<>>
    BY <1>4
  <1>6. Answered(<<>>)
    BY DEF Init, Answered
  <1>7. ReadingRight
    <2>1. NoBlankWithin(1, 0)
      BY DEF NoBlankWithin
    <2> QED BY <1>2, <1>3, <1>5, <1>6, <2>1 DEF Init, ReadingRight
  <1> QED BY <1>7 DEF Init, OrderRight

(* The cut at the next line.                                               *)
LEMMA LineCut ==
  ASSUME StateRight, input # <<>>
  PROVE  \E A, e, f, l, n :
           /\ A = Range(session.lines) /\ n = ReadSoFar /\ n \in Nat /\ n + 1 \in 1 .. Len(session.lines)
           /\ l = Head(input) /\ l = session.lines[n + 1] /\ l \in A
           /\ e = Cut(session.lines)[n] /\ e \in Cutting(A)
           /\ f = Cut(session.lines)[n + 1] /\ f = CutAt(e, l)
  <1>1. PICK A, s, c, n : /\ A = Range(session.lines) /\ s = session.lines
                          /\ c = Cut(session.lines) /\ n = ReadSoFar
    OBVIOUS
  <1>2. s \in Seq(A) /\ Len(s) \in Nat
    BY <1>1, SessionLines DEF StateRight, LinesRight
  <1>3. n + 1 \in 1 .. Len(s) /\ n \in 0 .. Len(s) /\ n \in Nat /\ (n + 1) - 1 = n /\ Head(input) = s[n + 1]
    BY <1>1, <1>2, LineRead, ReadBounds
  <1>4. c[n] \in Cutting(A)
    BY <1>1, <1>2, <1>3, CutIs
  <1>5. c[n + 1] = CutAt(c[n], s[n + 1])
    <2>1. \A k \in 1 .. Len(s) : c[k] = CutAt(c[k - 1], s[k])
      BY <1>1, <1>2, CutIs
    <2>2. c[n + 1] = CutAt(c[(n + 1) - 1], s[n + 1])
      BY <1>3, <2>1
    <2> QED BY <1>3, <2>2
  <1>6. s[n + 1] \in A
    BY <1>2, <1>3
  <1> QED BY <1>1, <1>3, <1>4, <1>5, <1>6

(* A line read without a change of the output leaves what has been answered. *)
LEMMA AnsweredStays ==
  ASSUME output' = output, NEW examples PROVE Answered(examples)' <=> Answered(examples)
  BY DEF Answered

LEMMA OrderGetLine ==
  ASSUME StateRight, OrderRight, Ordinary, GetLine \/ ReadTree PROVE OrderRight'
  <1>1. /\ pc = "read" /\ input # <<>> /\ input' = Tail(input) /\ ~Runs("connection")
        /\ session' = session /\ output' = output
    BY DEF GetLine, ReadTree, Runs
  <1>2. PICK A, e, f, l, n :
           /\ A = Range(session.lines) /\ n = ReadSoFar /\ n \in Nat /\ n + 1 \in 1 .. Len(session.lines)
           /\ l = Head(input) /\ l = session.lines[n + 1] /\ l \in A
           /\ e = Cut(session.lines)[n] /\ e \in Cutting(A)
           /\ f = Cut(session.lines)[n + 1] /\ f = CutAt(e, l)
    BY <1>1, LineCut
  <1>3. ~l.long /\ l.kind \in {"text", "comment", "directive", "blank"}
    BY <1>2, SessionsAssumption DEF Ordinary, StateRight, LinesRight
  <1>4. /\ block' = IF l.kind = "text" THEN Append(block, l) ELSE block
        /\ pc' = IF l.kind = "blank" THEN "answer" ELSE "read"
        /\ stream' = stream
    BY <1>1, <1>2, <1>3 DEF GetLine, ReadTree, Take
  <1>5. Answered(e.closed) /\ block = e.open /\ stream = "good"
    BY <1>1, <1>2 DEF OrderRight, ReadingRight
  <1>6. ReadSoFar' = n + 1 /\ ~Runs("connection")'
    <2>1. Len(input') = Len(input) - 1 /\ Len(input) \in Nat /\ Len(session.lines) \in Nat
      BY <1>1, InputRead, ReadBounds
    <2> QED BY <1>1, <1>2, <2>1 DEF ReadSoFar, Runs
  <1>7. PICK c : c = Cut(session.lines)
    OBVIOUS
  <1>8. c[n + 1] = f /\ Cut(session.lines)' = c
    BY <1>1, <1>2, <1>7
  <1>9. e.closed \in Seq(Seq(A))
    BY <1>2 DEF Cutting
  <1>10. CASE l.kind = "blank"
    <2>1. f.closed = Closing(e.closed, e.open) /\ f.open = <<>>
      BY <1>2, <1>10, CutAtCases
    <2>2. DueNow' = f.closed
      <3>1. DueNow' = Closed(f)
        BY <1>6, <1>7, <1>8 DEF DueNow, ExamplesUpTo
      <3> QED BY <2>1, <3>1 DEF Closed
    <2>3. Answered(e.closed)' /\ Closing(e.closed, block') = DueNow'
      BY <1>1, <1>4, <1>5, <1>10, <2>1, <2>2, AnsweredStays
    <2>4. A = Range(session'.lines)
      BY <1>1, <1>2
    <2>5. AnsweringRight'
      BY <1>4, <1>5, <1>6, <1>8, <1>9, <2>1, <2>3, <2>4 DEF AnsweringRight
    <2> QED BY <1>4, <1>10, <2>5 DEF OrderRight
  <1>11. CASE l.kind # "blank"
    <2>1. f.closed = e.closed /\ f.open = block'
      <3>1. CASE l.kind = "text"
        <4>1. block' = Append(e.open, l)
          BY <1>4, <1>5, <3>1
        <4>2. f.closed = e.closed /\ f.open = Append(e.open, l)
          BY <1>2, <3>1, CutAtCases
        <4> QED BY <4>1, <4>2
      <3>2. CASE l.kind # "text"
        BY <1>2, <1>4, <1>5, <1>11, <3>2, CutAtCases
      <3> QED BY <3>1, <3>2
    <2>2. Answered(f.closed)'
      BY <1>1, <1>5, <2>1, AnsweredStays
    <2>3. ReadingRight'
      BY <1>4, <1>5, <1>6, <1>8, <2>1, <2>2 DEF ReadingRight
    <2> QED BY <1>4, <1>11, <2>3 DEF OrderRight
  <1> QED BY <1>10, <1>11

LEMMA OrderEndOfInput ==
  ASSUME StateRight, OrderRight, EndOfInput PROVE OrderRight'
  <1>1. /\ pc = "read" /\ pc' = "answer" /\ input = <<>> /\ ~Runs("connection") /\ stream' = "failed"
        /\ UNCHANGED <<session, input, block, output>>
    BY DEF EndOfInput, Runs
  <1>2. PICK A, e, n : /\ A = Range(session.lines) /\ n = ReadSoFar /\ e = Cut(session.lines)[n]
    OBVIOUS
  <1>3. e \in Cutting(A)
    BY <1>2, CutIs, ReadBounds, SessionLines DEF StateRight, LinesRight
  <1>4. Answered(e.closed) /\ block = e.open
    BY <1>1, <1>2 DEF OrderRight, ReadingRight
  <1>5. DueNow' = Closed(e)
    BY <1>1, <1>2 DEF DueNow, ExamplesUpTo, ReadSoFar, Runs
  <1>6. Answered(e.closed)' /\ Closing(e.closed, block') = DueNow' /\ e.closed \in Seq(Seq(A))
    BY <1>1, <1>3, <1>4, <1>5, AnsweredStays DEF Closing, Closed, Cutting
  <1>7. A = Range(session'.lines)
    BY <1>1, <1>2
  <1>8. AnsweringRight'
    BY <1>1, <1>6, <1>7 DEF AnsweringRight
  <1> QED BY <1>1, <1>8 DEF OrderRight

LEMMA PlaceIs ==
  ASSUME StateRight, Runs("connection"), NEW n \in 0 .. Len(session.lines), NoBlankWithin(1, n),
         n = Len(session.lines) \/ session.lines[n + 1].kind = "blank"
  PROVE  ToAnswer = Closed(Cut(session.lines)[n])
  <1>1. PICK p \in 0 .. Len(session.lines) :
          /\ NoBlankWithin(1, p) /\ ToAnswer = Closed(Cut(session.lines)[p])
          /\ p = Len(session.lines) \/ session.lines[p + 1].kind = "blank"
    BY ConnectionPlace
  <1>2. n \in Nat /\ p \in Nat /\ Len(session.lines) \in Nat
    BY ReadBounds
  <1>3. ~(p < n)
    <2> SUFFICES ASSUME p < n PROVE FALSE
      OBVIOUS
    <2>1. p + 1 \in 1 .. n /\ p # Len(session.lines)
      BY <1>2
    <2> QED BY <1>1, <2>1 DEF NoBlankWithin
  <1>4. ~(n < p)
    <2> SUFFICES ASSUME n < p PROVE FALSE
      OBVIOUS
    <2>1. n + 1 \in 1 .. p /\ n # Len(session.lines)
      BY <1>2
    <2> QED BY <1>1, <2>1 DEF NoBlankWithin
  <1> QED BY <1>1, <1>2, <1>3, <1>4

(* A connection that reads MaxFacts lines has read all of its example.     *)
LEMMA FullIsAll ==
  ASSUME StateRight, Ordinary, Runs("connection"), NEW n \in 0 .. Len(session.lines),
         NoBlankWithin(1, n), Full(Cut(session.lines)[n].open)
  PROVE  ToAnswer = Closing(Cut(session.lines)[n].closed, Cut(session.lines)[n].open)
  <1>1. PICK p \in 0 .. Len(session.lines) :
          /\ NoBlankWithin(1, p) /\ ToAnswer = Closed(Cut(session.lines)[p])
          /\ p = Len(session.lines) \/ session.lines[p + 1].kind = "blank"
    BY ConnectionPlace
  <1>2. n \in Nat /\ p \in Nat /\ Len(session.lines) \in Nat
    BY ReadBounds
  <1>3. n \in 0 .. p
    <2> SUFFICES ASSUME p < n PROVE FALSE
      BY <1>2
    <2>1. p + 1 \in 1 .. n /\ p # Len(session.lines)
      BY <1>2
    <2> QED BY <1>1, <2>1 DEF NoBlankWithin
  <1>4. PICK A, s, c : A = Range(session.lines) /\ s = session.lines /\ c = Cut(session.lines)
    OBVIOUS
  <1>5. s \in Seq(A) /\ p \in 0 .. Len(s) /\ \A i \in 1 .. p : s[i].kind # "blank"
    BY <1>1, <1>4, SessionLines DEF StateRight, LinesRight, NoBlankWithin
  <1>6. /\ c[p].closed = <<>> /\ c[n].closed = <<>>
        /\ c[n].open = c[p].open \/ Len(c[n].open) < Len(c[p].open)
    <2>1. \A k \in 0 .. p :
            /\ Cut(s)[k].closed = <<>>
            /\ \A j \in 0 .. k : \/ Cut(s)[j].open = Cut(s)[k].open
                                \/ Len(Cut(s)[j].open) < Len(Cut(s)[k].open)
      BY <1>5, OpenGrows
    <2>2. p \in 0 .. p /\ n \in 0 .. p
      BY <1>2, <1>3
    <2>3. c = Cut(s)
      BY <1>4
    <2> QED BY <2>1, <2>2, <2>3
  <1>7. c[p] \in Cutting(A) /\ c[n] \in Cutting(A)
    BY <1>4, <1>5, CutIs
  <1>8. PICK x, y : x = c[n].open /\ y = c[p].open
    OBVIOUS
  <1>9. x \in Seq(A) /\ y \in Seq(A) /\ Len(x) \in Nat /\ Len(y) \in Nat
    BY <1>7, <1>8 DEF Cutting
  <1>10. ToAnswer = Closing(<<>>, y)
    BY <1>1, <1>4, <1>6, <1>8 DEF Closed, Closing
  <1>11. ~(Len(x) < Len(y))
    <2> SUFFICES ASSUME Len(x) < Len(y) PROVE FALSE
      OBVIOUS
    <2>1. y # <<>>
      BY <1>9
    <2>2. ToAnswer = Append(<<>>, y)
      BY <1>10, <2>1 DEF Closing
    <2>3. y \in Range(ToAnswer)
      <3>1. PICK z : z = <<>>
        OBVIOUS
      <3>2. z \in Seq(Range(z))
        BY <3>1, RangeEmpty
      <3>3. Range(Append(z, y)) = Range(z) \cup {y}
        BY <3>2, RangeAppend
      <3> QED BY <2>2, <3>1, <3>3
    <2>4. Len(y) <= MaxFacts
      BY <2>3 DEF Ordinary
    <2>5. Len(x) >= MaxFacts
      BY <1>4, <1>8 DEF Full
    <2> QED BY <1>9, <2>4, <2>5, MaxFactsAssumption
  <1> QED BY <1>4, <1>6, <1>8, <1>10, <1>11

LEMMA OrderReadSocket ==
  ASSUME StateRight, OrderRight, Ordinary, ReadSocket PROVE OrderRight'
  <1>1. /\ pc = "read" /\ Runs("connection") /\ Runs("connection")' /\ session.ending = "eof"
        /\ UNCHANGED <<session, stream, output>>
    BY DEF ReadSocket, Runs, Ordinary
  <1>2. PICK A, s, c, n : /\ A = Range(session.lines) /\ s = session.lines
                          /\ c = Cut(session.lines) /\ n = ReadSoFar
    OBVIOUS
  <1>3. /\ s \in Seq(A) /\ n \in 0 .. Len(s) /\ n \in Nat /\ c[n] \in Cutting(A)
        /\ A = Range(session'.lines) /\ Cut(session.lines)' = c
    BY <1>1, <1>2, CutIs, ReadBounds, SessionLines DEF StateRight, LinesRight
  <1>4. /\ Answered(c[n].closed) /\ block = c[n].open /\ stream = "good" /\ NoBlankWithin(1, n)
        /\ c[n].closed \in Seq(Seq(A))
    BY <1>1, <1>2, <1>3 DEF OrderRight, ReadingRight, Cutting
  <1>5. DueNow' = ToAnswer
    BY <1>1 DEF DueNow, ToAnswer, LastToRead, Blanks, Runs
  <1>6. ASSUME NEW closed \in Seq(Seq(A)), Answered(closed), ToAnswer = Closing(closed, block')
        PROVE  AnsweringRight'
    <2>1. Answered(closed)'
      BY <1>1, <1>6, AnsweredStays
    <2> QED BY <1>1, <1>3, <1>4, <1>5, <1>6, <2>1 DEF AnsweringRight
  <1>7. ASSUME block' = block, pc' = "answer",
               n = Len(session.lines) \/ session.lines[n + 1].kind = "blank"
        PROVE  OrderRight'
    <2>1. ToAnswer = Closed(c[n])
      BY <1>1, <1>2, <1>3, <1>4, <1>7, PlaceIs
    <2>2. ToAnswer = Closing(c[n].closed, block')
      BY <1>4, <1>7, <2>1 DEF Closed, Closing
    <2>3. AnsweringRight'
      BY <1>4, <1>6, <2>2
    <2> QED BY <1>7, <2>3 DEF OrderRight
  <1>8. CASE input = <<>>
    <2>1. buffer' = [kind |-> "blank"]
      BY <1>1, <1>8 DEF ReadSocket
    <2>2. PICK l : l = buffer'
      OBVIOUS
    <2>3. l.kind = "blank"
      BY <2>1, <2>2
    <2>4. Take(l, TRUE)
      BY <2>2 DEF ReadSocket, Take
    <2>5. block' = block
      BY <2>3, <2>4 DEF Take
    <2>6. pc' = "answer"
      BY <2>2, <2>3 DEF ReadSocket
    <2>7. n = Len(session.lines)
      BY <1>2, <1>8, ReadBounds DEF ReadSoFar
    <2> QED BY <1>7, <2>5, <2>6, <2>7
  <1>9. CASE input # <<>>
    <2>1. PICK e, f, l : /\ n + 1 \in 1 .. Len(session.lines)
                         /\ l = Head(input) /\ l = session.lines[n + 1] /\ l \in A
                         /\ e = c[n] /\ e \in Cutting(A)
                         /\ f = c[n + 1] /\ f = CutAt(e, l)
      BY <1>2, <1>9, LineCut
    <2>2. l.kind \in {"text", "directive", "blank"}
      BY <1>1, <1>2, <2>1, SessionsAssumption DEF Ordinary, StateRight, LinesRight
    <2>3. buffer' = l /\ input' = Tail(input)
      BY <1>9, <2>1 DEF ReadSocket
    <2>4. block' = IF l.kind = "text" THEN Append(block, l) ELSE block
      BY <2>2, <2>3 DEF ReadSocket, Take
    <2>5. pc' = IF l.kind = "blank" \/ Full(block') THEN "answer" ELSE "read"
      BY <1>1, <2>3 DEF ReadSocket
    <2>6. CASE l.kind = "blank"
      BY <1>7, <2>1, <2>4, <2>5, <2>6
    <2>7. CASE l.kind # "blank"
      <3>1. f.closed = e.closed /\ f.open = block'
        <4>0. e \in Cutting(A) /\ l \in A /\ f = CutAt(e, l) /\ block = e.open
          BY <1>4, <2>1
        <4>1. CASE l.kind = "text"
          <5>1. block' = Append(e.open, l)
            BY <2>4, <4>0, <4>1
          <5>2. f.closed = e.closed /\ f.open = Append(e.open, l)
            BY <4>0, <4>1, CutAtCases
          <5> QED BY <5>1, <5>2
        <4>2. CASE l.kind # "text"
          <5>1. f = e
            BY <2>7, <4>0, <4>2, CutAtCases
          <5> QED BY <2>4, <4>0, <4>2, <5>1
        <4> QED BY <4>1, <4>2
      <3>2. NoBlankWithin(1, n + 1)
        <4>1. \A i \in 1 .. n + 1 : i \in 1 .. n \/ i = n + 1
          BY <1>3
        <4> QED BY <1>4, <2>1, <2>7, <4>1 DEF NoBlankWithin
      <3>3. CASE Full(block')
        <4>1. PICK m : m = n + 1
          OBVIOUS
        <4>2. /\ m \in 0 .. Len(session.lines) /\ NoBlankWithin(1, m)
              /\ Full(Cut(session.lines)[m].open)
          <5>1. m \in 0 .. Len(session.lines) /\ NoBlankWithin(1, m)
            BY <2>1, <3>2, <4>1
          <5>2. Cut(session.lines)[m] = f
            BY <1>2, <2>1, <4>1
          <5>3. Full(f.open)
            BY <3>1, <3>3 DEF Full
          <5> QED BY <5>1, <5>2, <5>3 DEF Full
        <4>3. ToAnswer = Closing(Cut(session.lines)[m].closed, Cut(session.lines)[m].open)
          BY <1>1, <4>2, FullIsAll
        <4>4. ToAnswer = Closing(e.closed, block')
          BY <1>2, <2>1, <3>1, <4>1, <4>3
        <4>5. AnsweringRight'
          BY <1>4, <1>6, <2>1, <4>4
        <4> QED BY <2>5, <3>3, <4>5 DEF OrderRight
      <3>4. CASE ~Full(block')
        <4>1. ReadSoFar' = n + 1
          <5>1. Len(input') = Len(input) - 1 /\ Len(input) \in Nat /\ Len(session.lines) \in Nat
            BY <1>9, <2>3, InputRead, ReadBounds
          <5> QED BY <1>1, <1>2, <5>1 DEF ReadSoFar
        <4>2. Answered(f.closed)'
          BY <1>1, <1>4, <2>1, <3>1, AnsweredStays
        <4>3. NoBlankWithin(1, n + 1)'
          BY <1>1, <3>2 DEF NoBlankWithin
        <4>4. ReadingRight'
          BY <1>1, <1>3, <1>4, <2>1, <3>1, <4>1, <4>2, <4>3 DEF ReadingRight
        <4> QED BY <2>5, <2>7, <3>4, <4>4 DEF OrderRight
      <3> QED BY <3>3, <3>4
    <2> QED BY <2>6, <2>7
  <1> QED BY <1>8, <1>9

(* When the input has ended, what is due is all of it.                     *)
LEMMA DueIsAll ==
  ASSUME StateRight, AnsweringRight, Runs("connection") \/ stream = "failed"
  PROVE  DueNow = ToAnswer
  <1>1. CASE Runs("connection")
    BY <1>1 DEF DueNow
  <1>2. CASE ~Runs("connection")
    <2>1. input = <<>>
      BY <1>2 DEF AnsweringRight
    <2>2. ReadSoFar = Len(session.lines)
      BY <2>1, ReadBounds DEF ReadSoFar
    <2> QED BY <1>2, <2>2 DEF DueNow, ToAnswer, LastToRead
  <1> QED BY <1>1, <1>2

(* Otherwise it is what is closed, and nothing is open.                    *)
LEMMA DueIsClosed ==
  ASSUME StateRight, AnsweringRight, ~Runs("connection"), stream = "good"
  PROVE  /\ DueNow = Cut(session.lines)[ReadSoFar].closed
         /\ Cut(session.lines)[ReadSoFar].open = <<>>
  BY DEF AnsweringRight, DueNow, ExamplesUpTo, Closed

LEMMA OrderNextExample ==
  ASSUME StateRight, OrderRight, pc = "answer", NextExample,
         session' = session, input' = input, stream' = stream, Answered(DueNow)'
  PROVE  OrderRight'
  <1>1. AnsweringRight
    BY DEF OrderRight
  <1>2. block' = <<>> /\ pc' = IF Runs("connection") \/ stream = "failed" THEN "done" ELSE "read"
    BY DEF NextExample
  <1>3. PICK all : all = DueNow
    OBVIOUS
  <1>4. Answered(all)'
    <2>1. DueNow' = DueNow
      BY DEF DueNow, ToAnswer, ExamplesUpTo, LastToRead, Blanks, ReadSoFar, Runs
    <2> QED BY <1>3, <2>1 DEF Answered
  <1>5. CASE Runs("connection") \/ stream = "failed"
    <2>1. ToAnswer = all
      BY <1>1, <1>3, <1>5, DueIsAll
    <2>2. ToAnswer' = all
      BY <2>1 DEF ToAnswer, ExamplesUpTo, LastToRead, Blanks, Runs
    <2>3. Answered(ToAnswer)'
      BY <1>4, <2>2 DEF Answered
    <2> QED BY <1>2, <1>5, <2>3 DEF OrderRight
  <1>6. CASE ~Runs("connection") /\ stream # "failed"
    <2>1. stream = "good"
      BY <1>6 DEF StateRight
    <2>2. PICK e : e = Cut(session.lines)[ReadSoFar]
      OBVIOUS
    <2>3. all = e.closed /\ e.open = <<>>
      BY <1>1, <1>3, <1>6, <2>1, <2>2, DueIsClosed
    <2>4. Cut(session.lines)[ReadSoFar]' = e /\ ~Runs("connection")'
      BY <1>6, <2>2 DEF ReadSoFar, Runs
    <2>5. Answered(e.closed)'
      BY <1>4, <2>3
    <2>6. ReadingRight'
      BY <1>2, <2>1, <2>3, <2>4, <2>5 DEF ReadingRight
    <2> QED BY <1>2, <1>6, <2>6 DEF OrderRight
  <1> QED BY <1>5, <1>6

LEMMA OrderNothing ==
  ASSUME StateRight, OrderRight, NothingToAnswer PROVE OrderRight'
  <1>1. /\ pc = "answer" /\ block = <<>> /\ NextExample
        /\ UNCHANGED <<session, input, stream, output>>
    BY DEF NothingToAnswer
  <1>2. Answered(DueNow)
    BY <1>1 DEF OrderRight, AnsweringRight, Closing
  <1>3. Answered(DueNow)'
    BY <1>1, <1>2 DEF Answered, DueNow, ToAnswer, ExamplesUpTo, LastToRead, Blanks, ReadSoFar, Runs
  <1> QED BY <1>1, <1>3, OrderNextExample

(* Facts of sequences: equal domains mean equal lengths, the places before
   the last, and what appending leaves.                                    *)
LEMMA SameLength ==
  ASSUME NEW m \in Nat, NEW n \in Nat, 1 .. m = 1 .. n PROVE m = n
  <1>1. ~ m < n
    <2> SUFFICES ASSUME m < n PROVE FALSE
      OBVIOUS
    <2>1. n \in 1 .. n /\ n \notin 1 .. m
      OBVIOUS
    <2> QED BY <2>1
  <1>2. ~ n < m
    <2> SUFFICES ASSUME n < m PROVE FALSE
      OBVIOUS
    <2>1. m \in 1 .. m /\ m \notin 1 .. n
      OBVIOUS
    <2> QED BY <2>1
  <1> QED BY <1>1, <1>2

LEMMA NotLast ==
  ASSUME NEW n \in Nat, NEW k \in 1 .. n, k # n PROVE k \in 1 .. n - 1
  OBVIOUS

LEMMA AppendIs ==
  ASSUME NEW T, NEW s \in Seq(T), NEW e \in T
  PROVE  /\ Append(s, e) \in Seq(T) /\ Len(Append(s, e)) = Len(s) + 1
         /\ \A k \in 1 .. Len(s) + 1 : Append(s, e)[k] = IF k = Len(s) + 1 THEN e ELSE s[k]
  <1>1. /\ Append(s, e) \in Seq(T) /\ Len(Append(s, e)) = Len(s) + 1
    OBVIOUS
  <1>2. Append(s, e)[Len(s) + 1] = e
    OBVIOUS
  <1>3. \A k \in 1 .. Len(s) : Append(s, e)[k] = s[k]
    OBVIOUS
  <1>4. \A k \in 1 .. Len(s) + 1 : k \in 1 .. Len(s) \/ k = Len(s) + 1
    OBVIOUS
  <1> QED BY <1>1, <1>2, <1>3, <1>4

(* An answer to a block has the texts of its lines.                        *)
LEMMA FactIsText ==
  ASSUME NEW A, block \in Seq(A), block # <<>>,
         NEW r, r.premises = Premises, r.query = Query.text
  PROVE  Fact(r) = TextOf(block)
  <1>1. PICK bl, ps, q : bl = block /\ ps = Premises /\ q = Query.text
    OBVIOUS
  <1> DEFINE T == {l.text : l \in A}
  <1>2. /\ bl \in Seq(A) /\ Len(bl) \in Nat \ {0} /\ DOMAIN bl = 1 .. Len(bl) /\ bl[Len(bl)] \in A
        /\ \A k \in 1 .. Len(bl) : bl[k] \in A
    BY <1>1
  <1>3. Front(bl) \in Seq(A) /\ DOMAIN Front(bl) = 1 .. Len(bl) - 1
        /\ \A k \in 1 .. Len(bl) - 1 : Front(bl)[k] = bl[k]
    BY <1>2 DEF Front
  <1>4. ps = [k \in 1 .. Len(bl) - 1 |-> bl[k].text] /\ q = bl[Len(bl)].text
    <2>1. ps = [k \in DOMAIN Front(bl) |-> Front(bl)[k].text]
      BY <1>1 DEF Premises
    <2>2. q = bl[Len(bl)].text
      BY <1>1 DEF Query, Last
    <2> QED BY <1>3, <2>1, <2>2
  <1>5. ps \in Seq(T) /\ Len(ps) = Len(bl) - 1 /\ q \in T
    <2>1. Len(bl) - 1 \in Nat /\ \A k \in 1 .. Len(bl) - 1 : bl[k].text \in T
      BY <1>2
    <2>2. q \in T
      BY <1>2, <1>4
    <2> HIDE DEF T
    <2> QED BY <1>4, <2>1, <2>2
  <1>6. /\ Append(ps, q) \in Seq(T) /\ Len(Append(ps, q)) = Len(bl)
        /\ \A k \in 1 .. Len(bl) : Append(ps, q)[k] = IF k = Len(bl) THEN q ELSE ps[k]
    <2> HIDE DEF T
    <2>1. PICK n, all : n = Len(bl) /\ all = Append(ps, q)
      OBVIOUS
    <2>2. /\ all \in Seq(T) /\ Len(all) = Len(ps) + 1
          /\ \A k \in 1 .. Len(ps) + 1 : all[k] = IF k = Len(ps) + 1 THEN q ELSE ps[k]
      BY <1>5, <2>1, AppendIs
    <2>3. Len(ps) + 1 = n
      BY <1>2, <1>5, <2>1
    <2> QED BY <2>1, <2>2, <2>3
  <1>7. TextOf(bl) \in Seq(T) /\ Len(TextOf(bl)) = Len(bl)
        /\ \A k \in 1 .. Len(bl) : TextOf(bl)[k] = bl[k].text
    <2>1. TextOf(bl) = [k \in 1 .. Len(bl) |-> bl[k].text] /\ Len(bl) \in Nat
      BY <1>2 DEF TextOf
    <2>2. \A k \in 1 .. Len(bl) : bl[k].text \in T
      BY <1>2
    <2> HIDE DEF T
    <2> QED BY <2>1, <2>2
  <1>8. \A k \in 1 .. Len(bl) : Append(ps, q)[k] = TextOf(bl)[k]
    <2> SUFFICES ASSUME NEW k \in 1 .. Len(bl) PROVE Append(ps, q)[k] = TextOf(bl)[k]
      OBVIOUS
    <2>1. CASE k = Len(bl)
      BY <1>4, <1>6, <1>7, <2>1
    <2>2. CASE k # Len(bl)
      <3>1. k \in 1 .. Len(bl) - 1
        <4>1. Len(bl) \in Nat
          BY <1>2
        <4> QED BY <2>2, <4>1, NotLast
      <3> QED BY <1>4, <1>6, <1>7, <2>2, <3>1
    <2> QED BY <2>1, <2>2
  <1>9. Append(ps, q) = TextOf(bl)
    <2> HIDE DEF T
    <2> QED BY <1>6, <1>7, <1>8, SeqEqual
  <1> QED BY <1>1, <1>9 DEF Fact

LEMMA OrderAnswer ==
  ASSUME StateRight, OrderRight, Answer PROVE OrderRight'
  <1>1. PICK r : Reply(r) /\ r.premises = Premises /\ r.query = Query.text
    BY AnswerIsDue
  <1>2. /\ pc = "answer" /\ block # <<>> /\ NextExample /\ output' = Append(output, r)
        /\ UNCHANGED <<session, input, stream>>
    BY <1>1 DEF Answer, Reply
  <1>3. PICK A, bl : A = Range(session.lines) /\ bl = block
    OBVIOUS
  <1>4. bl \in Seq(A) /\ bl # <<>>
    BY <1>2, <1>3 DEF StateRight, LinesRight
  <1>5. PICK closed \in Seq(Seq(A)) : Answered(closed) /\ Closing(closed, bl) = DueNow
    BY <1>2, <1>3 DEF OrderRight, AnsweringRight
  <1>6. Fact(r) = TextOf(bl)
    BY <1>1, <1>3, <1>4, FactIsText
  <1>7. DueNow = Append(closed, bl)
    BY <1>4, <1>5 DEF Closing
  <1>8. PICK old, new, all : old = output /\ new = output' /\ all = DueNow
    OBVIOUS
  <1>9. /\ DOMAIN old = 1 .. Len(old) /\ Len(old) \in Nat
        /\ DOMAIN new = 1 .. Len(old) + 1 /\ new[Len(old) + 1] = r
        /\ \A k \in 1 .. Len(old) : new[k] = old[k]
    <2>1. old \in Seq(Range(old)) /\ new = Append(old, r)
      BY <1>2, <1>8 DEF StateRight
    <2>2. new \in Seq(Range(old) \cup {r}) /\ old \in Seq(Range(old) \cup {r})
      BY <2>1
    <2> QED BY <2>1, <2>2
  <1>10. /\ DOMAIN closed = 1 .. Len(closed) /\ Len(closed) \in Nat
         /\ DOMAIN all = 1 .. Len(closed) + 1 /\ all[Len(closed) + 1] = bl
         /\ \A k \in 1 .. Len(closed) : all[k] = closed[k]
    BY <1>4, <1>7, <1>8
  <1>11. [k \in DOMAIN old |-> Fact(old[k])] = [k \in DOMAIN closed |-> TextOf(closed[k])]
    BY <1>5, <1>8 DEF Answered
  <1>12. Len(old) = Len(closed) /\ \A k \in 1 .. Len(old) : Fact(old[k]) = TextOf(closed[k])
    <2>1. DOMAIN old = DOMAIN closed
      BY <1>11
    <2>2. Len(old) = Len(closed)
      BY <1>9, <1>10, <2>1, SameLength
    <2> QED BY <1>9, <1>11, <2>1, <2>2
  <1>13. \A k \in 1 .. Len(old) + 1 : Fact(new[k]) = TextOf(all[k])
    <2>1. \A k \in 1 .. Len(old) + 1 : k \in 1 .. Len(old) \/ k = Len(old) + 1
      BY <1>9
    <2> QED BY <1>6, <1>9, <1>10, <1>12, <2>1
  <1>14. [k \in DOMAIN new |-> Fact(new[k])] = [k \in DOMAIN all |-> TextOf(all[k])]
    BY <1>9, <1>10, <1>12, <1>13
  <1>15. Answered(all)'
    BY <1>8, <1>14 DEF Answered
  <1>16. DueNow' = all
    BY <1>2, <1>8 DEF DueNow, ToAnswer, ExamplesUpTo, LastToRead, Blanks, ReadSoFar, Runs
  <1>17. Answered(DueNow)'
    BY <1>15, <1>16 DEF Answered
  <1> QED BY <1>2, <1>17, OrderNextExample

(* The example at hand is one of those to answer.                          *)
LEMMA BlockIsDue ==
  ASSUME StateRight, OrderRight, pc = "answer", block # <<>>
  PROVE  block \in Range(ToAnswer)
  <1>0. AnsweringRight
    BY DEF OrderRight
  <1>1. PICK A, bl, s : A = Range(session.lines) /\ bl = block /\ s = session.lines
    OBVIOUS
  <1>2. bl \in Seq(A) /\ s \in Seq(A) /\ ReadSoFar \in 0 .. Len(s)
    BY <1>1, ReadBounds, SessionLines DEF StateRight, LinesRight
  <1>3. PICK closed \in Seq(Seq(A)) : Closing(closed, bl) = DueNow
    BY <1>0, <1>1 DEF AnsweringRight
  <1>4. DueNow = Append(closed, bl)
    BY <1>1, <1>3 DEF Closing
  <1>5. bl \in Range(DueNow)
    <2>1. closed \in Seq(Range(closed))
      BY OwnRange
    <2>2. Range(Append(closed, bl)) = Range(closed) \cup {bl}
      BY <2>1, RangeAppend
    <2> QED BY <1>4, <2>2
  <1>6. CASE Runs("connection") \/ stream = "failed"
    BY <1>0, <1>1, <1>5, <1>6, DueIsAll
  <1>7. CASE ~Runs("connection") /\ stream # "failed"
    <2>1. stream = "good"
      BY <1>7 DEF StateRight
    <2>2. DueNow = Cut(s)[ReadSoFar].closed
      BY <1>0, <1>1, <1>7, <2>1, DueIsClosed
    <2>3. Range(Cut(s)[ReadSoFar].closed) \subseteq Range(ExamplesUpTo(s, Len(s)))
      BY <1>2, ClosedStay
    <2>4. ToAnswer = ExamplesUpTo(s, Len(s))
      BY <1>1, <1>7 DEF ToAnswer, LastToRead
    <2> QED BY <1>1, <1>5, <2>2, <2>3, <2>4
  <1> QED BY <1>6, <1>7

LEMMA NeverCrashes ==
  ASSUME StateRight, OrderRight, Ordinary, Crash PROVE FALSE
  <1>1. /\ pc = "answer" /\ block # <<>>
        /\ BareLabel \/ \E p \in Range(Premises) : ~Readable(p, "P")
    BY DEF Crash
  <1>2. block \in Range(ToAnswer)
    BY <1>1, BlockIsDue
  <1>3. /\ Runs("trees") \/ Last(block).label = "NONE" \/ Last(block).text # Empty
        /\ Runs("trees") \/ \A p \in Range(Front(block)) : Annotate(p.text, "P") # <<>>
    BY <1>2 DEF Ordinary
  <1>4. ~BareLabel
    BY <1>3 DEF BareLabel, Label, Query
  <1>5. ASSUME NEW p \in Range(Premises) PROVE Readable(p, "P")
    <2>1. PICK k \in DOMAIN Front(block) : p = Front(block)[k].text
      BY <1>5 DEF Range, Premises
    <2>2. Front(block)[k] \in Range(Front(block))
      BY DEF Range
    <2> QED BY <1>3, <2>1, <2>2 DEF Readable
  <1> QED BY <1>1, <1>4, <1>5

LEMMA OrdinaryStays ==
  ASSUME session' = session PROVE Ordinary' <=> Ordinary
  BY DEF Ordinary, ToAnswer, ExamplesUpTo, LastToRead, Blanks, Runs, Annotate, Bridge!Answer

LEMMA OrderNext ==
  StateRight /\ (Ordinary => OrderRight) /\ [Next]_vars => (Ordinary => OrderRight)'
  <1> SUFFICES ASSUME StateRight, Ordinary => OrderRight, [Next]_vars, Ordinary' PROVE OrderRight'
    OBVIOUS
  <1>1. session' = session
    BY DEF Next, vars, GetLine, ReadTree, EndOfInput, ReadSocket, NothingToAnswer, Crash, Answer, Stopped
  <1>2. Ordinary /\ OrderRight
    BY <1>1, OrdinaryStays
  <1>3. CASE UNCHANGED vars
    BY <1>2, <1>3 DEF vars, OrderRight, ReadingRight, AnsweringRight, Answered, DueNow, ToAnswer,
                      ExamplesUpTo, LastToRead, Blanks, ReadSoFar, Runs, NoBlankWithin
  <1> QED BY <1>2, <1>3, OrderGetLine, OrderEndOfInput, OrderReadSocket, OrderNothing, OrderAnswer,
             NeverCrashes DEF Next, Stopped

LEMMA OrderAnswers == (Ordinary => OrderRight) => ExamplesAnswered
  <1> SUFFICES ASSUME Ordinary, OrderRight PROVE ExamplesAnswered
    BY DEF ExamplesAnswered
  <1>1. pc = "done" => Answered(ToAnswer)
    BY DEF OrderRight
  <1>2. Answered(ToAnswer) =>
          [i \in DOMAIN output |-> Append(output[i].premises, output[i].query)]
            = [i \in DOMAIN ToAnswer |-> [j \in DOMAIN ToAnswer[i] |-> ToAnswer[i][j].text]]
    BY Zenon DEF Answered, Fact, TextOf
  <1> QED BY <1>1, <1>2 DEF OrderRight, ExamplesAnswered

FrontInv ==
  /\ StateRight /\ AllDue /\ BlockRight /\ NoCarryOver
  /\ Ordinary => OrderRight

LEMMA FrontInvariant == Spec => []FrontInv
  <1>1. Init => FrontInv
    BY StateInit, BlockInit, OrderInit, RangeEmpty DEF Init, FrontInv, AllDue, NoCarryOver
  <1>2. FrontInv /\ [Next]_vars => FrontInv'
    BY StateNext, DueNext, BlockNext, NoCarryOverNext, OrderNext DEF FrontInv
  <1> QED BY <1>1, <1>2, PTL DEF Spec

-------------------------------------------------------------------------------
(* The state of every front end has its type: what is left of the input is *)
(* a suffix of it, an example has room for its lines (MAX_FACTS of a       *)
(* connection included), and no more examples fail than are answered.      *)
THEOREM FrontEndTypeCorrect == Spec => []TypeOK
  BY FrontInvariant, StateTyped, PTL DEF FrontInv

(* With hard costs and true premises a hard guess of executeQuery() is the *)
(* truth, if the search keeps TruthSound: the search for the query and the *)
(* one for its negation are not mixed up.                                  *)
THEOREM VerdictIsSound == Spec => []VerdictSound
  <1>1. FrontInv => VerdictSound
    BY DEF FrontInv, AllDue, Due, VerdictSound
  <1> QED BY <1>1, FrontInvariant, PTL

(* The guess of executeQuery() is that of the search with the cheapest     *)
(* path, whatever the searches found and wherever confidence() overflows.  *)
THEOREM CheapestDecidesGuess == Spec => []CheapestWins
  <1>1. FrontInv => CheapestWins
    BY DEF FrontInv, AllDue, Due, CheapestWins
  <1> QED BY <1>1, FrontInvariant, PTL

(* passOrFail() of a REPL passes an example only if its guess agrees with  *)
(* the label or carries no weight, and fails one that agrees only if       *)
(* probability() has lost the confidence.                                  *)
THEOREM PrefixAgrees == Spec => []PassMeansAgree
  <1>1. FrontInv => PassMeansAgree
    BY DEF FrontInv, AllDue, Due, PassMeansAgree
  <1> QED BY <1>1, FrontInvariant, PTL

(* Whatever the input, no answer mixes the sentences of two examples: the  *)
(* three reading loops begin a new example at every blank line, long       *)
(* lines, lost connections and lines taken twice included.                 *)
THEOREM ExamplesNeverMix == Spec => []NoCarryOver
  BY FrontInvariant, PTL DEF FrontInv

(* Of ordinary input every example is answered once and in order, with its *)
(* last line as the query and the others as premises, and no front end     *)
(* crashes: the loops of repl() and handleConnection() take for an example *)
(* the sentences between blank lines (Cut), however long the input.        *)
THEOREM EveryExampleIsAnswered == Spec => []ExamplesAnswered
  <1>1. FrontInv => ExamplesAnswered
    BY OrderAnswers DEF FrontInv
  <1> QED BY <1>1, FrontInvariant, PTL
===============================================================================
