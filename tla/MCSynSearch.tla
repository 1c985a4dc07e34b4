------------------------------ MODULE MCSynSearch ------------------------------
(***************************************************************************)
(* Small instances of SynSearch: sentences, graphs, and the calls made.    *)
(***************************************************************************)
EXTENDS SynSearch

Marker(sm, st, om, ot) == [subjMono |-> sm, subjType |-> st, objMono |-> om, objType |-> ot]
AllMark  == Marker("DOWN", "ADDITIVE", "UP", "MULTIPLICATIVE")
SomeMark == Marker("UP", "ADDITIVE", "UP", "ADDITIVE")
NotAllMark == Marker("UP", "ADDITIVE", "DOWN", "MULTIPLICATIVE")
NoMark   == Marker("DOWN", "ADDITIVE", "DOWN", "ADDITIVE")

Words == {"lemur", "potto", "animal", "cat", "have", "own", "tail", "furry",
          "all", "some", "no", "every", "not all"}

(* The generated tables: characterizeQuantifier (only asked of             *)
(* quantifiers, from etc/operators.tab) and                                *)
(* dependencyInsertToLexicalFunction (from etc/depInsert2rel.tab).         *)
MarkingOf == [w \in Words |->
  CASE w \in {"all", "every"} -> AllMark [] w = "no" -> NoMark
    [] w = "not all" -> NotAllMark [] OTHER -> SomeMark]

InsertionOf == [nsubj |-> "INDEPENDENCE", root |-> "INDEPENDENCE", ccomp |-> "INDEPENDENCE",
                dobj |-> "REVERSE", amod |-> "REVERSE", op |-> "INDEPENDENCE",
                det |-> "EQUIVALENT"]

-------------------------------------------------------------------------------
(* Sentences                                                               *)
R == TREE_ROOT

ZeroBased(s) == [i \in 0 .. Len(s) - 1 |-> s[i + 1]]

Sentence(words, governors, relations, quantifiers) ==
  [word |-> ZeroBased(words), sense |-> [i \in 0 .. Len(words) - 1 |-> 0],
   governor |-> ZeroBased(governors), relation |-> ZeroBased(relations),
   quantifiers |-> quantifiers, locations |-> {}, stray |-> "stray"]

Quantifier(token, subj, obj, mono) ==
  [token |-> token, subj |-> subj, obj |-> obj, mono |-> mono]

Have(subject) == Sentence(<<subject, "have", "tail">>, <<1, R, 1>>,
                          <<"nsubj", "root", "dobj">>, <<>>)

HaveFurry(subject) == Sentence(<<subject, "have", "furry", "tail">>, <<1, R, 3, 1>>,
                               <<"nsubj", "root", "amod", "dobj">>, <<>>)

FurryHave(subject) == Sentence(<<"furry", subject, "have", "tail">>, <<1, 2, R, 2>>,
                               <<"amod", "nsubj", "root", "dobj">>, <<>>)

QuantHave(q, arc, mark, subject) ==
  Sentence(<<q, subject, "have", "tail">>, <<1, 2, R, 2>>, <<arc, "nsubj", "root", "dobj">>,
           << Quantifier(0, <<1, 2>>, <<2, 4>>, mark) >>)

QuantFurryHave(q, mark) ==
  Sentence(<<q, "furry", "cat", "have", "tail">>, <<2, 2, 3, R, 3>>,
           <<"op", "amod", "nsubj", "root", "dobj">>,
           << Quantifier(0, <<1, 3>>, <<3, 5>>, mark) >>)

QuantRun(q, mark, subject) ==
  Sentence(<<q, subject, "have">>, <<1, 2, R>>, <<"op", "nsubj", "root">>,
           << Quantifier(0, <<1, 2>>, <<2, 3>>, mark) >>)

TwoQuantifiers ==
  Sentence(<<"all", "cat", "have", "some", "tail">>, <<1, 2, R, 4, 2>>,
           <<"op", "nsubj", "root", "op", "dobj">>,
           << Quantifier(0, <<1, 2>>, <<2, 5>>, AllMark),
              Quantifier(3, <<4, 5>>, <<4, 4>>, SomeMark) >>)

(* The same with a complement, which cannot be deleted, for its object.    *)
Complement(t) ==
  [t EXCEPT !.relation = [i \in DOMAIN @ |-> IF @[i] = "dobj" THEN "ccomp" ELSE @[i]]]

-------------------------------------------------------------------------------
(* Graphs                                                                  *)
Edge(source, type, sink, cost) ==
  [source |-> source, sourceSense |-> 0, sinkSense |-> 0, type |-> type,
   cost |-> cost, sink |-> sink]

Graph(edges) == [w \in Words |-> SelectSeq(edges, LAMBDA e : e.sink = w)]

(* ReadMockGraph, without and with its cycles.                             *)
MockEdges == << Edge("potto", "HYPERNYM", "lemur", 1),
                Edge("animal", "HYPONYM", "lemur", 42),
                Edge("cat", "HYPERNYM", "animal", 4200) >>

CyclicEdges == MockEdges \o << Edge("lemur", "HYPONYM", "potto", 1),
                               Edge("lemur", "HYPERNYM", "animal", 1),
                               Edge("animal", "HYPONYM", "cat", 1) >>

DeterminerEdges == << Edge("all", "QUANTUP", "some", 1), Edge("some", "QUANTNEGATE", "no", 1),
                       Edge("no", "QUANTNEGATE", "some", 1),
                       Edge("every", "QUANTREWORD", "all", 1) >>

LexicalEdges == << Edge("cat", "HYPERNYM", "animal", 1), Edge("animal", "HYPONYM", "cat", 1),
                   Edge("own", "SYNONYM", "have", 1), Edge("have", "SYNONYM", "own", 1),
                   Edge("lemur", "ANTONYM", "cat", 1) >>

AllEdges == DeterminerEdges \o LexicalEdges

-------------------------------------------------------------------------------
(* Calls, with the strict and the soft costs of natural logic.             *)
Call(t, truth, facts, edges, maxTicks) ==
  [tree |-> t, truth |-> truth, kb |-> {Hash(f) : f \in facts}, graph |-> Graph(edges),
   insertion |-> InsertionOf, marking |-> MarkingOf,
   small |-> 1, ok |-> 0, fishy |-> Infinity, bad |-> Infinity,
   maxTicks |-> maxTicks, checkFringe |-> TRUE]

Soft(call) == [call EXCEPT !.ok = 5, !.fishy = 15, !.bad = 100]

NoFringeCheck(call) == [call EXCEPT !.checkFringe = FALSE]

(* Calls that time out, with many ties in the fringe.                      *)
TimedOut == <<
  Call(QuantHave("all", "op", AllMark, "cat"), TRUE,
       {QuantHave("all", "op", AllMark, "animal")}, AllEdges, 8),
  NoFringeCheck(Call(QuantHave("no", "op", NoMark, "cat"), FALSE,
                     {QuantHave("some", "op", SomeMark, "cat")}, AllEdges, 8)),
  Call(QuantHave("some", "op", SomeMark, "animal"), TRUE,
       {QuantHave("all", "op", AllMark, "cat")}, AllEdges, 8),
  Call(QuantHave("every", "det", AllMark, "cat"), TRUE,
       {QuantHave("every", "det", AllMark, "animal")}, AllEdges, 8),
  Call(QuantFurryHave("all", AllMark), TRUE,
       {QuantHave("all", "op", AllMark, "cat")}, AllEdges, 8),
  Call(TwoQuantifiers, TRUE, {}, AllEdges, 8) >>

(* Calls that run until the fringe is empty.                               *)
RunDry == <<
  Call(Have("animal"), TRUE, {Have("lemur")}, CyclicEdges, 60),
  Call(Have("lemur"), FALSE, {Have("lemur")}, CyclicEdges, 60),
  Call(QuantRun("all", AllMark, "cat"), TRUE, {QuantRun("all", AllMark, "animal")},
    << Edge("every", "QUANTREWORD", "all", 2), Edge("animal", "HYPONYM", "cat", 4),
       Edge("cat", "HYPERNYM", "animal", 5) >>, 60),
  Call(QuantRun("some", SomeMark, "animal"), TRUE, {QuantRun("all", AllMark, "cat")},
    << Edge("all", "QUANTUP", "some", 3), Edge("animal", "HYPONYM", "cat", 4),
       Edge("cat", "HYPERNYM", "animal", 5) >>, 60),
  Call(QuantFurryHave("all", AllMark), TRUE, {QuantHave("all", "op", AllMark, "cat")},
    << Edge("animal", "HYPONYM", "cat", 4) >>, 60),
  Call(QuantRun("no", NoMark, "cat"), FALSE, {QuantRun("some", SomeMark, "cat")},
    << Edge("some", "QUANTNEGATE", "no", 8), Edge("animal", "HYPONYM", "cat", 4) >>, 60),
  Call([Have("cat") EXCEPT !.sense[0] = 1, !.locations = {2}], TRUE, {Have("potto")},
    << [Edge("potto", "HYPERNYM", "cat", 2) EXCEPT !.sourceSense = 1, !.sinkSense = 1],
       [Edge("lemur", "HYPERNYM", "cat", 3) EXCEPT !.sourceSense = 1, !.sinkSense = 2],
       Edge("furry", "HOLONYM", "tail", 4), Edge("furry", "HOLONYM", "cat", 5) >>, 60),
  Call(Have("animal"), FALSE, {Have("lemur")},
    << Edge("lemur", "ANTONYM", "animal", 2), Edge("animal", "SYNONYM", "lemur", 3) >>, 60),
  Call(HaveFurry("cat"), FALSE, {}, << Edge("potto", "SYNONYM", "cat", 2) >>, 60),
  Call(Complement(QuantHave("not all", "op", NotAllMark, "cat")), FALSE,
    {Complement([QuantHave("not all", "op", NotAllMark, "cat") EXCEPT !.word[3] = "potto"])},
    << Edge("potto", "ANTONYM", "tail", 2), Edge("furry", "SYNONYM", "tail", 4) >>, 60) >>

(* Sentences of two words in a graph with cycles, under small limits that  *)
(* the edges, the fringe and the ticks outgrow.                            *)
Runs(subject) == Sentence(<<subject, "have">>, <<1, R>>, <<"nsubj", "root">>, <<>>)

LimitQueries == {
  Call(Runs("animal"), TRUE, {Runs("lemur")}, CyclicEdges, 30),
  Call(Runs("potto"), FALSE, {Runs("animal")}, CyclicEdges, 30),
  Soft(Call(Runs("lemur"), TRUE, {}, CyclicEdges, 12)),
  NoFringeCheck(Call(Runs("lemur"), TRUE, {Runs("cat")}, CyclicEdges, 5)),
  Call(Runs("animal"), TRUE, {Runs("lemur")}, CyclicEdges \o AllEdges, 4),
  Soft(Call(Runs("animal"), TRUE, {Runs("lemur")}, CyclicEdges \o AllEdges, 6)),
  Soft(Call(Runs("cat"), FALSE, {Runs("potto")}, CyclicEdges \o AllEdges, 12)),
  Call(Runs("cat"), TRUE, {}, MockEdges, 40) }

(* The calls of SynSearchTest.                                             *)
TestQueries == <<
  Soft(Call(Have("cat"), TRUE, {Have("cat")}, MockEdges, 1000)),
  Soft(Call(Have("lemur"), TRUE, {Have("cat")}, MockEdges, 1000)),
  Soft(Call(Have("lemur"), TRUE, {Have("cat")}, CyclicEdges, 1000)),
  Call(Have("lemur"), TRUE, {Have("cat")}, MockEdges, 1000),
  Soft(Call(Have("animal"), TRUE, {Have("lemur")}, CyclicEdges, 1000)),
  Call(Have("animal"), TRUE, {Have("lemur")}, CyclicEdges, 1000),
  Call(Have("animal"), TRUE, {}, CyclicEdges, 1000) >>

(* What SynSearchTest expects of them: the ticks, where it asks for them,  *)
(* and the length of the path found, 0 if none, where it asks for that.    *)
ExpectedTicks      == << {8}, {11}, {11}, Nat, Nat, Nat, Nat >>
ExpectedFullTicks  == << {7}, {10}, {10}, Nat, Nat, Nat, Nat >>
ExpectedPathLength == << Nat \ {0}, {5}, Nat, {0}, Nat \ {0}, Nat \ {0}, {0} >>

(* Every run of a call of SynSearchTest, whichever element of least cost   *)
(* the heap returns, ends with the ticks and the paths the test asserts.   *)
TestExpectations ==
  pc = "done" =>
    \A test \in DOMAIN TestQueries : query = TestQueries[test] =>
      /\ totalTicks \in (IF SEARCH_FULL_MEMORY THEN ExpectedFullTicks ELSE ExpectedTicks)[test]
      /\ Len(paths) <= 1
      /\ (IF paths = <<>> THEN 0 ELSE Len(paths[1].nodeSequence)) \in ExpectedPathLength[test]

SearchQueries == Range(TestQueries \o TimedOut \o RunDry)

FullMemoryQueries == Range(TestQueries \o RunDry) \cup {
  Call(Have("lemur"), TRUE, {Have("potto")}, CyclicEdges, 60),
  Soft(Call(Have("potto"), TRUE, {Have("cat")}, CyclicEdges, 60)) }

-------------------------------------------------------------------------------
(* The call that bears out what is said of the documentation.              *)
(* "cats have tails": have is mutated, then cat.                           *)
MutateTwice == { Call(Have("cat"), TRUE, {},
  << Edge("own", "SYNONYM", "have", 1), Edge("potto", "HYPERNYM", "cat", 1) >>, 8) }
===============================================================================
