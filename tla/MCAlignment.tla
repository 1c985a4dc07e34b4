------------------------------ MODULE MCAlignment ------------------------------
(***************************************************************************)
(* Small instances of Alignment: the sentences of TreeTest (TestSynSearch  *)
(* .cc 15-67) and others, in pairs.                                        *)
(***************************************************************************)
EXTENDS Alignment

(* Words are numbers: those of the sentences, with be and of.              *)
Vocabulary == <<"be", "of", "all", "cat", "have", "tail", "furry", "fuzzy",
                "plasma", "conductor", "electricity", "nail", "conduct", "dog">>

Word(name) == SelectInSeq(Vocabulary, LAMBDA v : v = name)

MCBe == Word("be")
MCOf == Word("of")

MCSamePrefix == {{Word("conductor"), Word("conduct")}}

AllMarks  == [subjMono |-> "DOWN", subjType |-> "ADDITIVE", objMono |-> "UP", objType |-> "MULTIPLICATIVE"]
SomeMarks == [subjMono |-> "UP", subjType |-> "ADDITIVE", objMono |-> "UP", objType |-> "ADDITIVE"]
NoMarks   == [subjMono |-> "DOWN", subjType |-> "ADDITIVE", objMono |-> "DOWN", objType |-> "ADDITIVE"]

MCNewWords == {Word("cat"), Word("furry"), Word("dog")}
MCNewMarks == {SomeMarks, NoMarks}

ZeroBased(s) == [i \in 0 .. Len(s) - 1 |-> s[i + 1]]

(* A sentence: its words with their tags, its governors, its quantifiers.  *)
Sentence(tokens, governors, quantifiers) ==
  [word |-> ZeroBased([i \in DOMAIN tokens |-> Word(tokens[i][1])]),
   posTag |-> ZeroBased([i \in DOMAIN tokens |-> tokens[i][2]]),
   governor |-> ZeroBased(governors), quantifiers |-> quantifiers]

R == TREE_ROOT

Every(subject, object) == << [token |-> 0, subj |-> subject, obj |-> object, mono |-> AllMarks] >>

ALL_CATS_HAVE_TAILS ==
  Sentence(<< <<"all", "q">>, <<"cat", "n">>, <<"have", "v">>, <<"tail", "n">> >>,
           <<1, 2, R, 2>>, Every(<<1, 2>>, <<2, 4>>))

AllHaveTails(adjective) ==
  Sentence(<< <<"all", "q">>, <<adjective, "j">>, <<"cat", "n">>, <<"have", "v">>, <<"tail", "n">> >>,
           <<2, 2, 3, R, 3>>, Every(<<1, 3>>, <<3, 5>>))

ALL_FURRY_CATS_HAVE_TAILS == AllHaveTails("furry")
ALL_FUZZY_CATS_HAVE_TAILS == AllHaveTails("fuzzy")

ALL_CATS_OF_FURRY_HAVE_TAILS ==
  Sentence(<< <<"all", "q">>, <<"cat", "n">>, <<"of", "i">>, <<"furry", "n">>, <<"have", "v">>, <<"tail", "n">> >>,
           <<1, 4, 3, 1, R, 4>>, Every(<<1, 4>>, <<4, 6>>))

CAT_BE_FURRY ==
  Sentence(<< <<"cat", "n">>, <<"be", "v">>, <<"furry", "n">> >>, <<1, R, 1>>, <<>>)

PLASMA_BE_CONDUCTOR_OF_ELECTRICITY ==
  Sentence(<< <<"plasma", "n">>, <<"be", "v">>, <<"conductor", "n">>, <<"of", "i">>, <<"electricity", "n">> >>,
           <<2, 2, R, 4, 2>>, <<>>)

NAIL_CONDUCT_ELECTRICITY ==
  Sentence(<< <<"nail", "n">>, <<"conduct", "v">>, <<"electricity", "n">> >>, <<1, R, 1>>, <<>>)

(* The tests' pairs, hypothesis first, and the targets they expect, none   *)
(* being 0.                                                                *)
Test(hypothesis, premise, expected) ==
  [hypothesis |-> hypothesis, premise |-> premise, expected |-> expected]

Tests == {
  Test(ALL_CATS_HAVE_TAILS, ALL_CATS_HAVE_TAILS, <<"", "cat", "have", "tail">>),
  Test(CAT_BE_FURRY, CAT_BE_FURRY, <<"cat", "", "furry">>),
  Test(ALL_FUZZY_CATS_HAVE_TAILS, ALL_FURRY_CATS_HAVE_TAILS, <<"", "furry", "cat", "have", "tail">>),
  Test(ALL_FUZZY_CATS_HAVE_TAILS, ALL_CATS_OF_FURRY_HAVE_TAILS, <<"", "furry", "cat", "have", "tail">>),
  Test(ALL_CATS_OF_FURRY_HAVE_TAILS, ALL_FUZZY_CATS_HAVE_TAILS,
       <<"", "cat", "", "fuzzy", "have", "tail">>),
  Test(NAIL_CONDUCT_ELECTRICITY, PLASMA_BE_CONDUCTOR_OF_ELECTRICITY,
       <<"plasma", "conductor", "electricity">>) }

(* Sentences of up to three words of a few.                                *)
Bits == { <<"cat", "n">>, <<"cat", "v">>, <<"dog", "n">>, <<"be", "v">>, <<"of", "i">> }

Flat(tokens) == Sentence(tokens, [i \in DOMAIN tokens |-> IF i = 1 THEN R ELSE 0], <<>>)

Short == {Flat(s) : s \in UNION {[1 .. n -> Bits] : n \in 1 .. 2}}
         \cup {Flat(s) : s \in {t \in [1 .. 3 -> Bits] : t[1] = <<"cat", "n">> /\ t[2] \in {<<"of", "i">>, <<"dog", "n">>}}}

(* Longer ones, with "of" in every place where a pass looks for it.        *)
Phrase(names) ==
  Flat([i \in DOMAIN names |-> <<names[i], IF names[i] = "of" THEN "i" ELSE IF names[i] = "be" THEN "v" ELSE "n">>])

Long == {t.hypothesis : t \in Tests} \cup {t.premise : t \in Tests} \cup {
  Phrase(<<"cat", "of", "dog", "tail">>), Phrase(<<"cat", "of", "fuzzy", "have", "nail">>),
  Phrase(<<"furry", "of", "cat">>), Phrase(<<"fuzzy", "of", "cat", "tail">>),
  Phrase(<<"fuzzy", "cat">>), Phrase(<<"of", "furry", "tail", "dog">>),
  Phrase(<<"be", "of", "furry", "of", "dog", "cat">>), Phrase(<<"nail", "cat", "cat", "dog">>),
  Phrase(<<"cat", "of", "nail", "plasma", "electricity">>),
  Phrase(<<"dog", "cat", "fuzzy", "be", "tail">>) }

Searched == {<<t.hypothesis, t.premise>> : t \in Tests}
            \cup {<<ALL_FURRY_CATS_HAVE_TAILS, ALL_CATS_HAVE_TAILS>>, <<ALL_FURRY_CATS_HAVE_TAILS, CAT_BE_FURRY>>}

MCPairs == {[hypothesis |-> s[1], premise |-> s[2], steps |-> IF s \in Searched THEN 2 ELSE 0] :
              s \in (Short \X Short) \cup (Long \X Long)}

TargetAt(i) ==
  LET mine == {a.target : a \in {b \in Range(found.alignments) : b.index = i}}
  IN  IF mine = {} THEN 0 ELSE CHOOSE w \in mine : TRUE

(* The tests' expectations (TestSynSearch.cc 899-975).                     *)
AlignsAsTested ==
  Aligned => \A t \in Tests : t.hypothesis = hyp /\ t.premise = prem =>
    \A i \in Tokens(hyp) : TargetAt(i) = Word(t.expected[i + 1])

(* The pairs of the tests, with nothing searched.                          *)
TestedPairs == {[hypothesis |-> s[1], premise |-> s[2], steps |-> 0] : s \in Long \X Long}
===============================================================================
