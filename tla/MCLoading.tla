------------------------------- MODULE MCLoading -------------------------------
(***************************************************************************)
(* Small instances of what a search is given: the files of the graph, cut  *)
(* in every way, the responses of the annotator, the input of a knowledge  *)
(* base, and the alignments of a query to its premises (MCAlignment).      *)
(***************************************************************************)
EXTENDS Graph, Conll, KnowledgeBase, MCAlignment

CONSTANTS Pad   \* what follows the first character of a row

VARIABLES part   \* what is read

Edge(source, sourceSense, sink, sinkSense, type, cost) ==
  [columns |-> 6, source |-> source, source_sense |-> sourceSense, sink |-> sink,
   sink_sense |-> sinkSense, type |-> type, cost |-> cost]

Deletion(w, sense) == [word |-> w, sense |-> sense]

(* The rows, and the length of their lines: the longest but the last fill  *)
(* the buffer but for the end of the string.                               *)
Rows == <<
  <<[index |-> 0], 3>>, <<[index |-> 2], 2>>, <<[index |-> 1], 3>>,
  <<Edge(0, 0, 1, 1, "SYNONYM", 4), 3>>, <<Edge(2, 0, 1, 0, "ANTONYM", 7), 2>>,
  <<Edge(0, 1, 1, 0, "QUANTNEGATE", 2), 3>>, <<Edge(2, 1, 1, 1, "HYPONYM", 1), 3>>,
  <<Edge(1, 0, 1, 0, "NN", 1), 2>>, <<Edge(1, 1, 2, 0, "HYPERNYM", 3), 2>>,
  <<Edge(0, 0, 1, 0, "MERONYM", 1), 2>>,
  <<Edge(0, 0, 3, 0, "NN", 1), 2>>, <<Edge(0, 32, 1, 0, "NN", 1), 2>>,
  <<Edge(0, 0, 1, 0, "UNKNOWN", 1), 2>>, <<Edge(0, 0, 1, 0, "NN", -1), 2>>,
  <<[Edge(0, 0, 1, 0, "NN", 1) EXCEPT !.columns = 5], 2>>,
  <<Deletion(1, 0), 3>>, <<Deletion(0, 1), 2>>,
  <<[index |-> 3], 4>> >>

MCCharacters == DOMAIN Rows \cup {Pad, Newline, Garbage}

MCLines == [c \in DOMAIN Rows |->
  [row |-> Rows[c][1], text |-> <<c>> \o [i \in 1 .. Rows[c][2] - 1 |-> Pad]]]

(* What a file of these rows decompresses to, and where its lines end.     *)
Text(rows) == FlattenSeq([i \in DOMAIN rows |-> Append(MCLines[rows[i]].text, Newline)])

Ends(rows) == [k \in 0 .. Len(rows) |-> Len(Text(SubSeq(rows, 1, k)))]

File(rows, text, cuts, complete) ==
  [rows |-> rows, ends |-> Ends(rows), text |-> text, cuts |-> cuts, complete |-> complete]

Whole(rows) == File(rows, Text(rows), <<Len(Text(rows))>>, TRUE)

(* Every way to cut a text at most twice, the trailer perhaps in a block   *)
(* of its own, the last newline perhaps missing.                           *)
Cuts(text) == {cuts \in SUBSET (1 .. Len(text) - 1) : Cardinality(cuts) <= 2}

Divided(rows) ==
  UNION {{File(rows, t, SetToSortSeq(cuts \cup {Len(t)}, <) \o last, TRUE) :
            cuts \in Cuts(Front(Text(rows))), last \in {<<>>, <<Len(t)>>}} :
         t \in {Text(rows), Front(Text(rows))}}

(* Every way to break a file off.                                          *)
BrokenOff(rows) ==
  {File(<<>>, SubSeq(Text(rows), 1, n), <<n>>, FALSE) : n \in 0 .. Len(Text(rows))}

MCWords     == <<1, 2, 3>>
MCEdges     == <<4, 5, 6, 7, 8, 9, 10>>
MCDeletions == <<16, 17>>

ThreeFiles(words, edges, deletions) ==
  [words |-> words, edges |-> edges, deletions |-> deletions]

MCFiles ==
  {ThreeFiles(w, Whole(MCEdges), Whole(MCDeletions)) :
     w \in Divided(MCWords) \cup BrokenOff(MCWords) \cup {Whole(<<1, 18>>)}}
  \cup {ThreeFiles(Whole(MCWords), e, Whole(MCDeletions)) :
          e \in Divided(MCEdges) \cup BrokenOff(MCEdges)
                \cup {Whole(<<4, bad>>) : bad \in 11 .. 15} \cup {Whole(<<5, 4, 5>>)}}
  \cup {ThreeFiles(Whole(MCWords), Whole(MCEdges), d) :
          d \in Divided(MCDeletions) \cup BrokenOff(MCDeletions)
                \cup {File(<<>>, <<>>, <<0>>, TRUE)}}

-------------------------------------------------------------------------------
(* Responses                                                               *)
Line(columns, word, governor) ==
  [columns |-> columns, word |-> word, governor |-> governor, relation |-> "nsubj",
   sense |-> 2, subjMono |-> "-", subjSpan |-> <<>>, objMono |-> "-", objSpan |-> <<>>,
   flags |-> {}]

EmptyLine == Line(0, "none", 0)

Quantified(subjMono, subjSpan, objMono, objSpan) ==
  [Line(9, "all", 2) EXCEPT !.subjMono = subjMono, !.subjSpan = subjSpan,
                            !.objMono = objMono, !.objSpan = objSpan]

Plain == << Line(4, "cat", 3), Line(3, "have", 0), Line(5, "tail", 3),
            [Line(10, "here", 3) EXCEPT !.flags = {"l"}] >>

Replaced(k, line) == [Plain EXCEPT ![k] = line]

Spans == {<<m, n>> : m, n \in 1 .. 5}

(* Every pair of spans for one quantifier, many for two, one behind the    *)
(* other or at the end, with an object or without.                         *)
Single == {Replaced(1, Quantified("anti-additive", s, "multiplicative", o)) :
             s \in Spans, o \in Spans \cup {<<>>}}

Nested == {[Replaced(k, Quantified("additive", <<2, 4>>, "-", <<>>)) EXCEPT
              ![1] = Quantified("nonmonotone", s, "antitone", o)] :
             k \in {2, 4}, s \in Spans, o \in Spans}

EachMarker == {Replaced(3, Quantified(m, <<1, 3>>, m, <<4, 5>>)) : m \in Markers}

All == Quantified("anti-additive", <<1, 5>>, "multiplicative", <<5, 6>>)

(* Three quantifiers, blank lines, lines of other forms, and too many.     *)
Others == { <<All, All, All, Plain[4]>>, <<All, EmptyLine, Plain[2], EmptyLine, All, All, All>>,
            Plain, <<EmptyLine>>, Plain \o Plain, <<Line(1, "cat", 0), Line(2, "have", 0)>>,
            <<All, Quantified("every", <<1, 3>>, "every", <<4, 5>>)>>,
            <<Quantified("every", <<1, 3>>, "-", <<>>)>>,
            <<[All EXCEPT !.columns = 8], Quantified("additive", <<>>, "-", <<>>)>>,
            <<[All EXCEPT !.subjMono = "-"], Plain[1]>>,
            <<[Plain[4] EXCEPT !.flags = {"x"}], [Plain[4] EXCEPT !.flags = {"x", "L"}]>> }

MCResponses == Single \cup Nested \cup EachMarker \cup Others

(* A sentence of 36 words, the first of which is a quantifier.             *)
LongResponses ==
  { [i \in 1 .. 36 |-> IF i = 1 THEN Quantified("anti-additive", <<2, 30>>, "multiplicative", <<30, 37>>)
                       ELSE Plain[1]] }

-------------------------------------------------------------------------------
(* Corpora                                                                 *)
Hashed(h) == [hash |-> h, lines |-> 3, cut |-> FALSE]

MCTrees == {Hashed(1), Hashed(2), [Hashed(3) EXCEPT !.lines = MAX_FACT_LENGTH],
            [Hashed(4) EXCEPT !.lines = 1], [Hashed(5) EXCEPT !.cut = TRUE]}

MCCorpora == [trees : UNION {[1 .. n -> MCTrees] : n \in 0 .. 3}, blank : {TRUE}]
             \cup [trees : {[i \in 1 .. n |-> Hashed(i)] : n \in 1 .. 6}, blank : {TRUE, FALSE}]

-------------------------------------------------------------------------------
NoGraph == files = <<>> /\ reader = <<>> /\ loading = "none" /\ graph = EmptyGraph

NoResponse ==
  /\ lines = <<>> /\ lineI = 0 /\ tokens = <<>> /\ quantifiers = <<>> /\ locations = {}
  /\ local = Unwritten /\ scopes = <<>> /\ parsing = "none"

NoCorpus ==
  /\ corpus = <<>> /\ unread = <<>> /\ failed = FALSE /\ printed = <<>>
  /\ buffer = <<>> /\ file = <<>> /\ kb = {} /\ stage = "none"

NoPair == pair = <<>> /\ pass = 0 /\ found = <<>> /\ unaligned = 0 /\ node = <<>>

MCInit ==
  \/ part = "graph" /\ GraphInit /\ NoResponse /\ NoCorpus /\ NoPair
  \/ part = "tree" /\ ConllInit /\ NoGraph /\ NoCorpus /\ NoPair
  \/ part = "facts" /\ KBInit /\ NoGraph /\ NoResponse /\ NoPair
  \/ part = "alignment" /\ AlignInit /\ NoGraph /\ NoResponse /\ NoCorpus

MCNext ==
  \/ part = "graph" /\ GraphNext /\ UNCHANGED <<conllVars, kbVars, alignVars, part>>
  \/ part = "tree" /\ ConllNext /\ UNCHANGED <<graphVars, kbVars, alignVars, part>>
  \/ part = "facts" /\ KBNext /\ UNCHANGED <<graphVars, conllVars, alignVars, part>>
  \/ part = "alignment" /\ AlignNext /\ UNCHANGED <<graphVars, conllVars, kbVars, part>>

MCSpec == MCInit /\ [][MCNext]_<<graphVars, conllVars, kbVars, alignVars, part>>
===============================================================================
