------------------------------ MODULE MCFrontEnd ------------------------------
(***************************************************************************)
(* Small instances of FrontEnd.                                            *)
(***************************************************************************)
EXTENDS FrontEnd

CONSTANTS a, b, c,   \* sentences that can be read in either mode
          big,       \* a sentence whose trees are too long
          none       \* the empty text

Pipeline(trees) == [P |-> [trees |-> trees, fails |-> FALSE, short |-> FALSE],
                    Q |-> [trees |-> <<Head(trees)>>, fails |-> FALSE, short |-> FALSE]]
MCSentences ==
  [t \in {a, b, c, big, none} |->
     CASE t = a -> Pipeline(<<2, 1>>)
       [] t \in {b, c} -> Pipeline(<<2>>)
       [] OTHER -> Pipeline(<<MAX_FACT_LENGTH>>)]

Line(kind, label, text) ==
  [kind |-> kind, label |-> label, text |-> text, long |-> FALSE,
   field |-> "costs", value |-> "intermediate"]
Blank        == Line("blank", "NONE", none)
Text(t)      == Line("text", "NONE", t)
Labelled(l, t) == Line("text", l, t)
Comment(t)   == Line("comment", "NONE", t)
Long(t)      == [Text(t) EXCEPT !.long = TRUE]
Set(field, value) == [Line("directive", "NONE", none) EXCEPT !.field = field, !.value = value]

Session(frontEnd, ending, lines) ==
  [frontEnd |-> frontEnd, ending |-> ending, lines |-> lines]

(* An example of each label, directives that take effect at once, and the  *)
(* ends an input can have: with and without a blank line.                  *)
Inputs ==
  { <<Comment(c), Text(a), Labelled("TRUE", b), Blank, Blank, Labelled("UNK", c)>>,
    <<Text(a), Labelled("FALSE", b), Blank, Set("costs", "soft"), Labelled("TRUE", c), Blank>>,
    <<Set("skipNegationSearch", TRUE), Text(a), Text(b), Comment(a), Labelled("UNK", c)>>,
    <<Text(a), Labelled("FALSE", big), Blank, Set("costs", "strict"), Labelled("FALSE", c)>> }

(* Input that does not fit: a line or a tree too long, more lines than a   *)
(* connection takes, a premise that cannot be read, a label with nothing   *)
(* behind it.                                                              *)
Misfits ==
  { <<Text(a), Long(b), Text(c), Blank, Text(c)>>,
    <<Text(a), Text(b), Long(c), Blank, Text(c)>>,
    <<Text(a), Text(b), Text(c), Labelled("TRUE", a), Blank>>,
    <<Text(big), Labelled("TRUE", b), Blank, Text(c)>>,
    <<Text(a), Labelled("TRUE", none), Blank, Text(c)>> }

MCSessions ==
  { Session(f, "eof", i) : f \in {"repl", "trees", "connection"}, i \in Inputs \cup Misfits }
    \cup { Session("connection", "reset", <<Text(a), Text(b)>>) }

MCResults == { {}, {0}, {1, 7}, {3}, {5}, {8} }
===============================================================================
