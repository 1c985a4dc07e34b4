--------------------------------- MODULE Conll ---------------------------------
(***************************************************************************)
(* Tree::Tree of SynSearch.cc: a tree is read from the lines of a CoNLL    *)
(* response, and the quantifiers in scope of every token are cached.  What *)
(* is built is a tree of DepTree, and the cache answers what DepTree       *)
(* defines by the spans.                                                   *)
(*                                                                         *)
(* A line is a record                                                      *)
(*   columns              how many fields it has; an empty line has none   *)
(*   word, governor,      the first five fields: the governor counts from  *)
(*   relation, sense        1, or is 0; the tag of the fifth is left out   *)
(*   subjMono, subjSpan   the sixth and seventh: the name of a marker, or  *)
(*                          "-"; a span <<begin, end>>, counted from 1, or *)
(*                          <<>> for "-"                                   *)
(*   objMono, objSpan     the same of the object                           *)
(*   flags                a set of letters                                 *)
(***************************************************************************)
EXTENDS DepTree

CONSTANTS Responses,             \* the responses that may be read
          Unwritten,             \* what a variable holds that was never written
          MAX_QUERY_LENGTH,      \* the tokens a tree has room for
          MAX_QUANTIFIER_COUNT,  \* and the quantifiers
          SPAN_BITS              \* the width of the ends of a span

SpanEnds == 2 ^ SPAN_BITS

ASSUME ConllAssumption ==
  /\ MAX_QUERY_LENGTH \in Nat \ {0} /\ MAX_QUANTIFIER_COUNT \in Nat \ {0}
  /\ SpanEnds \in Nat \ {0}

(* Columns and tokens are counted from 1.                                  *)
ASSUME ResponsesAssumption ==
  \A response \in Responses :
    /\ response \in Seq(Range(response))
    /\ \A line \in Range(response) :
         /\ line.columns \in Nat
         /\ {line.subjSpan, line.objSpan} \subseteq {<<>>} \cup (Nat \ {0}) \X (Nat \ {0})

VARIABLES lines,    \* the lines, of which lineI have been read
          lineI,
          tokens,   \* the tree under construction; tokens: its data so far
          quantifiers, locations,
          local,    \* subjMono, subjType, objMono, objType and span
          scopes,   \* quantifiersInScope, and the byte behind it
          parsing   \* "lines", "scopes", "done", or "undefined"
conllVars == <<lines, lineI, tokens, quantifiers, locations, local, scopes, parsing>>

Slots == 0 .. MAX_QUERY_LENGTH * MAX_QUANTIFIER_COUNT

ConllInit ==
  /\ lines \in Responses
  /\ lineI = 0 /\ tokens = <<>> /\ quantifiers = <<>> /\ locations = {}
  /\ local = [subj |-> Unwritten, obj |-> Unwritten,
              subjSpan |-> Unwritten, objSpan |-> Unwritten]
  /\ scopes = [k \in Slots |-> MAX_QUANTIFIER_COUNT]
  /\ parsing = "lines"

-------------------------------------------------------------------------------
(* Fields                                                                  *)
Markers == {"monotone", "additive", "multiplicative", "additive-multiplicative", "antitone",
            "anti-additive", "anti-multiplicative", "anti-additive-multiplicative",
            "nonmonotone"}

Marking(mono, type) == [mono |-> mono, type |-> type]

(* stringToMonotonicity, of a marker it knows.                             *)
MarkerOf(field) ==
  CASE field = "monotone"                     -> Marking("UP", "NONE")
    [] field = "additive"                     -> Marking("UP", "ADDITIVE")
    [] field = "multiplicative"               -> Marking("UP", "MULTIPLICATIVE")
    [] field = "additive-multiplicative"      -> Marking("UP", "BOTH")
    [] field = "antitone"                     -> Marking("DOWN", "NONE")
    [] field = "anti-additive"                -> Marking("DOWN", "ADDITIVE")
    [] field = "anti-multiplicative"          -> Marking("DOWN", "MULTIPLICATIVE")
    [] field = "anti-additive-multiplicative" -> Marking("DOWN", "BOTH")
    [] field = "nonmonotone"                  -> Marking("FLAT", "NONE")

(* One it does not know leaves the variables as they are.                  *)
StringToMonotonicity(field, old) == IF field \in Markers THEN MarkerOf(field) ELSE old

(* stringToSpan, into the bit fields of a quantifier_span.                 *)
StringToSpan(span) == <<(span[1] - 1) % SpanEnds, (span[2] - 1) % SpanEnds>>

GovernorOf(field) == IF field = 0 THEN TREE_ROOT ELSE field - 1

Has(line, column) == line.columns >= column

TokenOf(line) ==
  [word |-> line.word,
   governor |-> IF Has(line, 2) THEN GovernorOf(line.governor) ELSE Unwritten,
   relation |-> IF Has(line, 3) THEN line.relation ELSE Unwritten,
   sense |-> IF Has(line, 4) THEN line.sense ELSE 0]

DeclaresQuantifier(line) == Has(line, 6) /\ line.subjMono # "-"

SubjectMarking(line) ==
  IF DeclaresQuantifier(line) THEN StringToMonotonicity(line.subjMono, local.subj)
                              ELSE local.subj

SubjectSpan(line) ==
  IF Has(line, 7) /\ line.subjSpan # <<>> THEN StringToSpan(line.subjSpan) ELSE local.subjSpan

ObjectMarking(line) ==
  IF ~Has(line, 8) THEN local.obj
  ELSE IF line.objMono = "-" THEN Marking("FLAT", "NONE")
  ELSE StringToMonotonicity(line.objMono, local.obj)

(* Mutant: a line without an object keeps the span of the line before.     *)
ObjectSpanKept(line) ==
  IF Has(line, 9) /\ line.objSpan # <<>> THEN StringToSpan(line.objSpan)
  ELSE IF local.objSpan = Unwritten THEN <<0, 0>> ELSE local.objSpan

ObjectSpan(line) ==
  IF ~Has(line, 9) THEN local.objSpan
  ELSE IF line.objSpan = <<>> THEN <<0, 0>>
  ELSE StringToSpan(line.objSpan)

(* The variables of the constructor, which outlive a line.                 *)
ReadFields(line) ==
  [subj |-> SubjectMarking(line), subjSpan |-> SubjectSpan(line),
   obj |-> ObjectMarking(line), objSpan |-> ObjectSpan(line)]

QuantifierAt(token, l) ==
  [token |-> token, subj |-> l.subjSpan, obj |-> l.objSpan,
   mono |-> [subjMono |-> l.subj.mono, subjType |-> l.subj.type,
             objMono |-> l.obj.mono, objType |-> l.obj.type]]

(* A quantifier registered with what was never written into the variables. *)
Unregistrable(l) == Unwritten \in {l.subj, l.subjSpan}

(* registerQuantifier, at the ninth field.                                 *)
RegisterQuantifier(line, token, l) ==
  quantifiers' =
    IF Has(line, 9) /\ DeclaresQuantifier(line) /\ Len(quantifiers) < MAX_QUANTIFIER_COUNT
    THEN Append(quantifiers, QuantifierAt(token, l))
    ELSE quantifiers

-------------------------------------------------------------------------------
SkipLine ==
  /\ parsing = "lines" /\ lineI < Len(lines) /\ ~Has(lines[lineI + 1], 1)
  /\ lineI' = lineI + 1
  /\ UNCHANGED <<lines, tokens, quantifiers, locations, local, scopes, parsing>>

(* A tree with more lines than it has room for is written over what is     *)
(* behind its data; variables never written are of no value.               *)
Undefined(line) ==
  \/ Len(tokens) = MAX_QUERY_LENGTH
  \/ Has(line, 9) /\ DeclaresQuantifier(line) /\ Unregistrable(ReadFields(line))

ReadToken(line) ==
  /\ tokens' = Append(tokens, TokenOf(line))
  /\ local' = ReadFields(line)
  /\ RegisterQuantifier(line, Len(tokens), ReadFields(line))
  /\ locations' = IF Has(line, 10) /\ line.flags \cap {"l", "L"} # {}
                  THEN locations \cup {Len(tokens)} ELSE locations

ReadConllLine ==
  /\ parsing = "lines" /\ lineI < Len(lines) /\ Has(lines[lineI + 1], 1)
  /\ ~Undefined(lines[lineI + 1])
  /\ ReadToken(lines[lineI + 1])
  /\ lineI' = lineI + 1
  /\ UNCHANGED <<lines, scopes, parsing>>

Overrun ==
  /\ parsing = "lines" /\ lineI < Len(lines) /\ Has(lines[lineI + 1], 1)
  /\ Undefined(lines[lineI + 1])
  /\ parsing' = "undefined"
  /\ UNCHANGED <<lines, lineI, tokens, quantifiers, locations, local, scopes>>

(* From here on lineI counts the tokens that have their scopes.            *)
EndOfLines ==
  /\ parsing = "lines" /\ lineI = Len(lines)
  /\ parsing' = "scopes" /\ lineI' = 0
  /\ UNCHANGED <<lines, tokens, quantifiers, locations, local, scopes>>

The(field) == [i \in 0 .. Len(tokens) - 1 |-> tokens[i + 1][field]]

(* The tree as the rest of the program sees it.                            *)
Parsed ==
  [word |-> The("word"), sense |-> The("sense"), governor |-> The("governor"),
   relation |-> The("relation"), quantifiers |-> quantifiers, locations |-> locations]

(* Mutant: the quantifiers are listed in the order of their lines.         *)
InOrderOfLines(t, i, S) == SetToSortSeq(S, <)

(* The quantifier nearest to an end of its span, the first of them.        *)
Nearest(t, i, S) ==
  CHOOSE q \in S : \A p \in S \ {q} :
    \/ ScopeDistance(t, q, i) < ScopeDistance(t, p, i)
    \/ ScopeDistance(t, q, i) = ScopeDistance(t, p, i) /\ q < p

(* Those of a set, each time the nearest of those left.                    *)
NearestFirst(t, i, S) ==
  LET left[k \in 0 .. Cardinality(S)] ==
        IF k = 0 THEN S ELSE left[k - 1] \ {Nearest(t, i, left[k - 1])}
  IN  [k \in 1 .. Cardinality(S) |-> Nearest(t, i, left[k - 1])]

(* The list of token i, and the mark that ends it, which may be written    *)
(* where the next list begins.                                             *)
WriteScope(i, order) ==
  [k \in Slots |->
     IF k = MAX_QUANTIFIER_COUNT * i + Len(order) THEN MAX_QUANTIFIER_COUNT
     ELSE IF k \in MAX_QUANTIFIER_COUNT * i .. MAX_QUANTIFIER_COUNT * i + Len(order) - 1
     THEN order[k - MAX_QUANTIFIER_COUNT * i + 1] - 1 ELSE scopes[k]]

PopulateQuantifiersInScope ==
  /\ parsing = "scopes" /\ lineI < MAX_QUERY_LENGTH
  /\ scopes' = WriteScope(lineI, NearestFirst(Parsed, lineI, InScope(Parsed, lineI)))
  /\ lineI' = lineI + 1
  /\ UNCHANGED <<lines, tokens, quantifiers, locations, local, parsing>>

Built ==
  /\ parsing = "scopes" /\ lineI = MAX_QUERY_LENGTH
  /\ parsing' = "done"
  /\ UNCHANGED <<lines, lineI, tokens, quantifiers, locations, local, scopes>>

ConllNext ==
  SkipLine \/ ReadConllLine \/ Overrun \/ EndOfLines \/ PopulateQuantifiersInScope \/ Built

ConllSpec == ConllInit /\ [][ConllNext]_conllVars

(* Tree::foreachQuantifier: the quantifiers it visits, in order.           *)
ForeachQuantifier(i) ==
  LET list == [k \in 1 .. MAX_QUANTIFIER_COUNT |-> scopes[MAX_QUANTIFIER_COUNT * i + k - 1]]
      mark == {k \in DOMAIN list : list[k] >= MAX_QUANTIFIER_COUNT}
  IN  [k \in 1 .. (IF mark = {} THEN MAX_QUANTIFIER_COUNT ELSE Min(mark) - 1) |-> list[k] + 1]

-------------------------------------------------------------------------------
(* Properties                                                              *)

(* What the lines declare, each of itself.                                 *)
Ascending(S) ==
  [k \in 1 .. Cardinality(S) |-> CHOOSE n \in S : Cardinality({m \in S : m <= n}) = k]

TokenLines(ls) ==
  LET all == Ascending({n \in DOMAIN ls : Has(ls[n], 1)})
  IN  [k \in DOMAIN all |-> ls[all[k]]]

ZeroBasedSpan(span) == IF span = <<>> THEN <<0, 0>> ELSE <<span[1] - 1, span[2] - 1>>

DeclaredAt(k, line) ==
  QuantifierAt(k - 1, [subj |-> MarkerOf(line.subjMono), subjSpan |-> ZeroBasedSpan(line.subjSpan),
                       obj |-> MarkerOf(IF line.objMono = "-" THEN "nonmonotone" ELSE line.objMono),
                       objSpan |-> ZeroBasedSpan(line.objSpan)])

DeclaredQuantifiers(ls) ==
  LET own == TokenLines(ls)
      all == Ascending({k \in DOMAIN own : Has(own[k], 9) /\ DeclaresQuantifier(own[k])})
  IN  [n \in {m \in DOMAIN all : m <= MAX_QUANTIFIER_COUNT} |-> DeclaredAt(all[n], own[all[n]])]

DeclaredTokens(ls) == [k \in DOMAIN TokenLines(ls) |-> TokenOf(TokenLines(ls)[k])]

DeclaredLocations(ls) ==
  LET own == TokenLines(ls)
  IN  {k - 1 : k \in {j \in DOMAIN own : Has(own[j], 10) /\ own[j].flags \cap {"l", "L"} # {}}}

(* Lines of the documented form, and spans that the bit fields hold.       *)
WellFormed(line) ==
  /\ line.columns \in {0, 3, 4, 5, 9, 10}
  /\ Has(line, 9) /\ DeclaresQuantifier(line) =>
       /\ line.subjMono \in Markers /\ line.subjSpan # <<>>
       /\ line.objMono \in Markers \cup {"-"}

Narrow(line) ==
  Has(line, 9) => \A span \in {line.subjSpan, line.objSpan} : \A n \in Range(span) : n <= SpanEnds

(* A tree has a token and at most a quantifier for each line, made of what *)
(* that line says and nothing that an earlier line left in the variables   *)
(* of the constructor; quantifiers without room are left out, the last     *)
(* ones first.                                                             *)
TreeRight ==
  parsing = "done" /\ (\A l \in Range(lines) : WellFormed(l) /\ Narrow(l)) =>
    /\ quantifiers = DeclaredQuantifiers(lines)
    /\ tokens = DeclaredTokens(lines)
    /\ locations = DeclaredLocations(lines)

(* For every token the cache lists the quantifiers it is in a span of, as  *)
(* the lines declare them, nearest first, though each list may end in the  *)
(* place of the next: projection meets them in the order of their scopes.  *)
ScopeAsDeclared(i, visited, declared) ==
  /\ IsInjective(visited) /\ Range(visited) = InScope(declared, i)
  /\ \A k \in DOMAIN visited : visited[k] = Outermost(declared, i, Range(SubSeq(visited, 1, k)))

ScopesAsDeclared ==
  \A i \in 0 .. Len(tokens) - 1 :
    ScopeAsDeclared(i, ForeachQuantifier(i), [quantifiers |-> DeclaredQuantifiers(lines)])

ScopesRight ==
  parsing = "done" /\ (\A l \in Range(lines) : WellFormed(l) /\ Narrow(l)) => ScopesAsDeclared

(* "The maximum length of an input query fact. Must match SynSearch.h      *)
(* lengths.": so do the scopes of a sentence that is not longer.           *)
ScopesRightAtAnyLength ==
  parsing = "done" /\ (\A l \in Range(lines) : WellFormed(l)) => ScopesAsDeclared
===============================================================================
