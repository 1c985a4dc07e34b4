------------------------------- MODULE FrontEnd -------------------------------
(***************************************************************************)
(* The front ends of NaturalLIIO.cc: repl() with the annotator, repl()     *)
(* with trees, and handleConnection().  Each reads lines, cuts them into   *)
(* examples (some premises and a query), annotates the sentences, searches *)
(* twice and prints a verdict.                                             *)
(*                                                                         *)
(* A line is a record                                                      *)
(*   kind    "text", "comment" (#), "directive" (% and understood) or      *)
(*           "blank"; for repl() with trees, a text is a whole tree        *)
(*   label   "TRUE", "FALSE", "UNK" or "NONE": its prefix                  *)
(*   text    the sentence, or Empty                                        *)
(*   long    TRUE if it does not fit: beyond the line buffer of repl(), or *)
(*           a tree of MAX_FACT_LENGTH lines                               *)
(*   field, value  what a directive sets                                   *)
(*                                                                         *)
(* The annotator and the search are taken at their promises: Answer of     *)
(* module Annotator, and TruthSound of module SynSearch.                   *)
(***************************************************************************)
EXTENDS Integers, FiniteSets, SequencesExt

CONSTANTS
  Sessions,         \* records [frontEnd, lines, ending]
  Sentences,        \* text -> [P, Q]: what the pipeline makes of it by mode,
                    \* a record [trees, fails, short] of module Annotator
  Empty,            \* the text that has no characters
  MAX_FACT_LENGTH,  \* lines a tree must stay below, the blank one included
  MaxFacts,         \* lines a connection reads (256)
  Results,          \* what a search may return: sets of the costs of its paths
  WeakFrom,         \* from here on a confidence is below 0.02
  LostFrom,         \* from here on 0.5 + confidence is 0.5
  OverflowFrom      \* from here on exp(cost) is infinite, confidence is 0
ASSUME CostsAssumption ==
  /\ WeakFrom \in Nat \ {0} /\ LostFrom \in Nat /\ OverflowFrom \in Nat
  /\ WeakFrom <= LostFrom /\ LostFrom <= OverflowFrom
  /\ Results \subseteq SUBSET Nat /\ {} \in Results
ASSUME MaxFactsAssumption == MaxFacts \in Nat \ {0}
ASSUME SessionsAssumption ==
  \A s \in Sessions :
    /\ s.frontEnd \in {"repl", "trees", "connection"} /\ s.ending \in {"eof", "reset"}
    /\ s.lines \in Seq(Range(s.lines))
    /\ \A l \in Range(s.lines) :
         /\ l.kind \in {"text", "comment", "directive", "blank"} /\ l.long \in BOOLEAN
         /\ l.label \in {"TRUE", "FALSE", "UNK", "NONE"}
         /\ l.kind = "directive" =>
              \/ l.field = "costs" /\ l.value \in {"intermediate", "strict", "soft"}
              \/ l.field = "skipNegationSearch" /\ l.value \in BOOLEAN

VARIABLES
  session,   \* the front end, its input, and how the input ends
  world,     \* the truth value of every sentence
  pc,        \* "read", "answer", "done" or "crashed"
  input,     \* the lines still to be read
  stream,    \* "good", or "failed": nothing more can be read
  buffer,    \* handleConnection: the line in the buffer
  block,     \* lines: the example as far as it has been read
  options,   \* costs, and options of the search
  output,    \* the responses printed
  failures   \* failedExamples
vars == <<session, world, pc, input, stream, buffer, block, options, output, failures>>

Bridge == INSTANCE Annotator
  WITH Callers <- {}, Programs <- {}, calls <- <<>>, asked <- <<>>, answers <- <<>>

Annotate(text, mode) == Bridge!Answer(<<text, mode>>, Sentences[text][mode])

-------------------------------------------------------------------------------
(* The verdict                                                             *)

(* 1 / (1 + exp(cost)) of the cheapest path, as a rank: 0 is no confidence *)
(* at all, and a higher rank is a higher confidence.                       *)
(* Mutant: the confidence of a response is that of its worst path.        *)
ConfidenceOfWorst(response) ==
  IF response = {} \/ Max(response) >= OverflowFrom THEN 0
                                                    ELSE OverflowFrom - Max(response)

Confidence(response) ==
  IF response = {} \/ Min(response) >= OverflowFrom THEN 0
                                                    ELSE OverflowFrom - Min(response)

(* probability(), as a distance from 0.5.                                  *)
Probability(confidence, truth) ==
  LET distance == IF confidence <= OverflowFrom - LostFrom THEN 0 ELSE confidence
  IN  IF truth THEN distance ELSE -distance

Impossible == Probability(OverflowFrom, FALSE)   \* 0.0

Weak(truth) == -(OverflowFrom - WeakFrom) <= truth /\ truth <= OverflowFrom - WeakFrom

(* Mutant: a tie is taken for true.                                       *)
VerdictOfTies(ifTrue, ifFalse) ==
  IF Confidence(ifTrue) >= Confidence(ifFalse)
  THEN [guess |-> "true", truth |-> Probability(Confidence(ifTrue), TRUE)]
  ELSE [guess |-> "false", truth |-> Probability(Confidence(ifFalse), FALSE)]

(* executeQuery(), once both searches are back.                            *)
Verdict(ifTrue, ifFalse) ==
  CASE Confidence(ifTrue) > Confidence(ifFalse) ->
         [guess |-> "true", truth |-> Probability(Confidence(ifTrue), TRUE)]
    [] Confidence(ifTrue) < Confidence(ifFalse) ->
         [guess |-> "false", truth |-> Probability(Confidence(ifFalse), FALSE)]
    [] OTHER -> [guess |-> "unknown", truth |-> 0]

(* passOrFail()                                                            *)
(* Mutant: whether an unknown is expected is not looked at.               *)
PassOrFailKnown(truth, label, expectUnknown) ==
  CASE label = "NONE" -> ""
    [] label # "NONE" ->
         IF truth # 0 /\ (truth > 0 <=> label = "TRUE") THEN "PASS" ELSE "FAIL"

PassOrFail(truth, label, expectUnknown) ==
  CASE label = "NONE" -> ""
    [] label # "NONE" /\ expectUnknown -> IF Weak(truth) THEN "PASS" ELSE "FAIL"
    [] label # "NONE" /\ ~expectUnknown ->
         IF truth # 0 /\ (truth > 0 <=> label = "TRUE") THEN "PASS" ELSE "FAIL"

-------------------------------------------------------------------------------
(* Reading                                                                 *)
Runs(f) == session.frontEnd = f

Defaults == [costs |-> "intermediate", skipNegationSearch |-> FALSE]

Init ==
  /\ session \in Sessions /\ world \in [DOMAIN Sentences -> BOOLEAN]
  /\ pc = "read" /\ input = session.lines /\ stream = "good"
  /\ buffer = [kind |-> "blank"] /\ block = <<>>
  /\ options = Defaults /\ output = <<>> /\ failures = 0

(* parseMetadata(), or the line is one of the example.                     *)
Take(l, isLine) ==
  /\ options' = IF l.kind = "directive" THEN [options EXCEPT ![l.field] = l.value] ELSE options
  /\ block' = IF l.kind \in {"directive", "blank"} \/ ~isLine THEN block ELSE Append(block, l)

(* cin.getline(): a line that does not fit is cut and fails the stream.    *)
GetLine ==
  /\ Runs("repl") /\ pc = "read" /\ input # <<>>
  /\ LET l == Head(input)
     IN  /\ Take(l, l.kind # "comment")
         /\ stream' = IF l.long THEN "failed" ELSE stream
         /\ pc' = IF l.kind = "blank" \/ l.long THEN "answer" ELSE pc
  /\ input' = Tail(input)
  /\ UNCHANGED <<session, world, buffer, output, failures>>

(* readTreeFromStdin(): a tree that is too long is passed over.            *)
ReadTree ==
  /\ Runs("trees") /\ pc = "read" /\ input # <<>>
  /\ LET l == Head(input)
     IN  /\ Take(l, l.kind # "comment" /\ ~l.long)
         /\ pc' = IF l.kind = "blank" THEN "answer" ELSE pc
  /\ input' = Tail(input)
  /\ UNCHANGED <<session, world, stream, buffer, output, failures>>

(* Mutant: the end of the input ends the loop without an answer.          *)
EndOfInputDropped ==
  /\ session.frontEnd \in {"repl", "trees"} /\ pc = "read" /\ input = <<>>
  /\ stream' = "failed" /\ pc' = "done"
  /\ UNCHANGED <<session, world, input, buffer, block, options, output, failures>>

EndOfInput ==
  /\ session.frontEnd \in {"repl", "trees"} /\ pc = "read" /\ input = <<>>
  /\ stream' = "failed" /\ pc' = "answer"
  /\ UNCHANGED <<session, world, input, buffer, block, options, output, failures>>

(* Mutant: a connection may send any number of lines.                     *)
NeverFull(lines) == FALSE

Full(lines) == Len(lines) >= MaxFacts

(* readLine() of a socket: at the end of the input it clears the buffer,   *)
(* and on an error between two lines it leaves the buffer as it is.        *)
ReadSocket ==
  /\ Runs("connection") /\ pc = "read"
  /\ buffer' = CASE input # <<>> -> Head(input)
                 [] input = <<>> /\ session.ending = "eof" -> [kind |-> "blank"]
                 [] input = <<>> /\ session.ending = "reset" -> buffer
  /\ input' = IF input = <<>> THEN input ELSE Tail(input)
  /\ Take(buffer', TRUE)
  /\ pc' = IF buffer'.kind = "blank" \/ Full(block') THEN "answer" ELSE pc
  /\ UNCHANGED <<session, world, stream, output, failures>>

-------------------------------------------------------------------------------
(* Answering                                                               *)
Query == Last(block)
Premises == [i \in DOMAIN Front(block) |-> Front(block)[i].text]
Label == IF Runs("trees") THEN "NONE" ELSE Query.label

Readable(text, mode) == Runs("trees") \/ Annotate(text, mode) # <<>>

(* The loop around an example: a connection has one, and a failed stream   *)
(* no more.                                                                *)
(* Mutant: the lines of an example are kept for the next.                 *)
NextExampleOnTop ==
  /\ block' = block
  /\ pc' = IF Runs("connection") \/ stream = "failed" THEN "done" ELSE "read"

NextExample ==
  /\ block' = <<>>
  /\ pc' = IF Runs("connection") \/ stream = "failed" THEN "done" ELSE "read"

Reply(response) ==
  /\ output' = Append(output, response)
  /\ failures' = failures + (IF response.prefix = "FAIL" THEN 1 ELSE 0)
  /\ NextExample

NothingToAnswer ==
  /\ pc = "answer" /\ block = <<>>
  /\ NextExample
  /\ UNCHANGED <<session, world, input, stream, buffer, options, output, failures>>

(* Whether a label has no text behind it, at which grokExpectedTruth()     *)
(* throws.                                                                 *)
BareLabel == Label # "NONE" /\ Query.text = Empty

(* executeQuery() takes the first tree of every premise, and there may be  *)
(* none.                                                                   *)
Crash ==
  /\ pc = "answer" /\ block # <<>>
  /\ BareLabel \/ \E p \in Range(Premises) : ~Readable(p, "P")
  /\ pc' = "crashed"
  /\ UNCHANGED <<session, world, input, stream, buffer, block, options, output, failures>>

(* What a search may return, given the promise of the search (TruthSound): *)
(* with hard costs and true premises it finds no proof of    *)
(* what is false.  skipNegationSearch leaves it no ticks.                  *)
Searched(truth) ==
  IF \/ ~truth /\ options.skipNegationSearch
     \/ /\ options.costs # "soft" /\ world[Query.text] # truth
        /\ \A p \in Range(Premises) : world[p]
  THEN {{}} ELSE Results

(* handleConnection() leaves expectUnknown uninitialised.                  *)
ExpectUnknown ==
  IF Label = "UNK" THEN {TRUE} ELSE IF Runs("connection") THEN BOOLEAN ELSE {FALSE}

Answer ==
  /\ pc = "answer" /\ block # <<>> /\ ~BareLabel
  /\ \A p \in Range(Premises) : Readable(p, "P")
  /\ \E ifTrue, ifFalse \in Results, expectUnknown \in ExpectUnknown :
       LET success == Readable(Query.text, "Q")
           verdict == IF success THEN Verdict(ifTrue, ifFalse)
                                 ELSE [guess |-> "none", truth |-> Impossible]
       IN  /\ success => ifTrue \in Searched(TRUE) /\ ifFalse \in Searched(FALSE)
           /\ ~success => ifTrue = {} /\ ifFalse = {}
           /\ Reply([premises |-> Premises, query |-> Query.text, label |-> Label,
                     success |-> success, ifTrue |-> ifTrue, ifFalse |-> ifFalse,
                     guess |-> verdict.guess, truth |-> verdict.truth,
                     hard |-> options.costs # "soft",
                     prefix |-> PassOrFail(verdict.truth, Label, expectUnknown)])
  /\ UNCHANGED <<session, world, input, stream, buffer, options>>

Stopped == pc \in {"done", "crashed"} /\ UNCHANGED vars

Next == \/ GetLine \/ ReadTree \/ EndOfInput \/ ReadSocket
        \/ NothingToAnswer \/ Crash \/ Answer \/ Stopped

Spec == Init /\ [][Next]_vars

-------------------------------------------------------------------------------
(* Properties                                                              *)

(* The state has its type.                                                 *)
TypeOK ==
  /\ pc \in {"read", "answer", "done", "crashed"} /\ stream \in {"good", "failed"}
  /\ IsSuffix(input, session.lines)
  /\ Range(block) \subseteq Range(session.lines)
  /\ Len(block) <= IF Runs("connection") THEN MaxFacts ELSE Len(session.lines)
  /\ options.costs \in {"intermediate", "strict", "soft"} /\ options.skipNegationSearch \in BOOLEAN
  /\ failures \in 0 .. Len(output)

(* How some lines are cut into examples by the rules of the README: a blank *)
(* line closes the example that is open, if it has lines; comments and     *)
(* directives belong to none.                                              *)
Closed(e) == IF e.open = <<>> THEN e.closed ELSE Append(e.closed, e.open)

CutAt(e, l) ==
  CASE l.kind = "blank" -> [closed |-> Closed(e), open |-> <<>>]
    [] l.kind = "text"  -> [e EXCEPT !.open = Append(@, l)]
    [] OTHER            -> e

Cut(lines) ==
  LET cut[k \in 0 .. Len(lines)] ==
        IF k = 0 THEN [closed |-> <<>>, open |-> <<>>] ELSE CutAt(cut[k - 1], lines[k])
  IN  cut

(* The examples of the first k lines.                                      *)
ExamplesUpTo(lines, k) == Closed(Cut(lines)[k])

(* A connection is one example, up to its first blank line.                *)
Blanks == {k \in DOMAIN session.lines : session.lines[k].kind = "blank"}

LastToRead == IF Runs("connection") /\ Blanks # {} THEN Min(Blanks) ELSE Len(session.lines)

ToAnswer == ExamplesUpTo(session.lines, LastToRead)

(* Input that every part of the program has room for and can read.         *)
Ordinary ==
  /\ \A l \in Range(session.lines) : ~l.long /\ (l.kind = "comment" => ~Runs("connection"))
  /\ session.ending = "eof"
  /\ \A e \in Range(ToAnswer) :
       /\ Runs("connection") => Len(e) <= MaxFacts
       /\ Runs("trees") \/ Last(e).label = "NONE" \/ Last(e).text # Empty
       /\ Runs("trees") \/ \A p \in Range(Front(e)) : Annotate(p.text, "P") # <<>>

(* Every example is answered once, in order, with its last line as the     *)
(* query and all the others as premises, and nothing crashes: three        *)
(* reading loops with their own ends of line, example and input agree on   *)
(* what an example is.                                                     *)
ExamplesAnswered ==
  Ordinary =>
    /\ pc # "crashed"
    /\ pc = "done" =>
         [i \in DOMAIN output |-> Append(output[i].premises, output[i].query)]
           = [i \in DOMAIN ToAnswer |-> [j \in DOMAIN ToAnswer[i] |-> ToAnswer[i][j].text]]

(* A line that becomes one of an example, to this front end.               *)
IsSentence(l) == l.kind = "text" \/ (Runs("connection") /\ l.kind = "comment")

(* The sentences between two places of the input with no blank line there. *)
SentencesWithin(first, last) ==
  {session.lines[i].text : i \in {j \in first .. last : IsSentence(session.lines[j])}}

(* Whatever the input, long lines, lost connections and crashes included,  *)
(* no answer mixes the sentences of two examples: lines are dropped or     *)
(* repeated, but never carried over to the next query.                     *)
OfOneExample(r) ==
  \E first, last \in DOMAIN session.lines :
    /\ \A i \in first .. last : session.lines[i].kind # "blank"
    /\ Range(r.premises) \cup {r.query} \subseteq SentencesWithin(first, last)

NoCarryOver == \A r \in Range(output) : OfOneExample(r)

(* With hard costs and premises that are true, a hard guess is the truth:  *)
(* the two searches of a query, its negation's included, are not mixed up  *)
(* and neither are the options of two examples.                            *)
GuessIsTruth(r) ==
  r.hard /\ r.success /\ (\A p \in Range(r.premises) : world[p])
    => \/ r.guess = "unknown"
       \/ (r.guess = "true") /\ world[r.query]
       \/ (r.guess = "false") /\ ~world[r.query]

VerdictSound == \A r \in Range(output) : GuessIsTruth(r)

(* Of all paths that both searches found, the cheapest decides the guess,  *)
(* and only a tie of the two searches, or costs with no confidence at all, *)
(* leave it unknown.                                                       *)
CheapestDecides(r) ==
  LET found == {c \in r.ifTrue \cup r.ifFalse : c < OverflowFrom}
      Cheapest(paths) == \E c \in paths : c \in found /\ \A d \in found : c <= d
  IN  CASE Cheapest(r.ifTrue) /\ ~Cheapest(r.ifFalse) -> r.guess = "true"
        [] Cheapest(r.ifFalse) /\ ~Cheapest(r.ifTrue) -> r.guess = "false"
        [] OTHER -> r.guess = "unknown"

CheapestWins == \A r \in Range(output) : r.success => CheapestDecides(r)

(* A REPL passes an example only if its guess agrees with its label, or    *)
(* its label is UNK and the guess carries no weight, and fails one that    *)
(* agrees only if the confidence is lost in the sum with 0.5.  A query     *)
(* that cannot be read is false to it.                                     *)
Agrees(r) ==
  CASE r.label = "TRUE"  -> r.guess = "true"
    [] r.label = "FALSE" -> r.guess \in {"false", "none"}
    [] r.label = "UNK"   -> r.guess = "unknown"
    [] OTHER             -> FALSE

PrefixIsDue(r) ==
  LET paths == r.ifTrue \cup r.ifFalse
  IN  /\ r.prefix = "PASS" =>
           Agrees(r) \/ (r.label = "UNK" /\ r.success /\ \A c \in paths : c >= WeakFrom)
      /\ r.prefix = "FAIL" => ~Agrees(r) \/ \E c \in paths : c >= LostFrom

PassMeansAgree == Runs("repl") => \A r \in Range(output) : PrefixIsDue(r)
===============================================================================
