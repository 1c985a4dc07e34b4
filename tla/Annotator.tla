------------------------------- MODULE Annotator -------------------------------
(***************************************************************************)
(* What JavaBridge.h promises of annotate(): each call is answered once,   *)
(* with the trees of its own sentence, or with no trees if there was an    *)
(* error; trees that are too long are left out.                            *)
(*                                                                         *)
(* A sentence is described by what the Java pipeline makes of it, which is *)
(* a function of the sentence:                                             *)
(*   mode    "P" (premise) or "Q" (query)                                  *)
(*   trees   the number of lines of each tree it prints                    *)
(*   fails   TRUE if it then throws                                        *)
(*   short   TRUE if conllDump() finds the tree empty and prints its       *)
(*           one-line stand-in                                             *)
(***************************************************************************)
EXTENDS Naturals, SequencesExt

CONSTANTS Callers,          \* the threads that share the annotator
          Programs,         \* the sequences of sentences a thread may annotate
          MAX_FACT_LENGTH   \* lines a tree must stay below, the blank one included

VARIABLES calls,    \* the sentences each thread annotates, in order
          asked,    \* how many of them it has passed to annotate()
          answers   \* what annotate() has returned, in order

(* A tree as it is read: its lines, each known by the call it answers.     *)
Lines(call, i, n) == [j \in 1 .. n |-> [call |-> call, tree |-> i, line |-> j]]

TreesOf(call, sentence) ==
  [i \in DOMAIN sentence.trees |-> Lines(call, i, sentence.trees[i])]

(* The trees that are not too long.                                        *)
Fitting(trees) ==
  LET fitting[i \in 0 .. Len(trees)] ==
        IF i = 0 THEN <<>>
        ELSE IF Len(trees[i]) + 1 < MAX_FACT_LENGTH THEN Append(fitting[i - 1], trees[i])
        ELSE fitting[i - 1]
  IN  fitting[Len(trees)]

Answer(call, sentence) ==
  IF sentence.fails THEN <<>> ELSE Fitting(TreesOf(call, sentence))

Init == /\ calls \in [Callers -> Programs]
        /\ asked = [c \in Callers |-> 0]
        /\ answers = [c \in Callers |-> <<>>]

Ask(c) == /\ asked[c] = Len(answers[c]) /\ asked[c] < Len(calls[c])
          /\ asked' = [asked EXCEPT ![c] = @ + 1]
          /\ UNCHANGED <<calls, answers>>

Reply(c) == /\ Len(answers[c]) < asked[c]
            /\ answers' = [answers EXCEPT ![c] =
                             Append(@, Answer(<<c, asked[c]>>, calls[c][asked[c]]))]
            /\ UNCHANGED <<calls, asked>>

Next == \E c \in Callers : Ask(c) \/ Reply(c)

vars == <<calls, asked, answers>>

Spec == Init /\ [][Next]_vars
===============================================================================
