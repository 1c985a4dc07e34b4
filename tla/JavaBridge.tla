------------------------------ MODULE JavaBridge ------------------------------
(***************************************************************************)
(* The annotator of JavaBridge.cc and CBridge.java: threads (the REPL and  *)
(* one per connection) share a Java child behind two pipes and a mutex.    *)
(*                                                                         *)
(* A request is a mode byte and a line.  The child prints every tree with  *)
(* println: its lines, each with its newline, and a blank line.  A further *)
(* println ends the response; if the child throws it prints two instead.   *)
(* The reader ends at the third newline in a row, and takes what it has    *)
(* read at the second one for a tree.                                      *)
(*                                                                         *)
(* A line with its newline is one symbol of the pipes.                     *)
(***************************************************************************)
EXTENDS Naturals, FiniteSets, SequencesExt

CONSTANTS Callers,          \* the threads that share the annotator
          Programs,         \* the sequences of sentences a thread may annotate
          MAX_FACT_LENGTH,  \* lines a tree must stay below, the blank one included
          None,             \* nobody holds the mutex
          NL                \* the newline of a blank line

(* What ProcessPremise and ProcessQuery can make of a sentence: trees have *)
(* lines; only a query's tree can be empty, and then it has its stand-in.  *)
Sentence == [mode : {"P", "Q"}, trees : Seq(Nat \ {0}), fails : BOOLEAN, short : BOOLEAN]

ASSUME ProgramsAssumption ==
  \A program \in Programs :
    /\ program \in Seq(Sentence)
    /\ \A sentence \in Range(program) :
         sentence.short => sentence.trees = <<1>> /\ ~sentence.fails
ASSUME NoneAssumption == None \notin Callers
ASSUME NewlineAssumption == NL \notin [call : Callers \X Nat, tree : Nat, line : Nat]

VARIABLES calls,     \* the sentences each thread annotates, in order
          answers,   \* what annotate() has returned, in order
          lock, pc,
          childIn,   \* bytes on their way to the child
          childOut,  \* bytes on their way back
          printing,  \* what the child has still to print, a println each
          local      \* the variables of annotate(), for every thread
vars == <<calls, answers, lock, pc, childIn, childOut, printing, local>>

(* A thread has asked for the sentences it is not done with.               *)
Asked(c) == Len(answers[c]) + (IF pc[c] = "idle" THEN 0 ELSE 1)

(* No thread annotates a sentence that fails, is empty or has no trees.    *)
Healthy ==
  \A c \in Callers : \A sentence \in Range(calls[c]) :
    ~sentence.fails /\ ~sentence.short /\ sentence.trees # <<>>

(* The promise speaks of calls whose sentences are healthy.                *)
Promise ==
  INSTANCE Annotator WITH asked   <- [c \in Callers |-> IF Healthy THEN Asked(c) ELSE 0],
                          answers <- [c \in Callers |-> IF Healthy THEN answers[c] ELSE <<>>]

Fresh == [numNewlines |-> 0, numLines |-> 0, conll |-> <<>>, trees |-> <<>>]

Init ==
  /\ calls \in [Callers -> Programs] /\ answers = [c \in Callers |-> <<>>]
  /\ lock = None /\ pc = [c \in Callers |-> "idle"]
  /\ childIn = <<>> /\ childOut = <<>> /\ printing = <<>>
  /\ local = [c \in Callers |-> Fresh]

-------------------------------------------------------------------------------
(* annotate()                                                              *)
Acquire(c) ==
  /\ pc[c] = "idle" /\ Len(answers[c]) < Len(calls[c]) /\ lock = None
  /\ lock' = c
  /\ pc' = [pc EXCEPT ![c] = "mode"]
  /\ local' = [local EXCEPT ![c] = Fresh]
  /\ UNCHANGED <<calls, answers, childIn, childOut, printing>>

WriteMode(c) ==
  /\ pc[c] = "mode"
  /\ childIn' = Append(childIn, calls[c][Asked(c)].mode)
  /\ pc' = [pc EXCEPT ![c] = "sentence"]
  /\ UNCHANGED <<calls, answers, lock, childOut, printing, local>>

WriteSentence(c) ==
  /\ pc[c] = "sentence"
  /\ childIn' = Append(childIn, <<c, Asked(c)>>)
  /\ pc' = [pc EXCEPT ![c] = "read"]
  /\ UNCHANGED <<calls, answers, lock, childOut, printing, local>>

(* Mutant: what was read is not cleared behind a tree.                     *)
EndTreeKeeping(l) ==
  IF l.numNewlines # 2 THEN l
  ELSE [l EXCEPT !.numLines = 0,
                 !.trees = IF l.numLines < MAX_FACT_LENGTH THEN Append(@, l.conll) ELSE @]

(* Handle a double newline: new Tree(conll) skips blank lines.             *)
EndTree(l) ==
  IF l.numNewlines # 2 THEN l
  ELSE [l EXCEPT !.conll = <<>>, !.numLines = 0,
                 !.trees = IF l.numLines < MAX_FACT_LENGTH THEN Append(@, l.conll) ELSE @]

(* The lines of conll are kept, but for the blank ones.                    *)
Characters(l, s) ==
  IF s = NL THEN [l EXCEPT !.numLines = @ + 1, !.numNewlines = @ + 1]
            ELSE [l EXCEPT !.conll = Append(@, s), !.numLines = @ + 1, !.numNewlines = 1]

(* Mutant: the response ends behind its first tree.                        *)
CompleteAtTwo(l) == l.numNewlines >= 2

Complete(l) == l.numNewlines >= 3

Read(c) ==
  /\ pc[c] = "read" /\ ~Complete(local[c]) /\ childOut # <<>>
  /\ local' = [local EXCEPT ![c] = EndTree(Characters(@, Head(childOut)))]
  /\ childOut' = Tail(childOut)
  /\ UNCHANGED <<calls, answers, lock, pc, childIn, printing>>

Release(c) ==
  /\ pc[c] = "read" /\ Complete(local[c])
  /\ lock' = None
  /\ pc' = [pc EXCEPT ![c] = "idle"]
  /\ answers' = [answers EXCEPT ![c] = Append(@, local[c].trees)]
  /\ UNCHANGED <<calls, childIn, childOut, printing, local>>

Annotate(c) == Acquire(c) \/ WriteMode(c) \/ WriteSentence(c) \/ Read(c) \/ Release(c)

-------------------------------------------------------------------------------
(* CBridge.main()                                                          *)
(* conllDump() ends every line of a tree with a newline, and the line that *)
(* stands for an empty tree with two.                                      *)
ConllDump(lines, short) == IF short THEN Append(lines, NL) ELSE lines

Println(text) == Append(text, NL)

(* Mutant: nothing marks the end of a response.                            *)
EndingUnmarked(sentence) ==
  IF sentence.fails THEN << Println(<<>>), Println(<<>>) >> ELSE <<>>

Ending(sentence) ==
  IF sentence.fails THEN << Println(<<>>), Println(<<>>) >> ELSE << Println(<<>>) >>

Response(call) ==
  LET sentence == calls[call[1]][call[2]]
  IN  [i \in DOMAIN sentence.trees |->
         Println(ConllDump(Promise!Lines(call, i, sentence.trees[i]), sentence.short))]
      \o Ending(sentence)

ReadLine ==
  /\ printing = <<>> /\ Len(childIn) >= 2
  /\ childIn' = SubSeq(childIn, 3, Len(childIn))
  /\ printing' = Response(childIn[2])
  /\ UNCHANGED <<calls, answers, lock, pc, childOut, local>>

PrintNext ==
  /\ printing # <<>>
  /\ childOut' = childOut \o Head(printing)
  /\ printing' = Tail(printing)
  /\ UNCHANGED <<calls, answers, lock, pc, childIn, local>>

Child == ReadLine \/ PrintNext

-------------------------------------------------------------------------------
Next == Child \/ \E c \in Callers : Annotate(c)

Spec == Init /\ [][Next]_vars

(* The child and every thread keep running.  A thread gets the mutex once  *)
(* the others leave it alone: they make finitely many calls.               *)
FairSpec ==
  Spec /\ WF_vars(Child) /\ \A c \in Callers : WF_vars(Annotate(c))

-------------------------------------------------------------------------------
(* Properties                                                              *)

(* annotate() keeps the promise of JavaBridge.h for healthy sentences.     *)
Annotates == Promise!Spec

(* One thread at a time is inside annotate(), and between healthy calls    *)
(* nothing is left in the pipes: the next response starts at its first     *)
(* byte.                                                                   *)
Quiescent ==
  /\ \A c \in Callers : (pc[c] # "idle") = (lock = c)
  /\ Healthy /\ lock = None => childIn = <<>> /\ childOut = <<>> /\ printing = <<>>

AllReturned == \A c \in Callers : Len(answers[c]) = Len(calls[c])

(* Every call with healthy sentences returns, to every thread: no thread   *)
(* keeps the mutex, and no response ends early or late.                    *)
HealthyCallsReturn == Healthy ~> AllReturned

(* Every call returns, whatever becomes of its sentence.                   *)
EveryCallReturns == <>AllReturned

(* Whatever the sentences do, a call never gets lines of another call, nor *)
(* a tree in parts: what it gets is empty or a whole tree of its own.      *)
NoMixing ==
  \A c \in Callers : \A k \in DOMAIN answers[c] : \A t \in Range(answers[c][k]) :
    t = <<>> \/ t \in Range(Promise!TreesOf(<<c, k>>, calls[c][k]))
===============================================================================
