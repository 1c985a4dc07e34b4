----------------------------- MODULE MCJavaBridge -----------------------------
(***************************************************************************)
(* Small instances of JavaBridge: what the threads ask, and what becomes   *)
(* of it.                                                                  *)
(***************************************************************************)
EXTENDS JavaBridge

Premise(trees) == [mode |-> "P", trees |-> trees, fails |-> FALSE, short |-> FALSE]
Query(n)       == [mode |-> "Q", trees |-> <<n>>, fails |-> FALSE, short |-> FALSE]
ShortQuery     == [mode |-> "Q", trees |-> <<1>>, fails |-> FALSE, short |-> TRUE]
Failed(mode, trees) == [mode |-> mode, trees |-> trees, fails |-> TRUE, short |-> FALSE]

(* executeQuery(): the premises, then the query.  MAX_FACT_LENGTH is 4, so *)
(* trees of three lines are too long.                                      *)
HealthyPrograms == { <<Premise(<<1>>), Query(2)>>,
                     <<Premise(<<2, 1>>), Query(3)>>,
                     <<Premise(<<3, 2, 1>>), Query(1)>>,
                     <<Query(2)>> }

FailingPrograms == { <<Premise(<<1>>), Query(2)>>,
                     <<Failed("P", <<2>>), Query(1)>>,
                     <<Failed("P", <<1, 2>>), ShortQuery>>,
                     <<ShortQuery, Premise(<<2, 1>>)>>,
                     <<Failed("Q", <<>>), Premise(<<1>>)>>,
                     <<Premise(<<>>), Query(2)>> }

MCPrograms == HealthyPrograms \cup FailingPrograms

(* A sentence that fails before it prints anything.                        *)
FailsAtOnce == { <<Failed("Q", <<>>)>> }
===============================================================================
