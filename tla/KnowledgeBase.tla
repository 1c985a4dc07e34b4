----------------------------- MODULE KnowledgeBase -----------------------------
(***************************************************************************)
(* How a knowledge base is made and read: hash_tree prints the hash of     *)
(* every tree on its input, write_kb writes them to a file in chunks, and  *)
(* readKB reads the file in chunks into a set.  The first two run at the   *)
(* same time, with a pipe between them.                                    *)
(*                                                                         *)
(* A tree of the input is a record                                         *)
(*   hash    its hash                                                      *)
(*   lines   its lines, the blank one that ends it included                *)
(*   cut     whether one of them is longer than getline() takes            *)
(***************************************************************************)
EXTENDS Naturals, SequencesExt

CONSTANTS Corpora,           \* the inputs: [trees, blank], where blank says whether
                             \* a blank line ends the last tree
          CHUNK_SIZE,        \* hashes in a chunk
          MAX_FACT_LENGTH,   \* lines a tree must stay below
          AllOnes            \* 2^64 - 1, which is what strtoul makes of -1

ASSUME ChunkAssumption == CHUNK_SIZE \in Nat \ {0}
ASSUME CorporaAssumption ==
  \A c \in Corpora : c.trees \in Seq(Range(c.trees)) /\ c.blank \in BOOLEAN
                    /\ \A t \in Range(c.trees) : t.cut \in BOOLEAN

VARIABLES corpus, unread,    \* the input, and what is left of it
          failed,            \* whether the input of hash_tree has failed
          printed,           \* the lines in the pipe
          buffer, file, kb,
          stage              \* "write", "read" or "done"
kbVars == <<corpus, unread, failed, printed, buffer, file, kb, stage>>

KBInit ==
  /\ corpus \in Corpora
  /\ unread = corpus.trees /\ failed = FALSE
  /\ printed = <<>> /\ buffer = <<>> /\ file = <<>> /\ kb = {} /\ stage = "write"

-------------------------------------------------------------------------------
(* hash_tree                                                               *)
IsRead(t) == t.lines \in 2 .. MAX_FACT_LENGTH - 1

(* A tree that is empty or too long has a line, too.                       *)
Printed(t) == IF IsRead(t) THEN t.hash ELSE AllOnes

HashTree ==
  /\ ~failed /\ unread # <<>>
  /\ printed' = Append(printed, Printed(Head(unread)))
  /\ unread' = Tail(unread)
  /\ failed' = (Head(unread).cut \/ (unread' = <<>> /\ ~corpus.blank))
  /\ UNCHANGED <<corpus, buffer, file, kb, stage>>

(* The end of the input is only seen by reading one more, empty tree.      *)
HashNothing ==
  /\ ~failed /\ unread = <<>>
  /\ printed' = Append(printed, AllOnes) /\ failed' = TRUE
  /\ UNCHANGED <<corpus, unread, buffer, file, kb, stage>>

-------------------------------------------------------------------------------
(* write_kb                                                                *)
WriteHash ==
  /\ stage = "write" /\ printed # <<>> /\ Len(buffer) + 1 < CHUNK_SIZE
  /\ buffer' = Append(buffer, Head(printed))
  /\ printed' = Tail(printed)
  /\ UNCHANGED <<corpus, unread, failed, file, kb, stage>>

WriteChunk ==
  /\ stage = "write" /\ printed # <<>> /\ Len(buffer) + 1 = CHUNK_SIZE
  /\ file' = file \o Append(buffer, Head(printed))
  /\ buffer' = <<>>
  /\ printed' = Tail(printed)
  /\ UNCHANGED <<corpus, unread, failed, kb, stage>>

(* The last few facts.                                                     *)
WriteRest ==
  /\ stage = "write" /\ failed /\ printed = <<>>
  /\ file' = file \o buffer
  /\ stage' = "read"
  /\ UNCHANGED <<corpus, unread, failed, printed, buffer, kb>>

-------------------------------------------------------------------------------
(* readKB                                                                  *)
AppendToKB(facts) == kb' = kb \cup Range(facts)

ReadChunk ==
  /\ stage = "read" /\ Len(file) >= CHUNK_SIZE
  /\ AppendToKB(SubSeq(file, 1, CHUNK_SIZE))
  /\ file' = SubSeq(file, CHUNK_SIZE + 1, Len(file))
  /\ UNCHANGED <<corpus, unread, failed, printed, buffer, stage>>

(* Mutant: a chunk that is not full is taken for the end of the file.      *)
ReadNoRest ==
  /\ stage = "read" /\ Len(file) < CHUNK_SIZE
  /\ stage' = "done" /\ file' = <<>>
  /\ UNCHANGED <<corpus, unread, failed, printed, buffer, kb>>

ReadRest ==
  /\ stage = "read" /\ Len(file) < CHUNK_SIZE
  /\ AppendToKB(file)
  /\ stage' = "done" /\ file' = <<>>
  /\ UNCHANGED <<corpus, unread, failed, printed, buffer>>

KBNext ==
  HashTree \/ HashNothing \/ WriteHash \/ WriteChunk \/ WriteRest \/ ReadChunk \/ ReadRest

KBSpec == KBInit /\ [][KBNext]_kbVars

-------------------------------------------------------------------------------
(* The knowledge base that is searched holds every tree of the input that  *)
(* fits, wherever the chunks end, and no other fact, but for the value     *)
(* that stands for no tree.  A line too long hides all that is behind it.  *)
NothingForgotten ==
  stage = "done" =>
    LET Behind(k) == \E j \in 1 .. k - 1 : corpus.trees[j].cut
        facts     == {corpus.trees[k].hash :
                        k \in {j \in DOMAIN corpus.trees : IsRead(corpus.trees[j]) /\ ~Behind(j)}}
    IN  facts \subseteq kb /\ kb \subseteq facts \cup {AllOnes}
===============================================================================
