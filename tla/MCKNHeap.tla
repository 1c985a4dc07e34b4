------------------------------- MODULE MCKNHeap -------------------------------
(***************************************************************************)
(* Small instances of KNHeap.  What goes in is one of a few streams of     *)
(* keys; insertions and deletions come in any order with few enough turns  *)
(* from the one to the other, at sizes that TurnStep divides.              *)
(***************************************************************************)
EXTENDS KNHeap

CONSTANTS MaxTurns,   \* how often insertion and deletion may take turns
          TurnStep    \* the sizes where they may: the multiples of it

VARIABLES stream, op, turns

(* The key of the n-th element.                                            *)
KeyOf(n) ==
  CASE stream = "up"     -> n
    [] stream = "down"   -> 50 - n
    [] stream = "ties"   -> 7
    [] stream = "spread" -> (n * 11) % 17
    [] stream = "waves"  -> (n % 5) * 3 + 7 - (n % 7)

Streams == {"up", "down", "ties", "spread", "waves"}

(* Many levels, wide levels, the arity of the code, and large heaps.       *)
Deep  == [KNN |-> 1, KNBufferSize1 |-> 1, KNKMAX |-> 4, KNLevels |-> 3, inserts |-> 36]
Wide  == [KNN |-> 3, KNBufferSize1 |-> 2, KNKMAX |-> 8, KNLevels |-> 2, inserts |-> 40]
Broad == [KNN |-> 1, KNBufferSize1 |-> 1, KNKMAX |-> 32, KNLevels |-> 2, inserts |-> 40]
Large == [KNN |-> 8, KNBufferSize1 |-> 5, KNKMAX |-> 4, KNLevels |-> 2, inserts |-> 32]
MCShapes == {Deep, Wide, Broad, Large}

MCKeys == 0 .. 50

MCInfimum == -1000

MCInit == Init /\ stream \in Streams /\ op = "insert" /\ turns = 0

Turn(to) ==
  /\ op' = to
  /\ op # to => GetSize % TurnStep = 0
  /\ turns' = IF op = to THEN turns ELSE turns + 1
  /\ turns' <= MaxTurns
  /\ UNCHANGED stream

MCNext ==
  \/ inserted < shape.inserts /\ Turn("insert") /\ Insert(KeyOf(inserted + 1))
  \/ Turn("delete") /\ DeleteFromBuffer
  \/ Turn("delete") /\ DeleteFromHeap

MCSpec == MCInit /\ [][MCNext]_<<vars, stream, op, turns>>
===============================================================================
