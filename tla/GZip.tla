--------------------------------- MODULE GZip ---------------------------------
(***************************************************************************)
(* GZip.cc: the rows of a compressed file, read through two buffers.  What *)
(* a file decompresses to is a sequence of characters; a row is written as *)
(* a line: the row itself, a character of its own here, padding, a newline.*)
(*                                                                         *)
(* A file is a record                                                      *)
(*   text      what it decompresses to                                     *)
(*   cuts      where in the text each block of input ends; a block may     *)
(*             decompress to nothing                                       *)
(*   complete  whether the last block ends with the trailer of a gzip      *)
(*             stream                                                      *)
(* and a reader of it is a record                                          *)
(*   file      the file                                                    *)
(*   block     the blocks that have been put into the input buffer         *)
(*   inflated  how far the text has been put into the output buffer        *)
(*   out       the output buffer, of which outHave characters are new and  *)
(*             outConsumed have been read; the others are stale            *)
(*   ended     inflate has returned Z_STREAM_END                           *)
(*   filled    what fillOut has returned last                              *)
(***************************************************************************)
EXTENDS Integers, SequencesExt

CONSTANTS BufferSize,   \* the size of the buffers
          Newline,
          Garbage       \* what memory holds before it is written

ASSUME BufferSizeAssumption == BufferSize \in Nat \ {0}

End(file, block) == IF block = 0 THEN 0 ELSE file.cuts[block]

(* inflate puts n characters of the block into the output buffer.          *)
Inflated(g, n) ==
  [g EXCEPT !.out = [i \in 1 .. BufferSize |-> IF i <= n THEN g.file.text[g.inflated + i] ELSE @[i]],
            !.inflated = @ + n,
            !.ended = @ \/ (/\ g.file.complete /\ g.block = Len(g.file.cuts)
                            /\ g.inflated + n = End(g.file, g.block)),
            !.outHave = n, !.outConsumed = 0, !.filled = n # 0]

Inflate(g) ==
  LET left == End(g.file, g.block) - g.inflated
  IN  Inflated(g, IF left < BufferSize THEN left ELSE BufferSize)

(* fillOut and fillIn: blocks are read until one yields something, or      *)
(* there are no more.                                                      *)
NextBlock(g) ==
  LET blocks == g.block .. Len(g.file.cuts)
  IN  CHOOSE b \in blocks :
        /\ b = Len(g.file.cuts) \/ End(g.file, b) > g.inflated
        /\ \A c \in blocks : c < b => End(g.file, c) <= g.inflated

FillOut(g) == Inflate([g EXCEPT !.block = NextBlock(g)])

(* The constructor primes the output.                                      *)
GZIterator(file) ==
  FillOut([file |-> file, block |-> 0, inflated |-> 0,
           out |-> [i \in 1 .. BufferSize |-> Garbage], outHave |-> 0, outConsumed |-> 0,
           ended |-> FALSE, filled |-> FALSE])

(* Mutant: what is left in the output is forgotten when the stream ends.   *)
HasNextInStream(g) == ~g.ended

HasNext(g) == ~(g.ended /\ g.outConsumed >= g.outHave)

(* One character on, and more output if there is none left.                *)
Consume(g) ==
  LET h == [g EXCEPT !.outConsumed = @ + 1]
  IN  IF h.outConsumed >= h.outHave THEN FillOut(h) ELSE [h EXCEPT !.filled = TRUE]

(* A round of the loop that makes a line.  The newline is skipped, and the *)
(* output filled, whether it can be or not.  There always is a character,  *)
(* according to the code, when the stream has not ended.                   *)
ReadCharacter(s) ==
  LET c    == s.reader.out[s.reader.outConsumed + 1]
      next == Consume(s.reader)
  IN  IF s.over THEN s
      ELSE IF c = Newline THEN [s EXCEPT !.reader = next, !.over = TRUE]
      ELSE [reader |-> next, line |-> Append(s.line, c), over |-> ~next.filled]

(* The next line.  One that is as long as its buffer is written past its   *)
(* end.                                                                    *)
NextLine(g) ==
  LET read[n \in 0 .. BufferSize] ==
        IF n = 0 THEN [reader |-> g, line |-> <<>>, over |-> FALSE]
                 ELSE ReadCharacter(read[n - 1])
  IN  read[BufferSize]

TooLong(line) == Len(line) >= BufferSize
===============================================================================
