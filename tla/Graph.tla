--------------------------------- MODULE Graph ---------------------------------
(***************************************************************************)
(* Graph.cc: the mutation graph is read from three compressed files, the   *)
(* words, the edges and the deletions that are not allowed; the edges are  *)
(* kept by the word they lead to, in order of priority and cost.           *)
(***************************************************************************)
EXTENDS GZip, NatLog, FiniteSets, FiniteSetsExt

CONSTANTS Files,             \* the triples of files that may be read
          Characters,        \* what a file may hold
          Lines,             \* [row, text]: each row, and the line it is written as
          InitialCapacity,   \* room for edges to a word, at first
          SENSE_ENTROPY      \* the bits of a word sense

Senses == 2 ^ SENSE_ENTROPY

ASSUME GraphAssumption ==
  InitialCapacity \in Nat /\ InitialCapacity >= 2 /\ Senses \in 1 .. 256

ASSUME LinesAssumption ==
  /\ {Newline, Garbage} \subseteq Characters \ DOMAIN Lines
  /\ \A c \in DOMAIN Lines : /\ Lines[c].text \in Seq(Characters \ {Newline})
                             /\ Lines[c].text # <<>> /\ Lines[c].text[1] = c

(* The rows that may be in the three files, with numbers that fit the      *)
(* bytes or the bits they are read into.                                   *)
WordRows == {c \in DOMAIN Lines : Lines[c].row \in [index : Nat]}

EdgeRows ==
  {c \in DOMAIN Lines : Lines[c].row \in
     [columns : Nat, source : Nat, source_sense : 0 .. 255, sink : Nat, sink_sense : 0 .. 255,
      type : STRING, cost : Int]}

DeletionRows == {c \in DOMAIN Lines : Lines[c].row \in [word : Nat, sense : 0 .. Senses - 1]}

(* A complete file is the lines of its rows, the last newline perhaps      *)
(* missing: the kth line ends at ends[k].                                  *)
IsWritten(file) ==
  /\ file.ends[0] = 0
  /\ Len(file.text) \in {file.ends[Len(file.rows)], file.ends[Len(file.rows)] - 1}
  /\ \A k \in 1 .. Len(file.rows) :
       LET line == Lines[file.rows[k]].text
       IN  /\ file.ends[k] = file.ends[k - 1] + Len(line) + 1
           /\ \A i \in 1 .. Len(line) : file.text[file.ends[k - 1] + i] = line[i]
           /\ file.ends[k] <= Len(file.text) => file.text[file.ends[k]] = Newline

(* Any other may be cut off anywhere.                                      *)
IsFile(file, rows) ==
  /\ file.text \in Seq((Characters \ DOMAIN Lines) \cup rows)
  /\ file.cuts \in Seq(Nat) /\ file.complete \in BOOLEAN
  /\ End(file, Len(file.cuts)) = Len(file.text)
  /\ \A k \in 1 .. Len(file.cuts) : End(file, k - 1) <= End(file, k)
  /\ file.rows \in Seq(rows) /\ file.ends \in [0 .. Len(file.rows) -> Nat]
  /\ file.complete => IsWritten(file)

ASSUME FilesAssumption ==
  \A f \in Files : /\ IsFile(f.words, WordRows) /\ IsFile(f.edges, EdgeRows)
                   /\ IsFile(f.deletions, DeletionRows)

VARIABLES files,     \* the files, as they are on disk
          reader,    \* the iterator of the file being read
          loading,   \* what is being read, or how it ended
          graph      \* what has been read
graphVars == <<files, reader, loading, graph>>

-------------------------------------------------------------------------------
(* A line that a row was written as gives the row; one of which only the   *)
(* end is missing has all its columns, the last of them cut short; any     *)
(* other has too few.                                                      *)
RowOf(line) == Lines[line[1]].row

IsWhole(line) == line # <<>> /\ line[1] \in DOMAIN Lines /\ line = Lines[line[1]].text

IsCut(line) ==
  /\ Len(line) > 1 /\ line[1] \in DOMAIN Lines
  /\ IsStrictPrefix(line, Lines[line[1]].text)

(* The priority of an edge type, for edge::operator<.                      *)
Priority(type) ==
  CASE type = "ANTONYM"     -> 10
    [] type = "HYPERNYM"    -> 20
    [] type = "HYPONYM"     -> 30
    [] type = "MERONYM"     -> 40
    [] type = "HOLONYM"     -> 50
    [] type = "QUANTUP"     -> 60
    [] type = "QUANTDOWN"   -> 70
    [] type = "QUANTREWORD" -> 80
    [] type = "SIMILAR"     -> 90
    [] type = "SYNONYM"     -> 100
    [] type = "VENTAIL"     -> 110
    [] type = "NN"          -> 120
    [] OTHER                -> 0

Precedes(e, f) == Priority(e.type) + e.cost < Priority(f.type) + f.cost

(* What std::sort, which need not be stable, may make of a list.           *)
Sorted(list) ==
  {sorted \in {[k \in DOMAIN list |-> list[order[k]]] : order \in Bijection(DOMAIN list, DOMAIN list)} :
     \A k, l \in DOMAIN list : k < l => ~Precedes(sorted[l], sorted[k])}

EmptyGraph ==
  [numWords |-> 0, known |-> {}, edges |-> <<>>, capacity |-> <<>>, invalid |-> {}]

Allocated(g) ==
  [g EXCEPT !.edges = [w \in 0 .. g.numWords - 1 |-> <<>>],
            !.capacity = [w \in 0 .. g.numWords - 1 |-> InitialCapacity]]

GraphInit ==
  /\ files \in Files
  /\ reader = GZIterator(files.words)
  /\ loading = "count"
  /\ graph = EmptyGraph

Stop(how) == loading' = how /\ UNCHANGED graph

Take(g) == graph' = g /\ UNCHANGED loading

(* The iterator has no next row: the next file is opened.                  *)
AtEnd(what) == loading = what /\ ~HasNext(reader)

Finished(what, next, iterator, g) ==
  /\ AtEnd(what)
  /\ loading' = next
  /\ reader' = iterator
  /\ graph' = g
  /\ UNCHANGED files

(* The next row is read, and taken as handle says.                         *)
Row(what, handle(_)) ==
  /\ loading = what /\ HasNext(reader)
  /\ LET next == NextLine(reader)
     IN  /\ reader' = next.reader
         /\ IF TooLong(next.line) THEN Stop("undefined") ELSE handle(next.line)
  /\ UNCHANGED files

-------------------------------------------------------------------------------
(* ReadGraph counts the words first: the largest index counts.  A row with *)
(* too few columns has no row[1], and reading it has no meaning; a row     *)
(* without a number in front fails an assertion.                           *)
Larger(m, n) == IF m > n THEN m ELSE n

CountWord(line) ==
  IF line = <<>> THEN Stop("undefined")
  ELSE IF line[1] \in DOMAIN Lines
       THEN Take([graph EXCEPT !.numWords = Larger(@, RowOf(line).index + 1)])
  ELSE Stop("exit")

ReadWord(line) ==
  IF IsWhole(line) \/ IsCut(line)
  THEN Take([graph EXCEPT !.known = @ \cup {RowOf(line).index}])
  ELSE Stop("undefined")

(* The row of an edge that ends the program: a word or a sense out of      *)
(* range, an unknown type, a cost that is negative or no number.           *)
Invalid(e) ==
  \/ e.columns # 6
  \/ e.source >= graph.numWords \/ e.sink >= graph.numWords
  \/ e.source_sense >= Senses \/ e.sink_sense >= Senses
  \/ e.type \notin EdgeTypes

IsIdentity(e) == e.source = e.sink /\ e.source_sense = e.sink_sense

(* Mutant: the array grows when it is full, but not the one with room left.*)
GrowBeyond(capacity, n) == IF n > capacity THEN 2 * capacity ELSE capacity

(* The array of a word's edges doubles when one more would fill it.        *)
Grow(capacity, n) == IF n >= capacity - 1 THEN 2 * capacity ELSE capacity

AddEdge(g, e) ==
  [g EXCEPT !.capacity[e.sink] = Grow(@, Len(g.edges[e.sink])),
            !.edges[e.sink] = Append(@, e)]

ReadEdgeRow(e) ==
  IF Invalid(e) THEN Stop("exit")
  ELSE IF IsIdentity(e) THEN Take(graph)
  ELSE IF e.cost < 0 THEN Stop("exit")
  ELSE Take(AddEdge(graph, e))

(* The senses go into bytes before they are looked at.                     *)
EdgeOf(row) == [row EXCEPT !.source_sense = @ % 256, !.sink_sense = @ % 256]

ReadEdge(line) ==
  IF IsWhole(line) THEN ReadEdgeRow(EdgeOf(RowOf(line)))
  ELSE IF IsCut(line) THEN ReadEdgeRow([EdgeOf(RowOf(line)) EXCEPT !.cost = 0])
  ELSE Stop("exit")

(* The sense goes into a field of SENSE_ENTROPY bits.                      *)
TaggedWord(w, sense) == <<w, sense % Senses>>

ReadDeletion(line) ==
  IF IsWhole(line) \/ IsCut(line)
  THEN Take([graph EXCEPT !.invalid = @ \cup {TaggedWord(RowOf(line).word, RowOf(line).sense)}])
  ELSE Stop("undefined")

SortedLists ==
  {lists \in [DOMAIN graph.edges -> UNION {Sorted(graph.edges[w]) : w \in DOMAIN graph.edges}] :
     \A w \in DOMAIN graph.edges : lists[w] \in Sorted(graph.edges[w])}

CountRow == Row("count", CountWord)
CountEnd == Finished("count", "words", GZIterator(files.words), graph)

WordRow == Row("words", ReadWord)
WordEnd == Finished("words", "edges", GZIterator(files.edges), Allocated(graph))

EdgeRow == Row("edges", ReadEdge)
EdgeEnd == Finished("edges", "deletions", GZIterator(files.deletions), graph)

DeletionRow == Row("deletions", ReadDeletion)
DeletionEnd ==
  /\ AtEnd("deletions")
  /\ \E lists \in SortedLists :
       Finished("deletions", "done", reader, [graph EXCEPT !.edges = lists])

GraphNext ==
  \/ CountRow \/ CountEnd \/ WordRow \/ WordEnd
  \/ EdgeRow \/ EdgeEnd \/ DeletionRow \/ DeletionEnd

GraphSpec == GraphInit /\ [][GraphNext]_graphVars

-------------------------------------------------------------------------------
(* What the graph answers                                                  *)
IncomingEdgesFast(w) == graph.edges[w]

IncomingEdges(w, sense) == {e \in Range(graph.edges[w]) : e.sink_sense = sense}

ContainsDeletion(w, sense) ==
  \/ w \notin {t[1] : t \in graph.invalid}
  \/ TaggedWord(w, sense) \notin graph.invalid

-------------------------------------------------------------------------------
(* Properties                                                              *)
RowsOf(file) == {Lines[c].row : c \in Range(file.rows)}

(* The places among the rows of the edges that lead to word w.             *)
EdgesTo(rows, w) ==
  {k \in DOMAIN rows : LET e == Lines[rows[k]].row IN e.sink = w /\ ~IsIdentity(e)}

IsComplete(fs) == fs.words.complete /\ fs.edges.complete /\ fs.deletions.complete

(* A list has each of the rows at these places once, and no other.         *)
Lists(list, rows, places) ==
  \E place \in Bijection(DOMAIN list, places) :
    \A k \in DOMAIN list : list[k] = Lines[rows[place[k]]].row

(* A graph that is used has been read from whole files, and answers with   *)
(* just what they say, wherever the buffers and the blocks of the          *)
(* compressed file cut their lines: no row is lost, torn or read twice,    *)
(* and a file that was cut off is never taken for a whole one.             *)
NothingLost ==
  loading = "done" =>
    /\ IsComplete(files)
    /\ graph.known = {r.index : r \in RowsOf(files.words)}
    /\ \A w \in graph.known : w < graph.numWords
    /\ \A w \in 0 .. graph.numWords - 1 :
         /\ Lists(IncomingEdgesFast(w), files.edges.rows, EdgesTo(files.edges.rows, w))
         /\ \A sense \in 0 .. Senses - 1 :
              /\ IncomingEdges(w, sense) =
                   {e \in RowsOf(files.edges) : ~IsIdentity(e) /\ e.sink = w /\ e.sink_sense = sense}
              /\ ContainsDeletion(w, sense) =
                   (\A r \in RowsOf(files.deletions) : <<r.word, r.sense>> # <<w, sense>>)

(* The lists the search walks along are in order, cheapest first, and were *)
(* never written past their end while they grew.                           *)
ListsRight ==
  \A w \in DOMAIN graph.edges :
    /\ Len(graph.edges[w]) < graph.capacity[w]
    /\ loading = "done" =>
         \A k, l \in DOMAIN graph.edges[w] : k < l => ~Precedes(graph.edges[w][l], graph.edges[w][k])
===============================================================================
