------------------------------ MODULE Chunker ------------------------------
(***************************************************************************)
(* split_structured_text (document_chunker.py): the text of a page, line   *)
(* by line, becomes chunks that begin at headings, list items and blank    *)
(* lines where they can, and carry the path of the headings above them.    *)
(*                                                                         *)
(* Of a line matters its length, what its pattern says it is ("text",      *)
(* "item" for anything that begins a new chunk, "heading", "label" for a   *)
(* short line that is a heading if it follows a sentence, "blank"), its    *)
(* level, and whether a sentence ends with it.  A path of headings is the  *)
(* set of their lines: they are in the order of the page.                  *)
(***************************************************************************)
EXTENDS SequencesExt, Ordering

CONSTANTS
  PageLines,     \* records size (with its line break), kind, level, ends
  ChunkSize,
  Overlap,
  MaxLines       \* bound: lines of the page

\* A line is not empty, and a heading has a level of at least 1.
ASSUME LinesAssumption == \A line \in PageLines :
  /\ line.size \in Nat \ {0} /\ line.level \in Nat /\ line.ends \in BOOLEAN
  /\ line.kind \in {"heading", "label"} => line.level > 0
ASSUME ChunkAssumption == ChunkSize \in Nat \ {0} /\ Overlap \in 0 .. ChunkSize - 1

VARIABLES
  lines,         \* the lines read: begin, end, kind, heading (its level, or 0), ends
  outline,       \* heading_stack: the open headings, by line
  draft,         \* the chunk being made: begin (None if there is none), end, path
  pieces,        \* the chunks: records begin, end, path
  split          \* the page is at its end

chunkVars == <<lines, outline, draft, pieces, split>>

None == -1
Chunk(begin, end, path) == [begin |-> begin, end |-> end, path |-> path]
NoDraft == Chunk(None, 0, {})
Closed(d) == IF d.begin = None THEN <<>> ELSE <<d>>

\* Windows of a line that is too long; the last one reaches its end.
Windows(begin, end, path) ==
  LET step == ChunkSize - Overlap
      count == IF end - begin <= ChunkSize THEN 1
               ELSE 1 + (end - begin - ChunkSize + step - 1) \div step
      from(n) == begin + (n - 1) * step
  IN  [n \in 1 .. count |-> Chunk(from(n), Lower(from(n) + ChunkSize, end), path)]

IsHeading(line) ==
  \/ line.kind = "heading"
  \/ line.kind = "label" /\ draft.begin # None /\ Last(lines).ends

IsBoundary(line) == IsHeading(line) \/ line.kind \in {"item", "blank"}

\* Seeded fault: a heading stays open beside one of its own level.
OutlineAfterSibling(line, n) ==
  IF IsHeading(line)
  THEN {i \in outline : lines[i].heading <= line.level} \cup {n}
  ELSE outline

\* A heading closes those of its own level and below.
OutlineAfter(line, n) ==
  IF IsHeading(line)
  THEN {i \in outline : lines[i].heading < line.level} \cup {n}
  ELSE outline

PageEnd == IF lines = <<>> THEN 0 ELSE Last(lines).end

\* Seeded fault: the line is measured without what it would be added to.
OverflowsAlone(d, end) == end - PageEnd > ChunkSize

\* The line does not fit into the chunk before it.
Overflows(d, end) == end - d.begin > ChunkSize

\* Seeded fault: the chunk before a line that is too long is dropped.
MakeRoomDropping(d, begin, end, path) ==
  IF Overflows(d, end) /\ d.begin < begin
  THEN [closed |-> IF end - begin > ChunkSize THEN <<>> ELSE <<d>>, open |-> Chunk(begin, begin, path)]
  ELSE [closed |-> <<>>, open |-> d]

MakeRoom(d, begin, end, path) ==
  IF Overflows(d, end) /\ d.begin < begin
  THEN [closed |-> <<d>>, open |-> Chunk(begin, begin, path)]
  ELSE [closed |-> <<>>, open |-> d]

----------------------------------------------------------------------------
\* One turn of the loop over the lines.  A page is stripped, so that its
\* first line is not blank.
ReadLine ==
  /\ ~split /\ Len(lines) < MaxLines
  /\ \E line \in PageLines :
       LET begin == PageEnd
           end == begin + line.size
           path == OutlineAfter(line, Len(lines) + 1)
           before == IF IsBoundary(line) THEN Closed(draft) ELSE <<>>
           started == IF IsBoundary(line) \/ draft.begin = None THEN Chunk(begin, begin, path) ELSE draft
           room == MakeRoom(started, begin, end, path)
           written == pieces \o before \o room.closed
       IN  /\ line.kind = "blank" => lines # <<>>
           /\ lines' = Append(lines, [begin |-> begin, end |-> end, kind |-> line.kind, ends |-> line.ends,
                                      heading |-> IF IsHeading(line) THEN line.level ELSE 0])
           /\ outline' = path
           /\ CASE line.kind = "blank" -> pieces' = written /\ draft' = NoDraft
                [] line.kind # "blank" /\ Overflows(room.open, end) ->
                     pieces' = written \o Windows(begin, end, path) /\ draft' = NoDraft
                [] OTHER -> pieces' = written /\ draft' = [room.open EXCEPT !.end = end]
  /\ UNCHANGED split

\* A page of one line has windows and no headings.
EndPage ==
  /\ ~split /\ lines # <<>> /\ Last(lines).kind # "blank"
  /\ split' = TRUE
  /\ pieces' = IF Len(lines) = 1 THEN Windows(0, PageEnd, {}) ELSE pieces \o Closed(draft)
  /\ draft' = NoDraft
  /\ UNCHANGED <<lines, outline>>

ChunkInit == lines = <<>> /\ outline = {} /\ draft = NoDraft /\ pieces = <<>> /\ split = FALSE
ChunkNext == ReadLine \/ EndPage
ChunkSpec == ChunkInit /\ [][ChunkNext]_chunkVars

----------------------------------------------------------------------------
(* Correctness.                                                            *)

\* No text of the page is lost between its chunks: what is not indexed is
\* not found, and nothing tells that it is missing.
WholePageIndexed ==
  split => \A n \in DOMAIN lines : lines[n].kind # "blank" =>
    \A p \in lines[n].begin .. lines[n].end - 1 :
      \E c \in ToSet(pieces) : c.begin <= p /\ p < c.end

\* No chunk is longer than it may be, and two chunks share text only as
\* windows of one line.
ChunksFit ==
  /\ \A c \in ToSet(pieces) : c.end - c.begin \in 1 .. ChunkSize
  /\ \A i, j \in DOMAIN pieces : i < j /\ pieces[j].begin < pieces[i].end =>
       \E n \in DOMAIN lines : lines[n].begin <= pieces[i].begin /\ pieces[j].end <= lines[n].end

\* The headings above line n: those no later heading of their level or above
\* has ended.
HeadingsAbove(n) ==
  {i \in 1 .. n : /\ lines[i].heading > 0
                  /\ \A j \in i + 1 .. n : lines[j].heading \notin 1 .. lines[i].heading}

\* Every line of a chunk is under exactly the headings the chunk names, so
\* that a rule is never cited under another chapter; a page of one line
\* names none.
HeadingsTrue ==
  \A c \in ToSet(pieces), n \in DOMAIN lines :
    lines[n].begin < c.end /\ c.begin < lines[n].end =>
      c.path = IF split /\ Len(lines) = 1 THEN {} ELSE HeadingsAbove(n)

\* The chunks of a page are all of it, of the right size and place.
ChunkInv == WholePageIndexed /\ ChunksFit /\ HeadingsTrue

----------------------------------------------------------------------------
(* Why: the inductive invariant behind the properties.                     *)

LineRecords ==
  [begin : Nat, end : Nat, kind : {line.kind : line \in PageLines}, ends : BOOLEAN, heading : Nat]
PieceRecords == [begin : Nat, end : Nat, path : SUBSET Nat]

ChunkTypeOK ==
  /\ lines \in Seq(LineRecords)
  /\ pieces \in Seq(PieceRecords) /\ draft \in PieceRecords \cup {NoDraft} /\ split \in BOOLEAN

\* Lines follow each other without a gap, from the beginning of the page.
LinesInOrder ==
  /\ lines # <<>> => lines[1].begin = 0
  /\ \A n \in DOMAIN lines : lines[n].begin < lines[n].end /\ lines[n].end <= PageEnd

\* The chunk being made goes on to the end of what was read, behind all that
\* are made, and everything in it is under the same headings.
DraftHolds ==
  /\ \A i \in DOMAIN pieces : pieces[i].end <= IF draft = NoDraft THEN PageEnd ELSE draft.begin
  /\ draft # NoDraft =>
       /\ draft.end = PageEnd /\ draft.end - draft.begin \in 1 .. ChunkSize
       /\ draft.path = outline
       /\ \A n \in DOMAIN lines : draft.begin < lines[n].end => HeadingsAbove(n) = outline

\* What was read is in the chunks or in the one being made.
NothingLost ==
  \A n \in DOMAIN lines : lines[n].kind # "blank" =>
    \A p \in lines[n].begin .. lines[n].end - 1 :
      \E c \in ToSet(pieces \o Closed(draft)) : c.begin <= p /\ p < c.end

ChunkInduction ==
  /\ ChunkTypeOK /\ LinesInOrder /\ DraftHolds /\ NothingLost /\ ChunksFit /\ HeadingsTrue
  /\ outline = HeadingsAbove(Len(lines))
  /\ split => draft = NoDraft
=============================================================================
